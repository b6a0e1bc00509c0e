-------------------------- MODULE ConnectionProofs --------------------------
(***************************************************************************)
(* Proofs about Connection, for any number of clients, any capacity of     *)
(* sendCh and any number of messages: its invariants, and that Relay.Close *)
(* closes every client that is registered when it returns.                 *)
(***************************************************************************)
EXTENDS Connection, SequenceTheorems, TLAPS

\* Where ServeHTTP is tells whether the client is registered and its pumps run.
Phases == \A c \in Client :
    /\ serving[c] \in {"absent", "upgraded"} =>
           c \notin clients /\ waiting[c] = 0
             /\ reader[c] = "idle" /\ writer[c] = "idle"
    /\ serving[c] = "started" => c \in clients
    /\ serving[c] = "gone" => c \notin clients /\ reader[c] = "ended" /\ writer[c] = "ended"

\* A pump that has returned has closed the client.
EndedIsClosed == \A c \in Client : "ended" \in {reader[c], writer[c]} => closed[c]

\* The clients Relay.Close has passed are closed, and none is added meanwhile.
Passed ==
    /\ relay = "closing" => \A c \in clients \ left : closed[c]
    /\ relay # "closing" => left = {}

IInv == TypeOK /\ Phases /\ EndedIsClosed /\ Passed /\ NobodyStranded

-----------------------------------------------------------------------------
\* A Send method keeps to the capacity of the channel.
LEMMA PutFacts ==
    ASSUME TypeOK, NEW c \in Client, Put(c, "other")
    PROVE  /\ sendCh' \in [Client -> Seq(Message)]
           /\ \A d \in Client : Len(sendCh'[d]) <= Room
<1> USE ConnectionAssumption DEF TypeOK
<1>1. CASE UNCHANGED sendCh
    BY <1>1
<1>2. CASE Len(sendCh[c]) < Room /\ sendCh' = [sendCh EXCEPT ![c] = Append(@, "other")]
    <2> DEFINE new == Append(sendCh[c], "other")
    <2>1. "other" \in Message /\ sendCh[c] \in Seq(Message)
        BY DEF Message
    <2>2. new \in Seq(Message) /\ new # << >> /\ Len(new) = Len(sendCh[c]) + 1
        <3> HIDE DEF TypeOK
        <3> QED BY <2>1, AppendProperties
    <2>4. Len(sendCh[c]) \in Nat
        BY <2>1, LenProperties
    <2>5. sendCh'[c] = new /\ \A d \in Client \ {c} : sendCh'[d] = sendCh[d]
        BY <1>2
    <2>6. sendCh' \in [Client -> Seq(Message)]
        BY <1>2, <2>2
    <2>7. Len(new) <= Room
        BY <1>2, <2>2, <2>4
    <2> HIDE DEF new
    <2> QED BY <2>2, <2>5, <2>6, <2>7
<1> QED BY <1>1, <1>2 DEF Put

\* A handler that goes on is left with a type-correct job, of which there is
\* something left as long as it is in the handler.
LEMMA ContinueFacts ==
    ASSUME TypeOK, NEW c \in Client, NEW rest \in Seq(Step), Continue(c, rest)
    PROVE  /\ job' \in [Client -> Seq(Step)]
           /\ \A d \in Client \ {c} : job'[d] = job[d]
           /\ reader' \in [Client -> {"idle", "reading", "handling", "ended"}]
           /\ \A d \in Client : reader'[d] = "handling" => job'[d] # << >>
           /\ reader'[c] \in {"handling", "reading"} \/ closed[c]
           /\ \A d \in Client \ {c} : reader'[d] = reader[d]
           /\ reader'[c] # "idle"
BY DEF TypeOK, Continue, Read

LEMMA HandlingTypes == Handling \subseteq Seq(Step)
<1>1. "send" \in Step /\ "broadcast" \in Step
    BY DEF Step
<1>2. << >> \in Seq(Step) /\ <<"send">> \in Seq(Step) /\ <<"send", "send">> \in Seq(Step)
        /\ <<"send", "broadcast", "send">> \in Seq(Step)
    BY <1>1
<1> QED BY <1>2 DEF Handling

LEMMA IInvInit == Init => IInv
<1> SUFFICES ASSUME Init PROVE IInv
    OBVIOUS
<1> USE ConnectionAssumption
<1>1. << >> \in Seq(Step) /\ << >> \in Seq(Message) /\ Len(<< >>) = 0
    BY EmptySeq
<1>2. TypeOK
    BY <1>1 DEF Init, TypeOK
<1>3. Phases /\ EndedIsClosed /\ Passed /\ NobodyStranded
    BY DEF Init, Phases, EndedIsClosed, Passed, NobodyStranded
<1> QED BY <1>2, <1>3 DEF IInv

-----------------------------------------------------------------------------
LEMMA ServeStep ==
    ASSUME IInv, NEW c \in Client, Upgrade(c) \/ Register(c) \/ Unregister(c)
    PROVE  IInv'
<1> USE ConnectionAssumption DEF IInv, TypeOK, around, pumps
<1>1. CASE Upgrade(c)
    <2>1. "auth" \in Message /\ << >> \in Seq(Message) /\ <<"auth">> \in Seq(Message)
            /\ Len(<<"auth">>) = 1 /\ Len(<< >>) = 0
        BY DEF Message
    <2>3. TypeOK'
        BY <1>1, <2>1 DEF Upgrade
    <2>5. Phases' /\ EndedIsClosed' /\ Passed' /\ NobodyStranded'
        BY <1>1 DEF Upgrade, Phases, EndedIsClosed, Passed, NobodyStranded
    <2> QED BY <2>3, <2>5
<1>2. CASE Register(c)
    <2> USE <1>2 DEF Register, Launch, Unlocked
    <2>1. TypeOK'
        OBVIOUS
    <2>3. Phases' /\ EndedIsClosed'
        BY DEF Phases, EndedIsClosed
    <2>4. Passed' /\ NobodyStranded'
        BY DEF Passed, NobodyStranded
    <2> QED BY <2>1, <2>3, <2>4
<1>3. CASE Unregister(c)
    <2> USE <1>3 DEF Unregister, Close, Unlocked
    <2>1. TypeOK'
        OBVIOUS
    <2>3. Phases' /\ EndedIsClosed'
        BY DEF Phases, EndedIsClosed
    <2>4. Passed' /\ NobodyStranded'
        BY DEF Passed, NobodyStranded
    <2> QED BY <2>1, <2>3, <2>4
<1> QED BY <1>1, <1>2, <1>3

LEMMA ReadStep ==
    ASSUME IInv, NEW c \in Client,
           ReadMessage(c) \/ ReadFails(c) \/ Answer(c) \/ Broadcast(c)
    PROVE  IInv'
<1> USE ConnectionAssumption DEF IInv
<1>1. CASE ReadMessage(c)
    <2>1. PICK h \in Handling : Continue(c, h)
        BY <1>1 DEF ReadMessage
    <2>2. h \in Seq(Step)
        BY HandlingTypes
    <2>0. /\ job' \in [Client -> Seq(Step)]
          /\ reader' \in [Client -> {"idle", "reading", "handling", "ended"}]
          /\ \A d \in Client : reader'[d] = "handling" => job'[d] # << >>
          /\ reader'[c] \in {"handling", "reading"} \/ closed[c]
          /\ \A d \in Client \ {c} : reader'[d] = reader[d]
          /\ reader'[c] # "idle"
        BY <2>1, <2>2, ContinueFacts
    <2>3. TypeOK'
        BY <1>1, <2>0, <2>1 DEF ReadMessage, Continue, Read, TypeOK
    <2>4. Phases' /\ EndedIsClosed'
        BY <1>1, <2>0, <2>1
        DEF ReadMessage, Continue, Read, Phases, EndedIsClosed, TypeOK
    <2>5. Passed' /\ NobodyStranded'
        BY <1>1, <2>1 DEF ReadMessage, Continue, Read, Passed, NobodyStranded
    <2> QED BY <2>3, <2>4, <2>5
<1>2. CASE ReadFails(c)
    <2> USE <1>2 DEF ReadFails, Read, Close, TypeOK
    <2>1. TypeOK'
        OBVIOUS
    <2>2. Phases' /\ EndedIsClosed'
        BY DEF Phases, EndedIsClosed
    <2>3. Passed' /\ NobodyStranded'
        BY DEF Passed, NobodyStranded
    <2> QED BY <2>1, <2>2, <2>3
<1>3. CASE Answer(c)
    <2>1. Tail(job[c]) \in Seq(Step) /\ job[c] # << >>
        BY <1>3, HeadTailProperties DEF Answer, At, TypeOK
    <2>0. /\ job' \in [Client -> Seq(Step)]
          /\ reader' \in [Client -> {"idle", "reading", "handling", "ended"}]
          /\ \A d \in Client : reader'[d] = "handling" => job'[d] # << >>
          /\ reader'[c] \in {"handling", "reading"} \/ closed[c]
          /\ \A d \in Client \ {c} : reader'[d] = reader[d]
          /\ reader'[c] # "idle"
        BY <1>3, <2>1, ContinueFacts DEF Answer
    <2>6. sendCh' \in [Client -> Seq(Message)] /\ \A d \in Client : Len(sendCh'[d]) <= Room
        BY <1>3, PutFacts DEF Answer
    <2>2. TypeOK'
        BY <1>3, <2>0, <2>6 DEF Answer, Continue, Read, TypeOK
    <2>3. Phases' /\ EndedIsClosed'
        BY <1>3, <2>0
        DEF Answer, At, Continue, Read, Phases, EndedIsClosed, TypeOK
    <2>5. Passed' /\ NobodyStranded'
        BY <1>3 DEF Answer, Continue, Read, Passed, NobodyStranded
    <2> QED BY <2>2, <2>3, <2>5
<1>4. CASE Broadcast(c)
    <2>1. Tail(job[c]) \in Seq(Step) /\ job[c] # << >>
        BY <1>4, HeadTailProperties DEF Broadcast, At, TypeOK
    <2>2. PICK to \in SUBSET clients :
              waiting' = [d \in Client |-> waiting[d] + IF d \in to THEN 1 ELSE 0]
        BY <1>4 DEF Broadcast, StartSenders
    <2>3. waiting' \in [Client -> Nat]
        BY <2>2 DEF TypeOK
    <2>0. /\ job' \in [Client -> Seq(Step)]
          /\ reader' \in [Client -> {"idle", "reading", "handling", "ended"}]
          /\ \A d \in Client : reader'[d] = "handling" => job'[d] # << >>
          /\ reader'[c] \in {"handling", "reading"} \/ closed[c]
          /\ \A d \in Client \ {c} : reader'[d] = reader[d]
          /\ reader'[c] # "idle"
        BY <1>4, <2>1, ContinueFacts DEF Broadcast
    <2>4. TypeOK'
        BY <1>4, <2>0, <2>3 DEF Broadcast, Continue, Read, TypeOK
    <2>5. \A d \in Client \ clients : waiting'[d] = waiting[d]
        BY <2>2 DEF TypeOK
    <2>6. Phases' /\ EndedIsClosed'
        BY <1>4, <2>0, <2>5
        DEF Broadcast, At, Continue, Read, Phases, EndedIsClosed, TypeOK
    <2>7. Passed' /\ NobodyStranded'
        BY <1>4, <2>5 DEF Broadcast, Continue, Read, Passed, NobodyStranded
    <2> QED BY <2>4, <2>6, <2>7
<1> QED BY <1>1, <1>2, <1>3, <1>4

LEMMA WriteStep ==
    ASSUME IInv, NEW c \in Client,
           Writing(c) \/ Deliver(c)
    PROVE  IInv'
<1> USE ConnectionAssumption DEF IInv
<1>1. CASE SeeClosed(c) \/ WriteMessage(c) \/ WriteFails(c)
    <2> USE DEF SeeClosed, WriteMessage, WriteFails, Write, Close
    <2>1. TypeOK'
        BY <1>1 DEF TypeOK
    <2>2. /\ UNCHANGED <<clients, serving, waiting, reader>>
          /\ writer[c] \in {"select", "writing"}
          /\ \A d \in Client \ {c} : writer'[d] = writer[d]
          /\ writer'[c] = "ended" => closed'[c]
          /\ \A d \in Client : closed[d] => closed'[d]
        BY <1>1 DEF TypeOK
    <2>3. Phases'
        <3> HIDE DEF SeeClosed, WriteMessage, WriteFails, Write, Close
        <3> SUFFICES ASSUME NEW d \in Client
            PROVE  /\ serving[d] \in {"absent", "upgraded"} =>
                          d \notin clients /\ waiting[d] = 0
                            /\ reader[d] = "idle" /\ writer'[d] = "idle"
                   /\ serving[d] = "started" => d \in clients
                   /\ serving[d] = "gone" =>
                          d \notin clients /\ reader[d] = "ended" /\ writer'[d] = "ended"
            BY <2>2 DEF Phases
        <3>1. CASE d = c
            BY <2>2, <3>1 DEF Phases
        <3>2. CASE d # c
            BY <2>2, <3>2 DEF Phases
        <3> QED BY <3>1, <3>2
    <2>4. EndedIsClosed'
        <3> HIDE DEF SeeClosed, WriteMessage, WriteFails, Write, Close
        <3> QED BY <2>2 DEF EndedIsClosed
    <2>6. UNCHANGED <<clients, left, relay, waiting>>
        BY <1>1
    <2>7. Passed' /\ NobodyStranded'
        <3> HIDE DEF SeeClosed, WriteMessage, WriteFails, Write, Close
        <3> QED BY <2>2, <2>6 DEF Passed, NobodyStranded, TypeOK
    <2> QED BY <2>1, <2>3, <2>4, <2>7
<1>2. CASE Take(c)
    <2>1. /\ Head(sendCh[c]) \in Message /\ Tail(sendCh[c]) \in Seq(Message)
          /\ Len(sendCh[c]) \in Nat /\ Len(Tail(sendCh[c])) = Len(sendCh[c]) - 1
        BY <1>2, HeadTailProperties, LenProperties DEF Take, TypeOK
    <2>2. TypeOK'
        BY <1>2, <2>1 DEF Take, Write, TypeOK
    <2>5. Phases' /\ EndedIsClosed'
        BY <1>2 DEF Take, Write, Phases, EndedIsClosed, TypeOK
    <2>6. Passed' /\ NobodyStranded'
        BY <1>2 DEF Take, Write, Passed, NobodyStranded
    <2> QED BY <2>2, <2>5, <2>6
<1>3. CASE Deliver(c)
    <2> USE <1>3 DEF Deliver, around, pumps
    <2>1. sendCh' \in [Client -> Seq(Message)] /\ \A d \in Client : Len(sendCh'[d]) <= Room
        BY PutFacts
    <2>2. waiting' \in [Client -> Nat]
        BY DEF TypeOK
    <2>3. TypeOK'
        BY <2>1, <2>2 DEF TypeOK
    <2>4. Phases'
        BY DEF Phases, TypeOK
    <2>5. EndedIsClosed' /\ Passed' /\ NobodyStranded'
        BY DEF EndedIsClosed, Passed, NobodyStranded, TypeOK
    <2> QED BY <2>3, <2>4, <2>5
<1> QED BY <1>1, <1>2, <1>3 DEF Writing

LEMMA CloseStep ==
    ASSUME IInv,
           CloseBegins \/ CloseReturns \/ \E c \in Client : CloseOne(c) \/ PeerTurns(c)
    PROVE  IInv'
<1> USE ConnectionAssumption DEF IInv, pumps
<1>1. CASE CloseBegins \/ CloseReturns
    BY <1>1 DEF CloseBegins, CloseReturns, TypeOK, Phases, EndedIsClosed,
                Passed, NobodyStranded
<1>2. ASSUME NEW c \in Client, CloseOne(c) PROVE IInv'
    <2> USE <1>2 DEF CloseOne, Close, TypeOK
    <2>1. TypeOK'
        OBVIOUS
    <2>2. Phases' /\ EndedIsClosed' /\ NobodyStranded'
        BY DEF Phases, EndedIsClosed, NobodyStranded
    <2>3. Passed'
        BY DEF Passed
    <2> QED BY <2>1, <2>2, <2>3
<1>3. ASSUME NEW c \in Client, PeerTurns(c) PROVE IInv'
    BY <1>3 DEF PeerTurns, TypeOK, Phases, EndedIsClosed, Passed,
                NobodyStranded
<1> QED BY <1>1, <1>2, <1>3

LEMMA IInvStep == IInv /\ [Next]_vars => IInv'
<1> SUFFICES ASSUME IInv, [Next]_vars PROVE IInv'
    OBVIOUS
<1>1. CASE UNCHANGED vars
    BY <1>1 DEF vars, IInv, TypeOK, Phases, EndedIsClosed, Passed,
                NobodyStranded
<1>2. CASE Next
    BY <1>2, ServeStep, ReadStep, WriteStep, CloseStep DEF Next, Reading, Serving, Closing
<1> QED BY <1>1, <1>2

LEMMA IInvAlways == Spec => []IInv
BY IInvInit, IInvStep, PTL DEF Spec

-----------------------------------------------------------------------------
\* sendCh never holds more than its capacity, and a handler that is running has
\* something left to do.
THEOREM TypeCorrect == Spec => []TypeOK
BY IInvAlways, PTL DEF IInv

\* A broadcast goroutine can always be released: its client is registered or closed.
THEOREM NobodyStrandedCorrect == Spec => []NobodyStranded
BY IInvAlways, PTL DEF IInv

\* Relay.Close closes all: no client registers behind its back.
THEOREM CloseIsCompleteCorrect == Spec => CloseIsComplete
<1>1. ASSUME IInv, [Next]_vars, relay = "closing", relay' = "closed"
      PROVE  \A c \in clients : closed[c]
    <2>1. left = {}
        BY <1>1 DEF Next, Reading, Writing, Serving, Closing, vars, Upgrade, Register, Launch,
            Unregister, ReadMessage, ReadFails, Answer, Broadcast, Continue, Read, SeeClosed,
            Take, WriteMessage, WriteFails, Write, Deliver, CloseBegins, CloseOne,
            CloseReturns, PeerTurns, around
    <2> QED BY <1>1, <2>1 DEF IInv, Passed
<1>2. IInv /\ [Next]_vars => [relay = "closing" /\ relay' = "closed"
                                => \A c \in clients : closed[c]]_vars
    BY <1>1
<1> QED BY <1>2, IInvAlways, PTL DEF Spec, CloseIsComplete
=============================================================================
