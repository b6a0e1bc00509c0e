\* Five events, any of them stored and any of those deleted, and seventeen requests.
SPECIFICATION Spec
CONSTANTS
    note = note  comma = comma  stale = stale  room40 = room40  message = message
    Nil = Nil
    Event = {note, comma, stale, room40, message}
    Id <- MCId
    Author <- MCAuthor
    Kind <- MCKind
    Created <- MCCreated
    Content <- MCContent
    Tags <- MCTags
    Channel <- MCChannel
    Name <- MCName
    Past <- MCPast
    FilterLists <- MCFilterLists
    MaxPerReq = 3
INVARIANTS TypeOK Complete InOrder StoresAgree SearchComplete RoomComplete TagsSurvive
