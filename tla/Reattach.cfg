SPECIFICATION AttachmentsSpec
CONSTANT Pids = {p1, p2}
 Doors = {"panel"}
INVARIANT UndoGoesHome
