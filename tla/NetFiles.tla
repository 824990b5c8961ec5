------------------------------ MODULE NetFiles ------------------------------
(***************************************************************************)
(* The net disk's directories: the requests by which logged-in users list, *)
(* enter, create, delete, rename and move what they keep on the server and *)
(* share files with each other, and the panel (class book) from which      *)
(* their clients make them.  The panel keeps a current path of its own,    *)
(* m_strCurPath, and a list that some answer brought; requests name what   *)
(* they are about by that path and an item of that list.  Answers come     *)
(* later, and the user may click on in the meantime.                       *)
(*                                                                         *)
(* A path is a sequence: the user's name, then names in the tree.  A name  *)
(* is a sequence too: what the user called it, then the numbers the server *)
(* has added to make it unique.  Directories and files have names of their *)
(* own kinds.  Uploads are module NetTransfer; here no socket is in file   *)
(* mode, and every user is the others' friend and is logged in.            *)
(***************************************************************************)
EXTENDS Naturals, Sequences, SequencesExt

CONSTANTS Users,     \* the users, each with a client
          Dir, InitialFs, \* what is on the server's disk: [path -> Dir or a content]
          Words, DirNames, FileNames, \* what users call things, directories, files
          NoName, NoPath,
          MaxClicks  \* buttons pressed, by all users together

\* What the user called it, and the numbers added since.
Names == Seq(Words \cup Nat)

\* A disk: below the users' roots everything is in a directory.
IsTree(f) ==
  /\ f = [p \in DOMAIN f |-> f[p]] /\ IsFiniteSet(DOMAIN f)
  /\ \A u \in Users : <<u>> \in DOMAIN f /\ f[<<u>>] = Dir
  /\ \A p \in DOMAIN f :
       /\ p \in Seq(Users \cup Names) /\ p # <<>>
       /\ \A i \in 1..Len(p) : p[i] \in IF i = 1 THEN Users ELSE Names
       /\ \A k \in 1..(Len(p) - 1) : LET q == SubSeq(p, 1, k) IN q \in DOMAIN f /\ f[q] = Dir

ASSUME NamesAssumption ==
  DirNames \cup FileNames \subseteq Words /\ \A n \in Users \cup {NoName} : n \notin Names
ASSUME InitialFsAssumption == IsTree(InitialFs)

VARIABLES
  fs,        \* the server's disk
  req, ans,  \* per client: PDUs on their way to, and from, the server
  ui,        \* per client: the panel
  box,       \* per client: open message boxes, the top one first
  clicks,
  undef,     \* why what happens next is undefined: "no" (it is not), "missing"
             \* (of the null or wild pointer for something that is not there),
             \* "unset" (of a variable that was never assigned)
  deleted,   \* history: contents removed by DEL_DIR_OR_FILE
  hasty,     \* history: clients used while an answer was due to them
  mixed,     \* history: clients that asked for a list while entering a directory
  cut,       \* history: clients whose Return was pressed in their root
  stale,     \* history: clients that changed what they had picked or offered
  wrong      \* history: clients whose request met another file than they meant

panels == <<ui, box>>
history == <<deleted, hasty, mixed, cut, stale, wrong>>
vars == <<fs, req, ans, panels, clicks, undef, history>>

\* item: currentItem; delOn, fileOn, retOn: which buttons are enabled (Delete
\* and Rename; Share and Move; Return); moving, sharing: the file picked.
Panel(u) == [cur |-> <<u>>, enter |-> NoName, shown |-> <<>>, item |-> NoName,
             delOn |-> FALSE, fileOn |-> FALSE, retOn |-> FALSE,
             moving |-> NoPath, sharing |-> NoName]

IsDir(p) == p \in DOMAIN fs /\ fs[p] = Dir
IsFile(p) == p \in DOMAIN fs /\ fs[p] # Dir
Below(p) == {q \in DOMAIN fs : IsPrefix(p, q)}
Children(p) == {q \in DOMAIN fs : Len(q) = Len(p) + 1 /\ IsPrefix(p, q)}
At(p) == IF p \in DOMAIN fs THEN fs[p] ELSE NoPath

\* entryInfoList: the names in a directory and their kinds.  The history of
\* what a user means needs the contents too; the panel sees Dir or not.
Listing(p) == [n \in {Last(q) : q \in Children(p)} |-> fs[Append(p, n)]]

\* The loops over QFile::exists: the name itself, or with the least number.
Unique(dir, name) ==
  IF Append(dir, name) \notin DOMAIN fs THEN name
  ELSE CHOOSE n \in {Append(name, i) : i \in 1..Cardinality(DOMAIN fs)} :
         /\ Append(dir, n) \notin DOMAIN fs
         /\ \A i \in 1..(Last(n) - 1) : Append(dir, Append(name, i)) \in DOMAIN fs

\* Everything from p on is to be found from q on instead.
Moved(p, q) ==
  LET new == {q \o SubSeq(r, Len(p) + 1, Len(r)) : r \in Below(p)}
  IN [r \in (DOMAIN fs \ Below(p)) \cup new |->
        IF r \in new THEN fs[p \o SubSeq(r, Len(q) + 1, Len(r))] ELSE fs[r]]

Contents(paths) == {fs[q] : q \in paths} \ {Dir}

Init ==
  /\ fs = InitialFs
  /\ req = [c \in Users |-> <<>>] /\ ans = [c \in Users |-> <<>>]
  /\ ui = [c \in Users |-> [Panel(c) EXCEPT !.shown = Listing(<<c>>)]]
  /\ box = [c \in Users |-> <<>>]
  /\ clicks = 0 /\ undef = "no"
  /\ deleted = {} /\ hasty = {} /\ mixed = {} /\ cut = {} /\ stale = {} /\ wrong = {}

Defined == undef = "no"
Quiet(c) == req[c] = <<>> /\ ans[c] = <<>>

-----------------------------------------------------------------------------
(* The client: requests.                                                   *)

Entering(c) ==
  \/ \E i \in DOMAIN req[c] : req[c][i].kind = "enter"
  \/ \E i \in DOMAIN ans[c] : ans[c][i].kind = "entered"

\* A share of c that the friend has not answered, or whose answer is under way.
Offered(c) ==
  \/ ui[c].sharing # NoName
  \/ \E d \in Users : \/ \E i \in DOMAIN req[d] : /\ req[d][i].kind \in {"share", "agree"}
                                                  /\ req[d][i].from = c
                      \/ \E i \in DOMAIN ans[d] : ans[d][i].kind = "note" /\ ans[d][i].from = c
                      \/ \E i \in DOMAIN box[d] : box[d][i].kind = "note" /\ box[d][i].from = c

Sends(c, r) ==
  /\ req' = [req EXCEPT ![c] = Append(@, r)]
  /\ mixed' = IF Entering(c) /\ r.kind \in {"list", "enter"} THEN mixed \cup {c} ELSE mixed

\* flushFile() with the panel p: the buttons go off and the list is asked for.
FlushFile(c, p) ==
  /\ ui' = [ui EXCEPT ![c] = [p EXCEPT !.delOn = FALSE, !.fileOn = FALSE]]
  /\ Sends(c, [kind |-> "list", path |-> p.cur])

\* updateFileList with the panel p: clear() leaves no current item.
UpdateFileList(c, p, list) ==
  ui' = [ui EXCEPT ![c] = [p EXCEPT !.shown = list, !.item = NoName]]

\* The user of c clicks: a message box would be in the way.
Uses(c) ==
  /\ Defined /\ box[c] = <<>>
  /\ hasty' = IF Quiet(c) THEN hasty ELSE hasty \cup {c}
  /\ UNCHANGED <<fs, ans, box, deleted, wrong>>

Clicks(c) == Uses(c) /\ clicks < MaxClicks /\ clicks' = clicks + 1

\* Deleting, renaming or moving something, or leaving the directory, after a
\* file was picked or offered.
Spoils(c, always) ==
  stale' = IF Offered(c) \/ (always /\ ui[c].moving # NoPath) THEN stale \cup {c} ELSE stale

\* on_BookListW_itemClicked
ClickItem(c) == \E n \in DOMAIN ui[c].shown :
  /\ Uses(c)
  /\ ui[c].item # n \/ ~ui[c].delOn
  /\ ui' = [ui EXCEPT ![c].item = n, ![c].delOn = TRUE,
                      ![c].fileOn = (ui[c].shown[n] # Dir)]
  /\ UNCHANGED <<req, clicks, undef, mixed, cut, stale>>

\* on_FlushFilePB_clicked
ClickFlush(c) ==
  /\ Clicks(c)
  /\ FlushFile(c, ui[c])
  /\ UNCHANGED <<undef, cut, stale>>

\* on_CreateDirPB_clicked
ClickCreate(c) == \E n \in DirNames :
  /\ Clicks(c)
  /\ Sends(c, [kind |-> "create", path |-> ui[c].cur, name |-> <<n>>])
  /\ UNCHANGED <<ui, undef, cut, stale>>

\* on_DelDirPB_clicked; nothing is sent without a current item.
ClickDelete(c) ==
  /\ Clicks(c)
  /\ ui[c].delOn /\ ui[c].item # NoName
  /\ Sends(c, [kind |-> "delete", path |-> Append(ui[c].cur, ui[c].item),
               meant |-> ui[c].shown[ui[c].item]])
  /\ Spoils(c, TRUE)
  /\ UNCHANGED <<ui, undef, cut>>

\* on_RenamePB_clicked
ClickRename(c) ==
  /\ Clicks(c)
  /\ ui[c].delOn /\ ui[c].item # NoName
  /\ LET meant == ui[c].shown[ui[c].item]
     IN \E n \in IF meant = Dir THEN DirNames ELSE FileNames :
          Sends(c, [kind |-> "rename", path |-> Append(ui[c].cur, ui[c].item),
                    to |-> Append(ui[c].cur, <<n>>), meant |-> meant])
  /\ Spoils(c, TRUE)
  /\ UNCHANGED <<ui, undef, cut>>

\* on_BookListW_doubleClicked, after the first click's itemClicked.
DoubleClick(c) == \E n \in DOMAIN ui[c].shown :
  /\ Clicks(c)
  /\ ui' = [ui EXCEPT ![c].item = n, ![c].enter = n, ![c].retOn = TRUE, ![c].delOn = FALSE,
                      ![c].fileOn = (ui[c].shown[n] # Dir)]
  /\ Sends(c, [kind |-> "enter", path |-> Append(ui[c].cur, n)])
  /\ Spoils(c, FALSE)
  /\ UNCHANGED <<undef, cut>>

\* The path without its last name.  In a user's root there is no '/':
\* lastIndexOf gives -1, and remove(-1, ...) takes the last letter of the
\* user's name off, which leaves a name that nobody has.
Parent(p) == IF Len(p) > 1 THEN Front(p) ELSE <<>>

\* on_ReturnPB_clicked
ClickReturn(c) ==
  /\ Clicks(c)
  /\ ui[c].retOn
  /\ LET up == Parent(ui[c].cur)
     IN FlushFile(c, [ui[c] EXCEPT !.cur = up, !.retOn = (up # <<c>>)])
  /\ cut' = IF Len(ui[c].cur) <= 1 THEN cut \cup {c} ELSE cut
  /\ Spoils(c, FALSE)
  /\ UNCHANGED undef

\* on_moveFile_pb_clicked: the file to move is picked ...
PickMove(c) ==
  /\ Clicks(c)
  /\ ui[c].delOn /\ ui[c].fileOn /\ ui[c].item # NoName
  /\ ui' = [ui EXCEPT ![c].moving = [path |-> Append(ui[c].cur, ui[c].item),
                                     name |-> ui[c].item,
                                     meant |-> ui[c].shown[ui[c].item]]]
  /\ UNCHANGED <<req, undef, mixed, cut, stale>>

\* Mutant of MoveSource: the source is looked for where the user is now.
MoveFromHere(p) == Append(p.cur, p.moving.name)

\* strMoveFilePath
MoveSource(p) == p.moving.path

\* ... and on_moveFilePath_pb_clicked: moved to where the user is now.
ConfirmMove(c) ==
  /\ Clicks(c)
  /\ ui[c].moving # NoPath
  /\ Sends(c, [kind |-> "move", path |-> MoveSource(ui[c]), to |-> ui[c].cur,
               name |-> ui[c].moving.name, meant |-> ui[c].moving.meant])
  /\ ui' = [ui EXCEPT ![c].moving = NoPath]
  /\ Spoils(c, FALSE)
  /\ UNCHANGED <<undef, cut>>

\* on_ShareFilePB_clicked: without a current item a null pointer is used.
PickShare(c) ==
  /\ Clicks(c)
  /\ ui[c].fileOn
  /\ IF ui[c].item = NoName
     THEN undef' = "missing" /\ UNCHANGED ui
     ELSE /\ ui' = [ui EXCEPT ![c].sharing = [name |-> ui[c].item,
                                              meant |-> ui[c].shown[ui[c].item]]]
          /\ UNCHANGED undef
  /\ UNCHANGED <<req, mixed, cut, stale>>

\* ShareFile::on_ok_pb_clicked: the name that was picked, in the directory
\* where the user is now.
ConfirmShare(c) == \E friend \in Users \ {c} :
  /\ Clicks(c)
  /\ ui[c].sharing # NoName
  /\ Sends(c, [kind |-> "share", from |-> c, to |-> friend,
               path |-> Append(ui[c].cur, ui[c].sharing.name), meant |-> ui[c].sharing.meant])
  /\ ui' = [ui EXCEPT ![c].sharing = NoName]
  /\ UNCHANGED <<undef, cut, stale>>

-----------------------------------------------------------------------------
(* The client: answers.                                                    *)

\* recvMsg takes the PDU a.
Takes(c, a) ==
  /\ Defined
  /\ ans[c] # <<>> /\ a = Head(ans[c])
  /\ ans' = [ans EXCEPT ![c] = Tail(@)]
  /\ UNCHANGED <<fs, clicks, undef, deleted, hasty, cut, stale, wrong>>

Next1(c) == IF ans[c] = <<>> THEN {} ELSE {Head(ans[c])}

\* CREATE_DIR, DEL_DIR_OR_FILE and RENAME_FILE_RESPOND: the list is asked for
\* again, after a creation even if it failed.
TakeChanged(c) == \E a \in Next1(c) :
  /\ a.kind = "changed" /\ Takes(c, a)
  /\ IF a.ok THEN FlushFile(c, ui[c]) ELSE UNCHANGED <<ui, req, mixed>>
  /\ UNCHANGED box

\* FLUSH_FILE_RESPOND
TakeList(c) == \E a \in Next1(c) :
  /\ a.kind = "list" /\ Takes(c, a)
  /\ UpdateFileList(c, ui[c], a.list)
  /\ UNCHANGED <<req, mixed, box>>

\* Mutant of Entered: the path is updated before the answer is looked at.
EnteredAnyway(c, a) ==
  LET p == [ui[c] EXCEPT !.cur = Append(@, ui[c].enter)]
  IN IF a.ok THEN UpdateFileList(c, p, a.list) ELSE ui' = [ui EXCEPT ![c] = p]

\* The last name that was double clicked is appended to the path.
Entered(c, a) ==
  IF a.ok THEN UpdateFileList(c, [ui[c] EXCEPT !.cur = Append(@, ui[c].enter)], a.list)
  ELSE UNCHANGED ui

\* ENTER_DIR_RESPOND
TakeEntered(c) == \E a \in Next1(c) :
  /\ a.kind = "entered" /\ Takes(c, a)
  /\ Entered(c, a)
  /\ UNCHANGED <<req, mixed, box>>

\* SHARE_FILE_RESPOND, MOVE_FILE_RESPOND and SHARE_FILE_NOTE open a box, in
\* which further PDUs are received.
TakeBox(c) == \E a \in Next1(c) :
  /\ a.kind \in {"told", "note"} /\ Takes(c, a)
  /\ box' = [box EXCEPT ![c] = <<a>> \o @]
  /\ UNCHANGED <<ui, req, mixed>>

Closes(c, kind) ==
  /\ Defined
  /\ box[c] # <<>> /\ Head(box[c]).kind = kind
  /\ box' = [box EXCEPT ![c] = Tail(@)]
  /\ UNCHANGED <<fs, ans, clicks, undef, deleted, hasty, cut, stale, wrong>>

\* Mutant of CloseTold: the list is left as it is.
CloseToldOnly(c) == Closes(c, "told") /\ UNCHANGED <<ui, req, mixed>>

\* The box of an answer is closed, and the list asked for.
CloseTold(c) == Closes(c, "told") /\ FlushFile(c, ui[c])

\* The question of a share: the note goes back as agreed or refused.
AnswerNote(c) == \E kind \in {"agree", "refuse"} :
  /\ Closes(c, "note")
  /\ Sends(c, [Head(box[c]) EXCEPT !.kind = kind])
  /\ UNCHANGED ui

-----------------------------------------------------------------------------
(* The server: one request of one socket at a time.                        *)

NextOf(c, kind) ==
  IF Defined /\ req[c] # <<>> /\ Head(req[c]).kind = kind THEN {Head(req[c])} ELSE {}

\* The request of c is served; answers are appended for whom they are.
Answers(c, tell) ==
  /\ req' = [req EXCEPT ![c] = Tail(@)]
  /\ ans' = [u \in Users |-> IF u \in DOMAIN tell THEN Append(ans[u], tell[u]) ELSE ans[u]]
  /\ UNCHANGED <<panels, clicks, hasty, mixed, cut, stale>>

To(c, a) == [u \in {c} |-> a]
Changed(ok) == [kind |-> "changed", ok |-> ok]
Told == [kind |-> "told"]

\* A request that means the file meant and finds another one.
Meets(c, r, who) ==
  wrong' = IF At(r.path) \notin {NoPath, r.meant} THEN wrong \cup {who} ELSE wrong

\* The size of the list is its length minus two, for "." and "..", and a
\* directory that is not there has none: the answer's memory has 4 bytes.
ServeList(c) == \E r \in NextOf(c, "list") :
  /\ IF IsDir(r.path)
     THEN Answers(c, To(c, [kind |-> "list", list |-> Listing(r.path)])) /\ UNCHANGED undef
     ELSE Answers(c, <<>>) /\ undef' = "missing"
  /\ UNCHANGED <<fs, deleted, wrong>>

\* For a path that is neither a directory nor a file there is no answer, and
\* the null pointer is written from.
ServeEnter(c) == \E r \in NextOf(c, "enter") :
  /\ CASE IsDir(r.path) ->
            Answers(c, To(c, [kind |-> "entered", ok |-> TRUE, list |-> Listing(r.path)]))
       [] IsFile(r.path) -> Answers(c, To(c, [kind |-> "entered", ok |-> FALSE]))
       [] OTHER -> Answers(c, <<>>)
  /\ undef' = IF r.path \in DOMAIN fs THEN "no" ELSE "missing"
  /\ UNCHANGED <<fs, deleted, wrong>>

ServeCreate(c) == \E r \in NextOf(c, "create") :
  /\ LET new == Append(r.path, r.name)
     IN fs' = IF IsDir(r.path) /\ new \notin DOMAIN fs
              THEN [q \in DOMAIN fs \cup {new} |-> IF q = new THEN Dir ELSE fs[q]]
              ELSE fs
  /\ Answers(c, To(c, Changed(TRUE)))
  /\ UNCHANGED <<undef, deleted, wrong>>

\* removeRecursively, or remove.
ServeDelete(c) == \E r \in NextOf(c, "delete") :
  /\ fs' = [q \in DOMAIN fs \ Below(r.path) |-> fs[q]]
  /\ deleted' = deleted \cup Contents(Below(r.path))
  /\ Meets(c, r, c)
  /\ Answers(c, To(c, Changed(r.path \in DOMAIN fs)))
  /\ UNCHANGED undef

\* QDir::rename: not over something else.
ServeRename(c) == \E r \in NextOf(c, "rename") :
  /\ LET ok == r.path \in DOMAIN fs /\ r.to \notin DOMAIN fs
     IN /\ fs' = IF ok THEN Moved(r.path, r.to) ELSE fs
        /\ Answers(c, To(c, Changed(ok)))
  /\ Meets(c, r, c)
  /\ UNCHANGED <<undef, deleted>>

\* Mutant of MoveTo: copied under its own name, which may be taken, and removed.
MoveByCopy(old, dir, name) ==
  LET new == Append(dir, name)
  IN IF old \in DOMAIN fs /\ new \notin DOMAIN fs THEN Moved(old, new)
     ELSE [q \in DOMAIN fs \ {old} |-> fs[q]]

\* QFile::rename, if there is a file and a directory to put it.
MoveTo(old, dir, name) ==
  IF IsFile(old) /\ IsDir(dir) THEN Moved(old, Append(dir, Unique(dir, name))) ELSE fs

\* MOVE_FILE_REQUEST: success is reported in any case.
ServeMove(c) == \E r \in NextOf(c, "move") :
  /\ fs' = MoveTo(r.path, r.to, r.name)
  /\ Meets(c, r, c)
  /\ Answers(c, To(c, Told))
  /\ UNCHANGED <<undef, deleted>>

\* SHARE_FILE_REQUEST: a note to the friend, with the path.
ServeShare(c) == \E r \in NextOf(c, "share") :
  /\ Answers(c, To(r.to, [kind |-> "note", from |-> r.from, path |-> r.path, meant |-> r.meant]))
  /\ UNCHANGED <<fs, undef, deleted, wrong>>

\* SHARE_FILE_NOTE_AGGREE: what is at the path now is copied into the root of
\* the one who agreed; both are told of a success in any case.
ServeAgree(c) == \E r \in NextOf(c, "agree") :
  /\ LET new == <<c, Unique(<<c>>, Last(r.path))>>
     IN fs' = IF IsFile(r.path)
              THEN [q \in DOMAIN fs \cup {new} |-> IF q = new THEN fs[r.path] ELSE fs[q]]
              ELSE fs
  /\ Meets(c, r, r.from)
  /\ Answers(c, [u \in {c, r.from} |-> Told])
  /\ UNCHANGED <<undef, deleted>>

\* SHARE_FILE_NOTE_REFUSE: the other one is told; there is no break, and
\* MOVE_FILE_REQUEST follows, with lengths that sscanf does not find in this
\* PDU.  The memory read by them may be there; no file is at the path then
\* moved, and success is reported.
ServeRefuse(c) == \E r \in NextOf(c, "refuse") :
  /\ Answers(c, [u \in {c, r.from} |-> Told])
  /\ undef' \in {"no", "unset"}
  /\ UNCHANGED <<fs, deleted, wrong>>

-----------------------------------------------------------------------------
User(c) ==
  \/ ClickItem(c) \/ ClickFlush(c) \/ ClickCreate(c) \/ ClickDelete(c) \/ ClickRename(c)
  \/ DoubleClick(c) \/ ClickReturn(c) \/ PickMove(c) \/ ConfirmMove(c)
  \/ PickShare(c) \/ ConfirmShare(c) \/ CloseTold(c) \/ AnswerNote(c)

Receive(c) == TakeChanged(c) \/ TakeList(c) \/ TakeEntered(c) \/ TakeBox(c)

Serve(c) ==
  \/ ServeList(c) \/ ServeEnter(c) \/ ServeCreate(c) \/ ServeDelete(c) \/ ServeRename(c)
  \/ ServeMove(c) \/ ServeShare(c) \/ ServeAgree(c) \/ ServeRefuse(c)

Next == \E c \in Users : User(c) \/ Receive(c) \/ Serve(c)

Spec == Init /\ [][Next]_vars

-----------------------------------------------------------------------------
(* Properties.                                                             *)

TypeOK ==
  /\ \A p \in DOMAIN fs : Len(p) > 1 => IsDir(Front(p))
  /\ \A c \in Users : ui[c].item = NoName \/ ui[c].item \in DOMAIN ui[c].shown
  /\ undef \in {"no", "missing", "unset"}
  /\ hasty \cup mixed \cup cut \cup stale \cup wrong \subseteq Users

\* When nothing is under way the list a client shows is that of the directory
\* it works in, although the path and the list are updated by different
\* answers; unless a list was asked for while a directory was being entered.
\* (The other user's share, answered then, is enough for that.)
ViewIsCurrent ==
  TypeOK /\ \A c \in Users \ mixed :
    Defined /\ Quiet(c) /\ box[c] = <<>> => ui[c].shown = Listing(ui[c].cur)

\* Nobody asks for the list of, or enters, a directory that is not there, or
\* shares an item that is no longer in the list, all of which the code has no
\* answer to; unless someone clicked before an answer due to him, or pressed
\* Return in his root, where a double click on a file enables it, or a list was
\* asked for while a directory was being entered.
NothingMissingIsUsed == undef = "missing" => hasty \cup cut \cup mixed # {}

\* What is deleted, renamed, moved or given to a friend is what the user saw
\* when he chose it; unless he clicked before an answer due to him, changed
\* what he had picked to move, moved away from what he had picked to share, or
\* a list was asked for while he was entering a directory.
ActsOnWhatIsShown == wrong \subseteq hasty \cup stale \cup mixed

\* No file is lost but by a deletion: moves, renames and copies never put one
\* in the place of another, or take it away without putting it anywhere.
FilesKept ==
  \A u \in Users :
    LET tree == {p \in DOMAIN InitialFs : p[1] = u /\ InitialFs[p] # Dir}
    IN {InitialFs[p] : p \in tree} \subseteq deleted \cup Contents(Below(<<u>>))
=============================================================================
