------------------------------- MODULE Bubble -------------------------------
(***************************************************************************)
(* The todo list of src/bubble: main.go's handlers over one database table *)
(* and the page that shows the table.  A page sends a call per click and   *)
(* changes its own table when the answer comes, without asking again after *)
(* an edit or a removal.  gin runs every call in a goroutine of its own;   *)
(* the PUT handlers all assign the err of main.                            *)
(*                                                                         *)
(* The database itself never fails.  A statement and the assignment of the *)
(* error it returns are one step.                                          *)
(***************************************************************************)
EXTENDS Naturals, Sequences, SequencesExt, FiniteSetsExt

CONSTANTS Pages,      \* the open pages
          FirstRows,  \* the rows 1..FirstRows are there at the start
          MaxClicks,  \* bound: clicks of all pages
          MaxLost     \* bound: calls or answers the network loses

VARIABLES db,         \* status of the rows in the table, by id
          nextId,     \* AUTO_INCREMENT
          err,        \* the captured err of main is not nil
          calls,      \* calls on their way, being served, or answered
          rows,       \* the row objects a page was ever given, as they are now
          table,      \* tableData: the objects shown, as indices into rows
          clicks, lost,
          added,      \* history: ids a POST was given
          gone,       \* history: ids a DELETE removed
          mayReturn,  \* history: ids removed while a PUT was writing them
          masked,     \* history: a PUT that found no row overlapped another PUT
          blame       \* history: the page was told of too little, see below

vars == <<db, nextId, err, calls, rows, table, clicks, lost,
          added, gone, mayReturn, masked, blame>>
history == <<added, gone, mayReturn, masked>>
screen == <<rows, table>>
bounds == <<clicks, lost>>

Blank == [id |-> 0, status |-> FALSE]   \* var todo Todo
\* The rows in the order of their ids.
Place(id) == Cardinality({j \in DOMAIN db : j <= id})
Nth(i) == CHOOSE id \in DOMAIN db : Place(id) = i
Listing == [i \in 1..Cardinality(DOMAIN db) |-> [id |-> Nth(i), status |-> db[Nth(i)]]]
\* The table with a row inserted.
With(id, status) == [i \in DOMAIN db \cup {id} |-> IF i = id THEN status ELSE db[i]]
Shown(p) == [i \in 1..Len(table[p]) |-> rows[p][table[p][i]]]

(***************************************************************************)
(* Calls.  at: the index clicked; row: the row object clicked (t in the    *)
(* page); pc: where its handler is; todo, list: what the handler holds;    *)
(* fresh: a list the table has not changed since.                          *)
(***************************************************************************)
Of(p) == {c \in calls : c.by = p}

NewCall(p, verb) ==
  [no |-> Min(1..(Cardinality(Of(p)) + 1) \ {c.no : c \in Of(p)}),
   by |-> p, verb |-> verb, at |-> 0, row |-> 0, id |-> 0, want |-> FALSE,
   pc |-> "arrived", todo |-> Blank, list |-> <<>>, fresh |-> FALSE]

Become(c, d) == calls' = (calls \ {c}) \cup {d}
At(c, pc) == Become(c, [c EXCEPT !.pc = pc])

\* axios resolves what has a status of 2xx, whatever it says; everything else
\* is rejected, and no caller catches that.
ValidStatus(status) == 200 <= status /\ status < 300
Settle(c, status, pc) == IF ValidStatus(status) THEN At(c, pc) ELSE calls' = calls \ {c}

\* PUTs between their first use of err and their last, and those of them that
\* may still write the row they found.
Editing == {c \in calls : c.verb = "edit" /\ c.pc \notin {"arrived", "ok", "error"}}
Writing == {c \in Editing : c.pc \notin {"refuse", "saved"}}

Outdated(cs) == {[c EXCEPT !.fresh = FALSE] : c \in cs}

\* c writes the table: the other pages are not told.
Write(c, d, newDb) ==
  /\ db' = newDb
  /\ calls' = Outdated(calls \ {c}) \cup {d}
  /\ blame' = [p \in Pages |-> blame[p] \/ p # c.by]

\* c assigns an error to err while others use it.
Fail(c, d) ==
  /\ err' = TRUE
  /\ Become(c, d)
  /\ blame' = [p \in Pages |-> blame[p] \/ \E e \in Editing \cup {c} : e.by = p]

(***************************************************************************)
(* The page.                                                               *)
(***************************************************************************)
\* Two calls of one page whose answers it can take in either order.
Apart(c, d) == \/ c.verb = "edit" /\ d.verb = "edit" /\ c.id # d.id
               \/ c.verb = "edit" /\ d.verb = "delete" /\ c.at < d.at
               \/ c.verb = "delete" /\ d.verb = "edit" /\ d.at < c.at

Send(c) ==
  /\ calls' = calls \cup {c}
  /\ blame' = [blame EXCEPT ![c.by] = @ \/ \E d \in Of(c.by) : ~Apart(c, d)]
  /\ UNCHANGED <<db, nextId, err, history>>

\* handleAdd, with a title in the field
ClickAdd(p) ==
  /\ clicks < MaxClicks
  /\ clicks' = clicks + 1
  /\ Send(NewCall(p, "add"))
  /\ UNCHANGED <<screen, lost>>

\* handleEdit(index, row)
ClickEdit(p) ==
  /\ clicks < MaxClicks
  /\ clicks' = clicks + 1
  /\ \E i \in 1..Len(table[p]) :
       Send([NewCall(p, "edit") EXCEPT !.at = i, !.row = table[p][i],
               !.id = Shown(p)[i].id, !.want = ~Shown(p)[i].status])
  /\ UNCHANGED <<screen, lost>>

\* handleDelete(index, id)
ClickDelete(p) ==
  /\ clicks < MaxClicks
  /\ clicks' = clicks + 1
  /\ \E i \in 1..Len(table[p]) :
       Send([NewCall(p, "delete") EXCEPT !.at = i, !.id = Shown(p)[i].id])
  /\ UNCHANGED <<screen, lost>>

\* tableData = t.data: new row objects; the old ones live on in the calls that
\* hold them.
ListAnswered(c) ==
  /\ c.verb = "list" /\ c.pc = "ok"
  /\ LET kept == IF Of(c.by) = {c} THEN <<>> ELSE rows[c.by]
         n == Len(kept)
     IN  /\ rows' = [rows EXCEPT ![c.by] = kept \o c.list]
         /\ table' = [table EXCEPT ![c.by] = [i \in 1..Len(c.list) |-> n + i]]
  /\ calls' = calls \ {c}
  /\ blame' = [blame EXCEPT ![c.by] = ~(c.fresh /\ Of(c.by) = {c}) /\ (@ \/ ~c.fresh)]
  /\ UNCHANGED <<db, nextId, err, bounds, history>>

\* Mutant of AddAnswered: the list is not asked for again.
AddAnsweredOnly(c) ==
  /\ c.verb = "add" /\ c.pc = "ok"
  /\ calls' = calls \ {c}
  /\ UNCHANGED <<db, nextId, err, screen, bounds, history, blame>>

\* getTodoList: the table is asked for again
AddAnswered(c) ==
  /\ c.verb = "add" /\ c.pc = "ok"
  /\ Become(c, [NewCall(c.by, "list") EXCEPT !.no = c.no])
  /\ UNCHANGED <<db, nextId, err, screen, bounds, history, blame>>

\* tableData[index].status = !row.status, whatever the answer says; there may
\* be no such index any more, and then nothing happens.
EditAnswered(c) ==
  /\ c.verb = "edit" /\ c.pc \in {"ok", "error"}
  /\ rows' = IF c.at \in DOMAIN table[c.by]
             THEN [rows EXCEPT ![c.by][table[c.by][c.at]].status = ~rows[c.by][c.row].status]
             ELSE rows
  /\ calls' = calls \ {c}
  /\ UNCHANGED <<db, nextId, err, table, bounds, history, blame>>

\* splice(at, 1) of a list that may have become shorter
Splice(list, at) == IF at \in DOMAIN list THEN RemoveAt(list, at) ELSE list

DeleteAnswered(c) ==
  /\ c.verb = "delete" /\ c.pc = "ok"
  /\ table' = [table EXCEPT ![c.by] = Splice(@, c.at)]
  /\ calls' = calls \ {c}
  /\ UNCHANGED <<db, nextId, err, rows, bounds, history, blame>>

(***************************************************************************)
(* The handlers.                                                           *)
(***************************************************************************)
\* DB.Create(&todo)
Post(c) ==
  /\ c.verb = "add" /\ c.pc = "arrived"
  /\ Write(c, [c EXCEPT !.pc = "ok"], With(nextId, FALSE))
  /\ nextId' = nextId + 1
  /\ added' = added \cup {nextId}
  /\ UNCHANGED <<err, screen, bounds, gone, mayReturn, masked>>

\* DB.Find(&todolist)
Get(c) ==
  /\ c.verb = "list" /\ c.pc = "arrived"
  /\ Become(c, [c EXCEPT !.pc = "ok", !.list = Listing, !.fresh = TRUE])
  /\ UNCHANGED <<db, nextId, err, screen, bounds, history, blame>>

\* Where("id=?").Delete: no error when there is no such row
Delete(c) ==
  /\ c.verb = "delete" /\ c.pc = "arrived"
  /\ IF c.id \in DOMAIN db
     THEN /\ Write(c, [c EXCEPT !.pc = "ok"], Restrict(db, DOMAIN db \ {c.id}))
          /\ gone' = gone \cup {c.id}
          /\ mayReturn' = IF \E e \in Writing : e.todo.id = c.id
                          THEN mayReturn \cup {c.id} ELSE mayReturn \ {c.id}
     ELSE At(c, "ok") /\ UNCHANGED <<db, gone, mayReturn, blame>>
  /\ UNCHANGED <<nextId, err, screen, bounds, added, masked>>

Put(c, pc) == c.verb = "edit" /\ c.pc = pc

\* err = DB.Where("id=?", id).First(&todo).Error
PutFirst(c) ==
  /\ Put(c, "arrived")
  /\ LET here == c.id \in DOMAIN db
         d == [c EXCEPT !.pc = "first",
                        !.todo = IF here THEN [id |-> c.id, status |-> db[c.id]] ELSE Blank]
     IN  /\ IF here THEN err' = FALSE /\ Become(c, d) /\ UNCHANGED blame ELSE Fail(c, d)
         /\ masked' = \/ masked
                      \/ /\ Editing # {}
                         /\ \E e \in Editing \cup {d} : e.todo.id = 0
  /\ UNCHANGED <<db, nextId, screen, bounds, added, gone, mayReturn>>

\* Mutant of PutFirstTest: the return after the error is answered is forgotten.
PutFirstNoReturn(c) ==
  /\ Put(c, "first")
  /\ At(c, "bind")
  /\ UNCHANGED <<db, nextId, err, screen, bounds, history, blame>>

\* if err != nil: err may be another PUT's by now
PutFirstTest(c) ==
  /\ Put(c, "first")
  /\ At(c, IF err THEN "refuse" ELSE "bind")
  /\ UNCHANGED <<db, nextId, err, screen, bounds, history, blame>>

\* The error is an answer of status 200; but err.Error() panics if err is nil by
\* now, which gin answers with 500.
PutRefuse(c) ==
  /\ Put(c, "refuse")
  /\ Settle(c, IF err THEN 200 ELSE 500, "error")
  /\ UNCHANGED <<db, nextId, err, screen, bounds, history, blame>>

\* err = c.BindJSON(&todo): what the page sends always parses
PutBind(c) ==
  /\ Put(c, "bind")
  /\ err' = FALSE
  /\ Become(c, [c EXCEPT !.pc = "bound", !.todo.status = c.want])
  /\ UNCHANGED <<db, nextId, screen, bounds, history, blame>>

PutBindTest(c) ==
  /\ Put(c, "bound")
  /\ At(c, IF err THEN "error" ELSE "save")
  /\ UNCHANGED <<db, nextId, err, screen, bounds, history, blame>>

(***************************************************************************)
(* DB.Save(&todo) is gorm's: INSERT if the id is 0, else UPDATE and, if no *)
(* row was changed, FirstOrCreate: find the row by its id or INSERT it.    *)
(***************************************************************************)
Save(c) ==
  /\ Put(c, "save")
  /\ LET id == c.todo.id
     IN  CASE id = 0 ->
                /\ Write(c, [c EXCEPT !.pc = "saved"], With(nextId, c.todo.status))
                /\ nextId' = nextId + 1
                /\ err' = FALSE
           [] id \in DOMAIN db /\ db[id] # c.todo.status ->
                /\ Write(c, [c EXCEPT !.pc = "saved"], [db EXCEPT ![id] = c.todo.status])
                /\ err' = FALSE
                /\ UNCHANGED nextId
           [] OTHER -> At(c, "find") /\ UNCHANGED <<db, nextId, err, blame>>
  /\ UNCHANGED <<screen, bounds, history>>

SaveFind(c) ==
  /\ Put(c, "find")
  /\ IF c.todo.id \in DOMAIN db
     THEN err' = FALSE /\ At(c, "saved")
     ELSE At(c, "insert") /\ UNCHANGED err
  /\ UNCHANGED <<db, nextId, screen, bounds, history, blame>>

\* The id may be taken again by now: a duplicate key is an error.
SaveInsert(c) ==
  /\ Put(c, "insert")
  /\ IF c.todo.id \in DOMAIN db
     THEN Fail(c, [c EXCEPT !.pc = "saved"]) /\ UNCHANGED db
     ELSE /\ Write(c, [c EXCEPT !.pc = "saved"], With(c.todo.id, c.todo.status))
          /\ err' = FALSE
  /\ UNCHANGED <<nextId, screen, bounds, history>>

PutSaveTest(c) ==
  /\ Put(c, "saved")
  /\ At(c, IF err THEN "refuse" ELSE "ok")
  /\ UNCHANGED <<db, nextId, err, screen, bounds, history, blame>>

\* The call never arrives or its answer does not: axios rejects, nothing catches.
Lose(c) ==
  /\ lost < MaxLost /\ c.pc \in {"arrived", "ok", "error"}
  /\ lost' = lost + 1
  /\ calls' = calls \ {c}
  /\ blame' = [blame EXCEPT ![c.by] = TRUE]
  /\ UNCHANGED <<db, nextId, err, screen, clicks, history>>

\* Every page was just opened (mounted): its first list is on the way back.
Init ==
  /\ db = [i \in 1..FirstRows |-> FALSE]
  /\ nextId = FirstRows + 1
  /\ err = FALSE
  /\ calls = {[no |-> 1, by |-> p, verb |-> "list", at |-> 0, row |-> 0, id |-> 0,
               want |-> FALSE, pc |-> "ok", todo |-> Blank,
               list |-> [i \in 1..FirstRows |-> [id |-> i, status |-> FALSE]],
               fresh |-> TRUE] : p \in Pages}
  /\ rows = [p \in Pages |-> <<>>]
  /\ table = [p \in Pages |-> <<>>]
  /\ clicks = 0 /\ lost = 0
  /\ added = 1..FirstRows /\ gone = {} /\ mayReturn = {} /\ masked = FALSE
  /\ blame = [p \in Pages |-> TRUE]

Click(p) == ClickAdd(p) \/ ClickEdit(p) \/ ClickDelete(p)
Answered(c) == ListAnswered(c) \/ AddAnswered(c) \/ EditAnswered(c) \/ DeleteAnswered(c)
Serve(c) == \/ Post(c) \/ Get(c) \/ Delete(c)
            \/ PutFirst(c) \/ PutFirstTest(c) \/ PutRefuse(c) \/ PutBind(c)
            \/ PutBindTest(c) \/ Save(c) \/ SaveFind(c) \/ SaveInsert(c) \/ PutSaveTest(c)

Next == \/ \E p \in Pages : Click(p)
        \/ \E c \in calls : Serve(c) \/ Answered(c) \/ Lose(c)

Spec == Init /\ [][Next]_vars

\* A row of the table was added by somebody and not removed since.  Rows that
\* come back are those a PUT was writing when they were removed; rows nobody
\* added appear only when a PUT that found no row overlapped another PUT, which
\* hid its error (main.go's PUT: First, the test of err, Save).
RowsAreAdded ==
  \A i \in DOMAIN db : /\ i \in gone => i \in mayReturn
                       /\ i \in added \/ masked

\* When all calls of a page were answered its list is the table, row for row,
\* unless since its last current list another page wrote the table, a call was
\* lost, a PUT of it shared err with one that failed, or its user clicked while
\* an answer was out that must come first (the page's handlers edit, splice or
\* replace tableData by the index they were clicked at).
PageIsCurrent ==
  \A p \in Pages : Of(p) = {} /\ ~blame[p] => Shown(p) = Listing
=============================================================================
