-------------------------- MODULE IdempotencyProofs --------------------------
(***************************************************************************)
(* The four properties of Idempotency, for any requests, keys, bodies and  *)
(* limits, through any number of failed statements, prunes, shutdowns and  *)
(* crashes.  They hold together, by one inductive invariant: a claim keeps *)
(* the row for its request (Claims, Alone), so that what a request did is  *)
(* owed by nobody else; the answer that is pending in memory (Kept) or     *)
(* recorded (Owes, Truthful) is then the one the agent owes.               *)
(***************************************************************************)
EXTENDS Idempotency, TLAPS

Rows == [state : {"absent"}, fp : {None}, answer : {None}]
          \cup [state : {"in_flight"}, fp : Prints, answer : {None}]
          \cup [state : {"done"}, fp : Prints, answer : Answers]
Places == {"idle", "insert", "read", "handle", "record", "release", "prune"}

(* Types, and what a request keeps where it is. *)
Typed ==
  /\ row \in [Keys -> Rows] /\ mine \subseteq Keys
  /\ pending \in [Keys -> Answers \cup {None}] /\ landed \subseteq Keys
  /\ owed \in [Keys -> Answers \cup {None}]
  /\ pc \in [Reqs -> Places] /\ key \in [Reqs -> Keys \cup {None}]
  /\ fp \in [Reqs -> Prints \cup {None}] /\ answer \in [Reqs -> Answers \cup {None}]
  /\ tries \in [Reqs -> 0..3] /\ replayed \in [Reqs -> Answers \cup {None}]
  /\ up \in BOOLEAN
At(r) == IF pc[r] = "idle" THEN key[r] = None
         ELSE key[r] \in Keys /\ fp[r] \in Prints /\ replayed[r] = None
Answered(r) == pc[r] = "record" => answer[r] \in Answers /\ answer[r].fp = fp[r]
Placed == \A r \in Reqs : At(r) /\ Answered(r)

(* While the process is down nothing is in memory. *)
Down == ~up => /\ \A r \in Reqs : pc[r] = "idle"
               /\ \A k \in Keys : pending[k] = None
               /\ landed = {}

(* A request with a claim has the row, and has it alone. *)
Holds(r) == pc[r] \in {"handle", "record", "release"}
Due(r) == IF pc[r] = "record" /\ answer[r].acted THEN answer[r] ELSE None
Claim(r) == /\ row[key[r]] = Claimed(fp[r]) /\ key[r] \in mine
            /\ pending[key[r]] = None
            /\ owed[key[r]] = Due(r)
Claims == \A r \in Reqs : Holds(r) => Claim(r)
Alone == \A r, q \in Reqs : Holds(r) /\ Holds(q) /\ key[r] = key[q] => r = q

(* A pending answer is owed, and until its writer is through its key is    *)
(* either claimed for it or nobody's. *)
Unclaimed(k) == \A r \in Reqs : key[r] # k
Kept(k) == pending[k] # None =>
             /\ owed[k] = pending[k]
             /\ IF k \in landed THEN row[k] = Done(pending[k])
                ELSE \/ row[k] = Claimed(pending[k].fp) /\ k \in mine
                     \/ row[k] = NoRow /\ Unclaimed(k)
Landed(k) == k \in landed => pending[k] # None

(* What is owed and not pending is recorded or still claimed. *)
Owes(k) == owed[k] # None /\ pending[k] = None =>
             row[k] = Done(owed[k]) \/ row[k] = Claimed(owed[k].fp)

(* A recorded answer is of its body, and one that acted is owed. *)
Truthful(k) == row[k].state = "done" =>
                 /\ row[k] = Done(row[k].answer)
                 /\ row[k].answer.acted => owed[k] = row[k].answer

Books == \A k \in Keys : Kept(k) /\ Landed(k) /\ Owes(k) /\ Truthful(k)
IInv == Typed /\ Placed /\ Down /\ Claims /\ Alone /\ Books

-----------------------------------------------------------------------------
(* The three kinds of row differ, and a row that exists is one of them.    *)
LEMMA RowKinds ==
  ASSUME NEW f \in Prints, NEW a \in Answers
  PROVE  /\ NoRow # Claimed(f) /\ NoRow # Done(a) /\ Claimed(f) # Done(a)
         /\ NoRow.state = "absent" /\ Claimed(f).state = "in_flight" /\ Done(a).state = "done"
         /\ Done(a).answer = a /\ Done(a).fp = a.fp /\ Claimed(f).fp = f
         /\ a.fp \in Prints /\ a.acted \in BOOLEAN
         /\ NoRow \in Rows /\ Claimed(f) \in Rows /\ Done(a) \in Rows
         /\ \A b \in Answers : Done(a) = Done(b) => a = b
         /\ \A g \in Prints : Claimed(f) = Claimed(g) => f = g
  BY DEF NoRow, Claimed, Done, Rows, Answers

(* A row that is in the table is a claim or a recorded answer.             *)
LEMMA RowCases ==
  ASSUME NEW e \in Rows
  PROVE  \/ e = NoRow /\ e.state = "absent"
         \/ e.state = "in_flight" /\ e.fp \in Prints /\ e = Claimed(e.fp)
         \/ e.state = "done" /\ e.answer \in Answers
  BY DEF NoRow, Claimed, Rows

(* A recorded answer makes a row.                                          *)
LEMMA DoneIsRow == \A a \in Answers : Done(a) \in Rows
  BY DEF Done, Rows, Answers

(* No answer is the value for no answer.                                   *)
LEMMA NoAnswer == None \notin Answers /\ None \notin Keys /\ None \notin Prints
  BY NoneAssumption DEF Answers

(* Initially nothing is claimed, recorded, pending or owed.                *)
LEMMA InitIInv == Init => IInv
<1> SUFFICES ASSUME Init PROVE IInv
  OBVIOUS
<1>1. Typed
  <2>1. row \in [Keys -> Rows] /\ mine \subseteq Keys /\ landed \subseteq Keys /\ up \in BOOLEAN
    BY DEF Init, Rows, NoRow
  <2>2. /\ pending \in [Keys -> Answers \cup {None}] /\ owed \in [Keys -> Answers \cup {None}]
        /\ pc \in [Reqs -> Places] /\ key \in [Reqs -> Keys \cup {None}]
        /\ fp \in [Reqs -> Prints \cup {None}] /\ answer \in [Reqs -> Answers \cup {None}]
        /\ replayed \in [Reqs -> Answers \cup {None}]
    BY DEF Init, Places
  <2>3. tries \in [Reqs -> 0..3]
    BY DEF Init
  <2> QED
    BY <2>1, <2>2, <2>3 DEF Typed
<1>2. Placed /\ Down /\ Claims /\ Alone
  BY DEF Init, Placed, At, Answered, Down, Claims, Alone, Holds
<1>3. Books
  BY DEF Init, Books, Kept, Landed, Owes, Truthful, NoRow
<1> QED
  BY <1>1, <1>2, <1>3 DEF IInv

-----------------------------------------------------------------------------
(* Steps of one request.                                                   *)
Same(s) == /\ pc'[s] = pc[s] /\ key'[s] = key[s] /\ fp'[s] = fp[s] /\ answer'[s] = answer[s]
           /\ replayed'[s] = replayed[s]
Gone(s) == pc'[s] = "idle" /\ key'[s] = None

(* A request that leaves is gone, and the others stay.                     *)
LEMMA LeaveEffect ==
  ASSUME Typed, Placed, NEW r \in Reqs, NEW rep \in Answers \cup {None}, Leave(r, rep)
  PROVE  /\ Gone(r) /\ \A s \in Reqs \ {r} : Same(s)
         /\ pc' \in [Reqs -> Places] /\ key' \in [Reqs -> Keys \cup {None}]
         /\ fp' \in [Reqs -> Prints \cup {None}] /\ answer' \in [Reqs -> Answers \cup {None}]
         /\ tries' \in [Reqs -> 0..3] /\ replayed' \in [Reqs -> Answers \cup {None}]
         /\ Placed'
  BY DEF Leave, Typed, Placed, At, Answered, Places, Same, Gone

(* A request that goes on keeps what it has.                               *)
LEMMA GotoEffect ==
  ASSUME Typed, NEW r \in Reqs, NEW label \in Places, Goto(r, label)
  PROVE  /\ pc'[r] = label /\ UNCHANGED <<key, fp, tries, answer, replayed>>
         /\ \A s \in Reqs \ {r} : Same(s)
         /\ pc' \in [Reqs -> Places]
  BY DEF Goto, Typed, Places, Same

(* Requests that leave disturb nothing that the table and memory say.      *)
LEMMA GoneKeeps ==
  ASSUME IInv, UNCHANGED <<row, mine, pending, landed, owed>>,
         \A s \in Reqs : Same(s) \/ Gone(s)
  PROVE  Claims' /\ Alone' /\ Books'
<1>1. Claims'
  BY DEF IInv, Claims, Claim, Due, Holds, Same, Gone
<1>2. Alone'
  BY DEF IInv, Alone, Holds, Same, Gone
<1>3. ASSUME NEW k \in Keys PROVE (Kept(k) /\ Landed(k) /\ Owes(k) /\ Truthful(k))'
  <2>1. Unclaimed(k) => Unclaimed(k)'
    BY NoAnswer DEF Unclaimed, Same, Gone
  <2>2. Kept(k) /\ Landed(k) /\ Owes(k) /\ Truthful(k)
    BY DEF IInv, Books
  <2> QED
    BY <2>1, <2>2 DEF Kept, Landed, Owes, Truthful
<1> QED
  BY <1>1, <1>2, <1>3 DEF Books

(* A request that only leaves keeps the invariant.                         *)
LEMMA LeaveKeeps ==
  ASSUME IInv, NEW r \in Reqs, NEW rep \in Answers \cup {None}, Leave(r, rep),
         UNCHANGED <<table, memory, up, owed>>
  PROVE  IInv'
<1>1. Typed' /\ Placed'
  BY LeaveEffect DEF IInv, Typed, table, memory
<1>2. Down'
  BY LeaveEffect DEF IInv, Down, Same, Gone, memory
<1>3. Claims' /\ Alone' /\ Books'
  BY LeaveEffect, GoneKeeps DEF IInv, table, memory
<1> QED
  BY <1>1, <1>2, <1>3 DEF IInv

(* Arriving, a request is replayed a pending answer or goes for its claim. *)
LEMMA ArriveKeeps ==
  ASSUME IInv, NEW r \in Reqs, NEW k \in Keys, NEW f \in Prints, Arrive(r, k, f)
  PROVE  IInv'
<1>1. CASE pending[k] # None
  <2>1. PICK rep \in Answers \cup {None} : Leave(r, rep)
    BY <1>1 DEF Arrive, IInv, Typed
  <2> QED
    BY <2>1, LeaveKeeps DEF Arrive
<1>2. CASE pending[k] = None
  <2>1. /\ up /\ pc[r] = "idle" /\ pc'[r] = "insert" /\ key'[r] = k /\ fp'[r] = f
        /\ replayed'[r] = None
        /\ \A s \in Reqs \ {r} : Same(s)
        /\ UNCHANGED <<row, mine, pending, landed, owed, up, answer>>
    BY <1>2 DEF Arrive, IInv, Typed, table, memory, Same
  <2>2. Typed'
    BY <1>2 DEF Arrive, IInv, Typed, table, memory, Places
  <2>3. Placed' /\ Down'
    BY <2>1 DEF IInv, Placed, At, Answered, Down, Same
  <2>4. Claims' /\ Alone'
    BY <2>1 DEF IInv, Claims, Claim, Due, Alone, Holds, Same
  <2>5. ASSUME NEW j \in Keys PROVE (Kept(j) /\ Landed(j) /\ Owes(j) /\ Truthful(j))'
    <3>1. j # k /\ Unclaimed(j) => Unclaimed(j)'
      BY <2>1 DEF Unclaimed, Same
    <3>2. Kept(j) /\ Landed(j) /\ Owes(j) /\ Truthful(j)
      BY DEF IInv, Books
    <3> QED
      BY <1>2, <2>1, <3>1, <3>2 DEF Kept, Landed, Owes, Truthful
  <2> QED
    BY <2>2, <2>3, <2>4, <2>5 DEF IInv, Books
<1> QED
  BY <1>1, <1>2

(* A claim is had where there is no row: then nothing is pending or owed.  *)
LEMMA InsertKeeps ==
  ASSUME IInv, NEW r \in Reqs, Insert(r)
  PROVE  IInv'
<1> DEFINE k == key[r]
<1>1. k \in Keys /\ fp[r] \in Prints /\ pc[r] = "insert"
  BY DEF Insert, IInv, Placed, At
<1>2. CASE row[k] = NoRow
  <2>1. Goto(r, "handle")
    BY <1>2 DEF Insert
  <2>2. /\ pc'[r] = "handle" /\ UNCHANGED <<key, fp, tries, answer, replayed>>
        /\ \A s \in Reqs \ {r} : Same(s)
        /\ pc' \in [Reqs -> Places]
    BY <2>1, GotoEffect DEF IInv, Places
  <2>3. /\ row' = [row EXCEPT ![k] = Claimed(fp[r])] /\ mine' = mine \cup {k}
        /\ UNCHANGED <<pending, landed, owed, up>>
    BY <1>2 DEF Insert, memory
  <2>4. pending[k] = None /\ owed[k] = None
    <3>1. Kept(k) /\ Owes(k)
      BY <1>1 DEF IInv, Books
    <3>2. pending[k] = None
      BY <1>1, <1>2, <3>1, RowKinds DEF Kept, Unclaimed, IInv, Typed
    <3> QED
      BY <1>1, <1>2, <3>1, <3>2, RowKinds DEF Owes, IInv, Typed
  <2>5. \A q \in Reqs : Holds(q) => key[q] # k
    <3> SUFFICES ASSUME NEW q \in Reqs, Holds(q), key[q] = k PROVE FALSE
      OBVIOUS
    <3>1. row[k] = Claimed(fp[q]) /\ fp[q] \in Prints
      BY DEF IInv, Claims, Claim, Placed, At, Holds
    <3> QED
      BY <1>2, <3>1 DEF NoRow, Claimed
  <2>6. row' \in [Keys -> Rows] /\ row'[k] = Claimed(fp[r]) /\ \A j \in Keys \ {k} : row'[j] = row[j]
    BY <1>1, <2>3 DEF IInv, Typed, Claimed, Rows
  <2>7. Typed'
    BY <1>1, <2>2, <2>3, <2>6 DEF IInv, Typed
  <2>8. Placed' /\ Down'
    BY <1>1, <2>2, <2>3 DEF IInv, Placed, At, Answered, Down, Same
  <2>9. Claims'
    <3> SUFFICES ASSUME NEW q \in Reqs, Holds(q)' PROVE Claim(q)'
      BY DEF Claims
    <3>1. CASE q = r
      BY <1>1, <2>2, <2>3, <2>4, <2>6, <3>1 DEF Claim, Due
    <3>2. CASE q # r
      <4>1. Holds(q) /\ Claim(q) /\ key[q] \in Keys \ {k}
        BY <2>2, <2>5, <3>2 DEF Holds, Same, IInv, Claims, Placed, At
      <4> QED
        BY <2>2, <2>3, <2>6, <3>2, <4>1 DEF Claim, Due, Same
    <3> QED
      BY <3>1, <3>2
  <2>10. Alone'
    BY <2>2, <2>5 DEF IInv, Alone, Holds, Same
  <2>11. ASSUME NEW j \in Keys PROVE (Kept(j) /\ Landed(j) /\ Owes(j) /\ Truthful(j))'
    <3>1. Kept(j) /\ Landed(j) /\ Owes(j) /\ Truthful(j)
      BY DEF IInv, Books
    <3>2. CASE j = k
      BY <1>1, <2>3, <2>4, <2>6, <3>1, <3>2, RowKinds DEF Kept, Landed, Owes, Truthful, Claimed
    <3>3. CASE j # k
      BY <2>2, <2>3, <2>6, <3>1, <3>3 DEF Kept, Landed, Owes, Truthful, Unclaimed
    <3> QED
      BY <3>2, <3>3
  <2> QED
    BY <2>7, <2>8, <2>9, <2>10, <2>11 DEF IInv, Books
<1>3. CASE row[k] # NoRow
  <2>1. Goto(r, "read") /\ UNCHANGED <<table, memory, up, owed>>
    BY <1>3 DEF Insert
  <2>2. /\ pc'[r] = "read" /\ UNCHANGED <<key, fp, tries, answer, replayed>>
        /\ \A s \in Reqs \ {r} : Same(s)
        /\ pc' \in [Reqs -> Places]
    BY <2>1, GotoEffect DEF IInv, Places
  <2>3. Typed' /\ Placed' /\ Down'
    BY <1>1, <2>1, <2>2 DEF IInv, Typed, Placed, At, Answered, Down, Same, table, memory
  <2>4. Claims' /\ Alone'
    BY <1>1, <2>1, <2>2 DEF IInv, Claims, Claim, Due, Alone, Holds, Same, table, memory
  <2>5. Books'
    BY <2>1, <2>2 DEF IInv, Books, Kept, Landed, Owes, Truthful, Unclaimed, table, memory
  <2> QED
    BY <2>3, <2>4, <2>5 DEF IInv
<1> QED
  BY <1>2, <1>3

(* What it reads decides whether a request tries again or leaves.          *)
LEMMA ReadKeeps ==
  ASSUME IInv, NEW r \in Reqs, Read(r)
  PROVE  IInv'
<1> DEFINE e == row[key[r]]
<1>1. key[r] \in Keys /\ fp[r] \in Prints /\ pc[r] = "read" /\ e \in Rows
  BY DEF Read, IInv, Placed, At, Typed
<1>2. UNCHANGED <<table, memory, up, owed>>
  BY DEF Read
<1>3. CASE /\ e = NoRow /\ tries[r] > 1
           /\ tries' = [tries EXCEPT ![r] = @ - 1]
           /\ pc' = [pc EXCEPT ![r] = "insert"]
           /\ UNCHANGED <<key, fp, answer, replayed>>
  <2>1. tries' \in [Reqs -> 0..3]
    BY <1>3 DEF IInv, Typed
  <2>2. pc' \in [Reqs -> Places] /\ pc'[r] = "insert" /\ \A s \in Reqs \ {r} : Same(s)
    BY <1>3 DEF IInv, Typed, Places, Same
  <2>3. Typed' /\ Placed' /\ Down'
    BY <1>1, <1>2, <1>3, <2>1, <2>2 DEF IInv, Typed, Placed, At, Answered, Down, Same, table, memory
  <2>4. Claims' /\ Alone'
    BY <1>1, <1>2, <1>3, <2>2 DEF IInv, Claims, Claim, Due, Alone, Holds, Same, table, memory
  <2>5. Books'
    BY <1>2, <1>3 DEF IInv, Books, Kept, Landed, Owes, Truthful, Unclaimed, table, memory
  <2> QED
    BY <2>3, <2>4, <2>5 DEF IInv
<1>4. CASE e.state = "done" /\ SamePrint(e.fp, fp[r]) /\ Leave(r, e.answer)
  <2>1. e.answer \in Answers
    BY <1>1, <1>4, RowCases DEF NoRow
  <2> QED
    BY <1>2, <1>4, <2>1, LeaveKeeps
<1>5. CASE Leave(r, None)
  BY <1>2, <1>5, LeaveKeeps
<1> QED
  BY <1>3, <1>4, <1>5 DEF Read

(* The handler acts, refuses, or gives nothing to keep.                    *)
LEMMA HandleKeeps ==
  ASSUME IInv, NEW r \in Reqs, Handle(r)
  PROVE  IInv'
<1> DEFINE k == key[r]
<1>1. /\ k \in Keys /\ fp[r] \in Prints /\ pc[r] = "handle" /\ Holds(r) /\ Claim(r)
      /\ UNCHANGED <<row, mine, pending, landed, up>>
  BY DEF Handle, IInv, Placed, At, Holds, Claims, table, memory
<1>2. ASSUME NEW b \in Bodies, NEW acted \in BOOLEAN, NEW a, a = [fp |-> fp[r], acted |-> acted, body |-> b],
             answer' = [answer EXCEPT ![r] = a],
             pc' = [pc EXCEPT ![r] = "record"],
             owed' = IF acted THEN [owed EXCEPT ![k] = a] ELSE owed,
             UNCHANGED <<key, fp, tries, replayed>>
      PROVE  IInv'
  <2>1. a \in Answers /\ a.fp = fp[r] /\ a.acted = acted /\ a # None
    BY <1>1, <1>2, NoAnswer DEF Answers
  <2>2. /\ pc' \in [Reqs -> Places] /\ pc'[r] = "record" /\ answer'[r] = a
        /\ answer' \in [Reqs -> Answers \cup {None}]
        /\ \A s \in Reqs \ {r} : Same(s)
    BY <1>2, <2>1 DEF IInv, Typed, Places, Same
  <2>3. owed[k] = None /\ row[k] = Claimed(fp[r]) /\ pending[k] = None
    BY <1>1 DEF Claim, Due
  <2>4. /\ owed' \in [Keys -> Answers \cup {None}]
        /\ owed'[k] = IF acted THEN a ELSE None
        /\ \A j \in Keys \ {k} : owed'[j] = owed[j]
    BY <1>1, <1>2, <2>1, <2>3 DEF IInv, Typed
  <2>5. Typed' /\ Placed' /\ Down'
    BY <1>1, <1>2, <2>1, <2>2, <2>4 DEF IInv, Typed, Placed, At, Answered, Down, Same
  <2>6. Claims'
    <3> SUFFICES ASSUME NEW q \in Reqs, Holds(q)' PROVE Claim(q)'
      BY DEF Claims
    <3>1. CASE q = r
      BY <1>1, <1>2, <2>1, <2>2, <2>4, <3>1 DEF Claim, Due
    <3>2. CASE q # r
      <4>1. Holds(q) /\ Claim(q) /\ key[q] \in Keys \ {k}
        BY <1>1, <2>2, <3>2 DEF Holds, Same, IInv, Claims, Alone, Placed, At
      <4> QED
        BY <1>1, <2>2, <2>4, <3>2, <4>1 DEF Claim, Due, Same
    <3> QED
      BY <3>1, <3>2
  <2>7. Alone'
    BY <1>1, <1>2, <2>2 DEF IInv, Alone, Holds, Same
  <2>8. ASSUME NEW j \in Keys PROVE (Kept(j) /\ Landed(j) /\ Owes(j) /\ Truthful(j))'
    <3>1. Kept(j) /\ Landed(j) /\ Owes(j) /\ Truthful(j)
      BY DEF IInv, Books
    <3>2. CASE j = k
      BY <1>1, <2>1, <2>3, <2>4, <3>1, <3>2 DEF Kept, Landed, Owes, Truthful, Claimed
    <3>3. CASE j # k
      BY <1>1, <1>2, <2>4, <3>1, <3>3 DEF Kept, Landed, Owes, Truthful, Unclaimed
    <3> QED
      BY <3>2, <3>3
  <2> QED
    BY <2>5, <2>6, <2>7, <2>8 DEF IInv, Books
<1>3. CASE Goto(r, "release") /\ UNCHANGED owed
  <2>1. /\ pc'[r] = "release" /\ UNCHANGED <<key, fp, tries, answer, replayed>>
        /\ \A s \in Reqs \ {r} : Same(s)
        /\ pc' \in [Reqs -> Places]
    BY <1>3, GotoEffect DEF IInv, Places
  <2>2. Typed' /\ Placed' /\ Down'
    BY <1>1, <1>3, <2>1 DEF IInv, Typed, Placed, At, Answered, Down, Same
  <2>3. Claims' /\ Alone'
    BY <1>1, <1>3, <2>1 DEF IInv, Claims, Claim, Due, Alone, Holds, Same
  <2>4. Books'
    BY <1>1, <1>3, <2>1 DEF IInv, Books, Kept, Landed, Owes, Truthful, Unclaimed
  <2> QED
    BY <2>2, <2>3, <2>4 DEF IInv
<1> QED
  BY <1>2, <1>3 DEF Handle

(* The claim becomes the recorded answer.                                  *)
LEMMA RecordKeeps ==
  ASSUME IInv, NEW r \in Reqs, Record(r)
  PROVE  IInv'
<1> DEFINE k == key[r]
           a == answer[r]
<1>1. /\ k \in Keys /\ fp[r] \in Prints /\ pc[r] = "record" /\ Holds(r) /\ Claim(r)
      /\ a \in Answers /\ a.fp = fp[r]
  BY DEF Record, IInv, Placed, At, Answered, Holds, Claims
<1>2. /\ row[k] = Claimed(fp[r]) /\ row[k] # NoRow /\ pending[k] = None
      /\ owed[k] = IF a.acted THEN a ELSE None
  BY <1>1 DEF Claim, Due, Claimed, NoRow
<1>3. Storable(k, a)
  BY <1>1, <1>2 DEF Storable
<1>4. /\ row' = [row EXCEPT ![k] = Done(a)] /\ mine' = mine
      /\ Goto(r, "prune") /\ UNCHANGED <<pending, landed, up, owed>>
  BY <1>2, <1>3 DEF Record, Store, memory
<1>5. /\ pc'[r] = "prune" /\ UNCHANGED <<key, fp, tries, answer, replayed>>
      /\ \A s \in Reqs \ {r} : Same(s)
      /\ pc' \in [Reqs -> Places]
  BY <1>4, GotoEffect DEF IInv, Places
<1>6. row' \in [Keys -> Rows] /\ row'[k] = Done(a) /\ \A j \in Keys \ {k} : row'[j] = row[j]
  BY <1>1, <1>4, RowKinds DEF IInv, Typed
<1>7. Typed' /\ Placed' /\ Down'
  BY <1>1, <1>4, <1>5, <1>6 DEF IInv, Typed, Placed, At, Answered, Down, Same
<1>8. Claims'
  <2> SUFFICES ASSUME NEW q \in Reqs, Holds(q)' PROVE Claim(q)'
    BY DEF Claims
  <2>1. q # r /\ Holds(q) /\ Claim(q) /\ key[q] \in Keys \ {k}
    BY <1>1, <1>5 DEF Holds, Same, IInv, Claims, Alone, Placed, At
  <2> QED
    BY <1>4, <1>5, <1>6, <2>1 DEF Claim, Due, Same
<1>9. Alone'
  BY <1>5 DEF IInv, Alone, Holds, Same
<1>10. ASSUME NEW j \in Keys PROVE (Kept(j) /\ Landed(j) /\ Owes(j) /\ Truthful(j))'
  <2>1. Kept(j) /\ Landed(j) /\ Owes(j) /\ Truthful(j)
    BY DEF IInv, Books
  <2>2. CASE j = k
    BY <1>1, <1>2, <1>4, <1>6, <2>1, <2>2, NoAnswer DEF Kept, Landed, Owes, Truthful, Done
  <2>3. CASE j # k
    BY <1>4, <1>5, <1>6, <2>1, <2>3 DEF Kept, Landed, Owes, Truthful, Unclaimed
  <2> QED
    BY <2>2, <2>3
<1> QED
  BY <1>7, <1>8, <1>9, <1>10 DEF IInv, Books

(* An answer that cannot be recorded is kept, or its claim stays, or, when *)
(* nothing was done, its claim is freed.                                   *)
LEMMA RecordFailsKeeps ==
  ASSUME IInv, NEW r \in Reqs, RecordFails(r)
  PROVE  IInv'
<1> DEFINE k == key[r]
           a == answer[r]
<1>1. /\ k \in Keys /\ fp[r] \in Prints /\ pc[r] = "record" /\ Holds(r) /\ Claim(r)
      /\ a \in Answers /\ a.fp = fp[r]
      /\ UNCHANGED <<row, order, mine, landed, up, owed>>
  BY DEF RecordFails, IInv, Placed, At, Answered, Holds, Claims, table
<1>2. CASE a.acted /\ HasRoom
  <2>1. pending' = [pending EXCEPT ![k] = a] /\ Leave(r, None)
    BY <1>2 DEF RecordFails, MustKeep
  <2>2. /\ pending' \in [Keys -> Answers \cup {None}] /\ pending'[k] = a
        /\ \A j \in Keys \ {k} : pending'[j] = pending[j]
    BY <1>1, <2>1 DEF IInv, Typed
  <2>3. /\ Gone(r) /\ \A s \in Reqs \ {r} : Same(s)
        /\ Typed' /\ Placed'
    BY <1>1, <2>1, <2>2, LeaveEffect DEF IInv, Typed
  <2>4. Down'
    BY <1>1 DEF IInv, Down, Holds
  <2>5. Claims'
    <3> SUFFICES ASSUME NEW q \in Reqs, Holds(q)' PROVE Claim(q)'
      BY DEF Claims
    <3>1. q # r /\ Holds(q) /\ Claim(q) /\ key[q] \in Keys \ {k}
      BY <1>1, <2>3 DEF Holds, Same, Gone, IInv, Claims, Alone, Placed, At
    <3> QED
      BY <1>1, <2>2, <2>3, <3>1 DEF Claim, Due, Same
  <2>6. Alone'
    BY <2>3 DEF IInv, Alone, Holds, Same, Gone
  <2>7. ASSUME NEW j \in Keys PROVE (Kept(j) /\ Landed(j) /\ Owes(j) /\ Truthful(j))'
    <3>1. Kept(j) /\ Landed(j) /\ Owes(j) /\ Truthful(j)
      BY DEF IInv, Books
    <3>2. CASE j = k
      BY <1>1, <1>2, <2>2, <3>1, <3>2 DEF Kept, Landed, Owes, Truthful, Claim, Due
    <3>3. CASE j # k
      <4>1. Unclaimed(j) => Unclaimed(j)'
        BY <2>3, NoAnswer DEF Unclaimed, Same, Gone
      <4> QED
        BY <1>1, <2>2, <3>1, <3>3, <4>1 DEF Kept, Landed, Owes, Truthful
    <3> QED
      BY <3>2, <3>3
  <2> QED
    BY <2>3, <2>4, <2>5, <2>6, <2>7 DEF IInv, Books
<1>3. CASE a.acted /\ ~HasRoom
  BY <1>1, <1>3, LeaveKeeps DEF RecordFails, MustKeep, table, memory
<1>4. CASE ~a.acted
  <2>1. Goto(r, "release") /\ UNCHANGED pending
    BY <1>4 DEF RecordFails, MustKeep
  <2>2. /\ pc'[r] = "release" /\ UNCHANGED <<key, fp, tries, answer, replayed>>
        /\ \A s \in Reqs \ {r} : Same(s)
        /\ pc' \in [Reqs -> Places]
    BY <2>1, GotoEffect DEF IInv, Places
  <2>3. Typed' /\ Placed' /\ Down'
    BY <1>1, <2>1, <2>2 DEF IInv, Typed, Placed, At, Answered, Down, Same
  <2>4. Claims' /\ Alone'
    BY <1>1, <1>4, <2>1, <2>2 DEF IInv, Claims, Claim, Due, Alone, Holds, Same
  <2>5. Books'
    BY <1>1, <2>1, <2>2 DEF IInv, Books, Kept, Landed, Owes, Truthful, Unclaimed
  <2> QED
    BY <2>3, <2>4, <2>5 DEF IInv
<1> QED
  BY <1>2, <1>3, <1>4

(* The claim that is freed is the request's own.                           *)
LEMMA ReleaseKeeps ==
  ASSUME IInv, NEW r \in Reqs, Release(r)
  PROVE  IInv'
<1> DEFINE k == key[r]
<1>1. /\ k \in Keys /\ fp[r] \in Prints /\ pc[r] = "release" /\ Holds(r) /\ Claim(r)
      /\ UNCHANGED <<pending, landed, up, owed>> /\ Leave(r, None)
  BY DEF Release, IInv, Placed, At, Holds, Claims, memory
<1>2. row[k] = Claimed(fp[r]) /\ pending[k] = None /\ owed[k] = None
  BY <1>1 DEF Claim, Due
<1>3. row' = [row EXCEPT ![k] = NoRow] /\ mine' = mine \ {k}
  BY <1>2 DEF Release, Claimed
<1>4. row' \in [Keys -> Rows] /\ row'[k] = NoRow /\ \A j \in Keys \ {k} : row'[j] = row[j]
  BY <1>1, <1>3 DEF IInv, Typed, NoRow, Rows
<1>5. /\ Gone(r) /\ \A s \in Reqs \ {r} : Same(s)
      /\ Typed' /\ Placed'
  BY <1>1, <1>3, <1>4, LeaveEffect DEF IInv, Typed
<1>6. Down'
  BY <1>1 DEF IInv, Down, Holds
<1>7. Claims'
  <2> SUFFICES ASSUME NEW q \in Reqs, Holds(q)' PROVE Claim(q)'
    BY DEF Claims
  <2>1. q # r /\ Holds(q) /\ Claim(q) /\ key[q] \in Keys \ {k}
    BY <1>1, <1>5 DEF Holds, Same, Gone, IInv, Claims, Alone, Placed, At
  <2> QED
    BY <1>1, <1>3, <1>4, <1>5, <2>1 DEF Claim, Due, Same
<1>8. Alone'
  BY <1>5 DEF IInv, Alone, Holds, Same, Gone
<1>9. ASSUME NEW j \in Keys PROVE (Kept(j) /\ Landed(j) /\ Owes(j) /\ Truthful(j))'
  <2>1. Kept(j) /\ Landed(j) /\ Owes(j) /\ Truthful(j)
    BY DEF IInv, Books
  <2>2. CASE j = k
    BY <1>1, <1>2, <1>4, <2>1, <2>2 DEF Kept, Landed, Owes, Truthful, NoRow
  <2>3. CASE j # k
    <3>1. Unclaimed(j) => Unclaimed(j)'
      BY <1>5, NoAnswer DEF Unclaimed, Same, Gone
    <3> QED
      BY <1>1, <1>3, <1>4, <2>1, <2>3, <3>1 DEF Kept, Landed, Owes, Truthful
  <2> QED
    BY <2>2, <2>3
<1> QED
  BY <1>5, <1>6, <1>7, <1>8, <1>9 DEF IInv, Books

-----------------------------------------------------------------------------
(* The prune, the writers, the end of the process and its next start.      *)

(* A row may go when nobody has it, no writer has just stored it, and      *)
(* nobody works with the key of an answer still pending.                   *)
Idle(k) == /\ k \notin landed
           /\ pending[k] # None => Unclaimed(k)
           /\ \A r \in Reqs : Holds(r) => key[r] # k

(* Idle rows are deleted without harm to what is claimed or owed.          *)
LEMMA DeleteKeeps ==
  ASSUME IInv, NEW S \in SUBSET Keys, Delete(S), UNCHANGED <<pending, landed>>,
         \A s \in Reqs : Same(s) \/ Gone(s),
         \A k \in S : Idle(k)
  PROVE  /\ row' \in [Keys -> Rows] /\ mine' \subseteq Keys
         /\ owed' \in [Keys -> Answers \cup {None}]
         /\ Claims' /\ Alone' /\ Books'
<1>1. /\ row' = [k \in Keys |-> IF k \in S THEN NoRow ELSE row[k]]
      /\ mine' = mine \ S
      /\ owed' = [k \in Keys |-> IF k \in S /\ pending[k] = None THEN None ELSE owed[k]]
  BY DEF Delete
<1>2. row' \in [Keys -> Rows] /\ mine' \subseteq Keys /\ owed' \in [Keys -> Answers \cup {None}]
  BY <1>1 DEF IInv, Typed, NoRow, Rows
<1>3. Claims'
  <2> SUFFICES ASSUME NEW q \in Reqs, Holds(q)' PROVE Claim(q)'
    BY DEF Claims
  <2>1. Same(q) /\ Holds(q)
    BY DEF Holds, Same, Gone
  <2>2. Claim(q) /\ key[q] \in Keys \ S
    BY <2>1 DEF Idle, IInv, Claims, Placed, At, Holds
  <2> QED
    BY <1>1, <2>1, <2>2 DEF Claim, Due, Same
<1>4. Alone'
  BY DEF IInv, Alone, Holds, Same, Gone
<1>5. ASSUME NEW k \in Keys PROVE (Kept(k) /\ Landed(k) /\ Owes(k) /\ Truthful(k))'
  <2>1. Kept(k) /\ Landed(k) /\ Owes(k) /\ Truthful(k)
    BY DEF IInv, Books
  <2>2. Unclaimed(k) => Unclaimed(k)'
    BY NoAnswer DEF Unclaimed, Same, Gone
  <2>3. CASE k \in S
    BY <1>1, <2>1, <2>2, <2>3 DEF Idle, Kept, Landed, Owes, Truthful, NoRow
  <2>4. CASE k \notin S
    BY <1>1, <2>1, <2>2, <2>4 DEF Kept, Landed, Owes, Truthful
  <2> QED
    BY <2>3, <2>4
<1> QED
  BY <1>2, <1>3, <1>4, <1>5 DEF Books

(* What the bounds remove is idle.                                         *)
LEMMA PrunedAreIdle ==
  ASSUME IInv, NEW S \in Aged
  PROVE  /\ S \cup Evicted(S) \in SUBSET Keys
         /\ \A k \in S \cup Evicted(S) : Idle(k)
<1>1. S \in SUBSET Keys /\ S \cap InUse = {}
  BY DEF Aged
<1>2. Evicted(S) \subseteq {k \in Keys : row[k].state = "done" /\ k \notin landed}
  BY DEF Evicted, Recorded
<1>3. ASSUME NEW k \in S PROVE Idle(k)
  <2>1. k \in Keys /\ k \notin landed /\ (k \in mine => Handling(k) = {})
    BY <1>1, <1>3 DEF InUse
  <2>2. k \in mine => Unclaimed(k)
    BY <2>1 DEF Handling, Unclaimed
  <2>3. pending[k] # None => Unclaimed(k)
    BY <2>1, <2>2 DEF IInv, Books, Kept
  <2>4. \A r \in Reqs : Holds(r) => key[r] # k
    BY <2>2 DEF IInv, Claims, Claim, Unclaimed
  <2> QED
    BY <2>1, <2>3, <2>4 DEF Idle
<1>4. ASSUME NEW k \in Evicted(S) PROVE Idle(k)
  <2>1. k \in Keys /\ k \notin landed /\ row[k].state = "done"
    BY <1>2
  <2>2. pending[k] = None
    <3>1. Kept(k)
      BY <2>1 DEF IInv, Books
    <3> QED
      BY <2>1, <3>1 DEF Kept, Claimed, NoRow
  <2>3. \A r \in Reqs : Holds(r) => key[r] # k
    <3> SUFFICES ASSUME NEW r \in Reqs, Holds(r), key[r] = k PROVE FALSE
      OBVIOUS
    <3>1. row[k] = Claimed(fp[r])
      BY DEF IInv, Claims, Claim
    <3> QED
      BY <2>1, <3>1 DEF Claimed
  <2> QED
    BY <2>1, <2>2, <2>3 DEF Idle
<1> QED
  BY <1>1, <1>2, <1>3, <1>4

(* After a recorded answer the table is pruned, or not.                    *)
LEMMA PruneKeeps ==
  ASSUME IInv, NEW r \in Reqs, Prune(r)
  PROVE  IInv'
<1>1. Leave(r, None) /\ UNCHANGED <<pending, landed, up>>
  BY DEF Prune, memory
<1>2. CASE UNCHANGED <<table, owed>>
  BY <1>1, <1>2, LeaveKeeps DEF memory
<1>3. CASE PruneRows
  <2>1. PICK S \in Aged : Delete(S \cup Evicted(S))
    BY <1>3 DEF PruneRows
  <2>2. \A s \in Reqs : Same(s) \/ Gone(s)
    BY <1>1, LeaveEffect DEF IInv
  <2>3. /\ row' \in [Keys -> Rows] /\ mine' \subseteq Keys
        /\ owed' \in [Keys -> Answers \cup {None}]
        /\ Claims' /\ Alone' /\ Books'
    BY <1>1, <2>1, <2>2, PrunedAreIdle, DeleteKeeps
  <2>4. Typed' /\ Placed'
    BY <1>1, <2>3, LeaveEffect DEF IInv, Typed
  <2>5. Down'
    BY <1>1, <2>2 DEF IInv, Down, Same, Gone
  <2> QED
    BY <2>3, <2>4, <2>5 DEF IInv
<1> QED
  BY <1>2, <1>3 DEF Prune

(* A writer stores the answer it was started for.                          *)
LEMMA WriterStoresKeeps ==
  ASSUME IInv, NEW k \in Keys, WriterStores(k)
  PROVE  IInv'
<1>1. /\ up /\ pending[k] # None /\ k \notin landed /\ landed' = landed \cup {k}
      /\ UNCHANGED <<pending, pc, key, fp, tries, answer, replayed, up, owed>>
  BY DEF WriterStores, reqVars
<1>2. pending[k] \in Answers /\ owed[k] = pending[k] /\ Storable(k, pending[k])
  BY <1>1 DEF IInv, Typed, Books, Kept, Storable
<1>3. /\ row' = [row EXCEPT ![k] = Done(pending[k])]
      /\ mine' = mine \/ mine' = mine \cup {k}
  BY <1>2 DEF WriterStores, Store
<1>4. row' \in [Keys -> Rows] /\ row'[k] = Done(pending[k]) /\ \A j \in Keys \ {k} : row'[j] = row[j]
  BY <1>2, <1>3, DoneIsRow DEF IInv, Typed
<1>5. Typed' /\ Placed' /\ Down'
  BY <1>1, <1>3, <1>4 DEF IInv, Typed, Placed, At, Answered, Down
<1>6. Claims'
  <2> SUFFICES ASSUME NEW q \in Reqs, Holds(q)' PROVE Claim(q)'
    BY DEF Claims
  <2>1. Holds(q) /\ Claim(q) /\ key[q] \in Keys \ {k}
    BY <1>1 DEF Holds, IInv, Claims, Claim, Placed, At
  <2> QED
    BY <1>1, <1>3, <1>4, <2>1 DEF Claim, Due
<1>7. Alone'
  BY <1>1 DEF IInv, Alone, Holds
<1>8. ASSUME NEW j \in Keys PROVE (Kept(j) /\ Landed(j) /\ Owes(j) /\ Truthful(j))'
  <2>1. Kept(j) /\ Landed(j) /\ Owes(j) /\ Truthful(j)
    BY DEF IInv, Books
  <2>2. CASE j = k
    BY <1>1, <1>2, <1>4, <2>1, <2>2 DEF Kept, Landed, Owes, Truthful, Done
  <2>3. CASE j # k
    BY <1>1, <1>3, <1>4, <2>1, <2>3 DEF Kept, Landed, Owes, Truthful, Unclaimed
  <2> QED
    BY <2>2, <2>3
<1> QED
  BY <1>5, <1>6, <1>7, <1>8 DEF IInv, Books

(* Then memory lets go of it: the table has it.                            *)
LEMMA WriterForgetsKeeps ==
  ASSUME IInv, NEW k \in Keys, WriterForgets(k)
  PROVE  IInv'
<1>1. /\ k \in landed /\ pending' = [pending EXCEPT ![k] = None] /\ landed' = landed \ {k}
      /\ UNCHANGED <<row, mine, pc, key, fp, tries, answer, replayed, up, owed>>
  BY DEF WriterForgets, reqVars, table
<1>2. /\ pending' \in [Keys -> Answers \cup {None}] /\ pending'[k] = None
      /\ \A j \in Keys \ {k} : pending'[j] = pending[j]
  BY <1>1 DEF IInv, Typed
<1>3. Typed' /\ Placed'
  BY <1>1, <1>2 DEF IInv, Typed, Placed, At, Answered
<1>4. Down'
  BY <1>1, <1>2 DEF IInv, Down
<1>5. Claims' /\ Alone'
  BY <1>1, <1>2 DEF IInv, Claims, Claim, Due, Alone, Holds, Placed, At
<1>6. ASSUME NEW j \in Keys PROVE (Kept(j) /\ Landed(j) /\ Owes(j) /\ Truthful(j))'
  <2>1. Kept(j) /\ Landed(j) /\ Owes(j) /\ Truthful(j)
    BY DEF IInv, Books
  <2>2. CASE j = k
    BY <1>1, <1>2, <2>1, <2>2 DEF Kept, Landed, Owes, Truthful
  <2>3. CASE j # k
    BY <1>1, <1>2, <2>1, <2>3 DEF Kept, Landed, Owes, Truthful, Unclaimed
  <2> QED
    BY <2>2, <2>3
<1> QED
  BY <1>3, <1>4, <1>5, <1>6 DEF IInv, Books

(* What the end of the process does not record, it does not owe.           *)
LEMMA StopKeeps ==
  ASSUME IInv, NEW S \in SUBSET Keys, Stop(S)
  PROVE  IInv'
<1>1. /\ \A k \in S : pending[k] \in Answers /\ pending[k] # None
      /\ row' = [k \in Keys |-> IF k \in S THEN Done(pending[k]) ELSE row[k]]
      /\ pending' = [k \in Keys |-> None] /\ landed' = {} /\ mine' = {}
      /\ owed' = [k \in Keys |-> IF row'[k].state = "done" THEN owed[k] ELSE None]
  BY DEF Stop, IInv, Typed
<1>2. /\ pc' = [r \in Reqs |-> "idle"] /\ key' = [r \in Reqs |-> None] /\ fp' = [r \in Reqs |-> None]
      /\ answer' = [r \in Reqs |-> None] /\ replayed' = [r \in Reqs |-> None] /\ up' = FALSE
      /\ tries' = [r \in Reqs |-> 0]
  BY DEF Stop
<1>3. row' \in [Keys -> Rows]
  BY <1>1, DoneIsRow DEF IInv, Typed
<1>4. owed' \in [Keys -> Answers \cup {None}]
  BY <1>1 DEF IInv, Typed
<1>5. /\ pc' \in [Reqs -> Places] /\ key' \in [Reqs -> Keys \cup {None}]
      /\ fp' \in [Reqs -> Prints \cup {None}] /\ answer' \in [Reqs -> Answers \cup {None}]
      /\ replayed' \in [Reqs -> Answers \cup {None}]
  BY <1>2 DEF Places
<1>6. tries' \in [Reqs -> 0..3]
  BY <1>2
<1>7. Typed'
  BY <1>1, <1>2, <1>3, <1>4, <1>5, <1>6 DEF Typed
<1>8. Placed' /\ Down' /\ Claims' /\ Alone'
  BY <1>1, <1>2 DEF Placed, At, Answered, Down, Claims, Alone, Holds
<1>9. ASSUME NEW k \in Keys PROVE (Kept(k) /\ Landed(k) /\ Owes(k) /\ Truthful(k))'
  <2>1. Kept(k) /\ Landed(k) /\ Owes(k) /\ Truthful(k)
    BY DEF IInv, Books
  <2>2. Kept(k)' /\ Landed(k)'
    BY <1>1 DEF Kept, Landed
  <2>3. CASE k \in S
    BY <1>1, <2>1, <2>2, <2>3 DEF Kept, Owes, Truthful, Done
  <2>4. CASE k \notin S
    <3>1. row'[k] = row[k]
      BY <1>1, <2>4
    <3>2. row[k].state = "done" /\ owed[k] # None => row[k] = Done(owed[k])
      BY <2>1 DEF Kept, Owes, Claimed, NoRow
    <3> QED
      BY <1>1, <2>1, <2>2, <3>1, <3>2 DEF Owes, Truthful
  <2> QED
    BY <2>3, <2>4
<1> QED
  BY <1>7, <1>8, <1>9 DEF IInv, Books

(* The boot sweep runs while nobody claims and nothing is pending.         *)
LEMMA BootKeeps ==
  ASSUME IInv, Boot
  PROVE  IInv'
<1>1. /\ up' = TRUE
      /\ UNCHANGED <<pending, landed, pc, key, fp, tries, answer, replayed>>
      /\ \A s \in Reqs : Same(s)
  BY DEF Boot, memory, reqVars, Same
<1>2. \A k \in Keys : Idle(k)
  BY DEF Boot, IInv, Down, Idle, Holds
<1>3. CASE \E S \in SUBSET Keys : Delete(S)
  <2>1. /\ row' \in [Keys -> Rows] /\ mine' \subseteq Keys
        /\ owed' \in [Keys -> Answers \cup {None}]
        /\ Claims' /\ Alone' /\ Books'
    BY <1>1, <1>2, <1>3, DeleteKeeps
  <2>2. Typed' /\ Placed' /\ Down'
    BY <1>1, <2>1 DEF IInv, Typed, Placed, At, Answered, Down
  <2> QED
    BY <2>1, <2>2 DEF IInv
<1>4. CASE UNCHANGED <<table, owed>>
  <2>1. Claims' /\ Alone' /\ Books'
    BY <1>1, <1>4, GoneKeeps DEF table
  <2>2. Typed' /\ Placed' /\ Down'
    BY <1>1, <1>4 DEF IInv, Typed, Placed, At, Answered, Down, table
  <2> QED
    BY <2>1, <2>2 DEF IInv
<1>5. \A S \in Aged : S \cup Evicted(S) \in SUBSET Keys
  BY PrunedAreIdle
<1>6. InFlight \in SUBSET Keys
  BY DEF InFlight
<1> QED
  BY <1>3, <1>4, <1>5, <1>6 DEF Boot, PruneRows

-----------------------------------------------------------------------------
(* The inductive invariant and what follows from it.                       *)

(* Every step keeps the invariant.                                         *)
LEMMA NextIInv == IInv /\ [Next]_vars => IInv'
<1> SUFFICES ASSUME IInv, [Next]_vars PROVE IInv'
  OBVIOUS
<1>1. ASSUME NEW r \in Reqs, NEW k \in Keys, NEW f \in Prints, Arrive(r, k, f) PROVE IInv'
  BY <1>1, ArriveKeeps
<1>2. ASSUME NEW r \in Reqs, Insert(r) \/ Read(r) \/ Handle(r) \/ Record(r) PROVE IInv'
  BY <1>2, InsertKeeps, ReadKeeps, HandleKeeps, RecordKeeps
<1>3. ASSUME NEW r \in Reqs, ClaimFails(r) \/ ReleaseFails(r) PROVE IInv'
  BY <1>3, LeaveKeeps DEF ClaimFails, ReleaseFails
<1>4. ASSUME NEW r \in Reqs, RecordFails(r) \/ Release(r) \/ Prune(r) PROVE IInv'
  BY <1>4, RecordFailsKeeps, ReleaseKeeps, PruneKeeps
<1>5. ASSUME NEW k \in Keys, WriterStores(k) \/ WriterForgets(k) PROVE IInv'
  BY <1>5, WriterStoresKeeps, WriterForgetsKeeps
<1>6. ASSUME NEW S \in SUBSET Keys, Stop(S) PROVE IInv'
  BY <1>6, StopKeeps
<1>7. CASE Boot
  BY <1>7, BootKeeps
<1>8. CASE UNCHANGED vars
  <2>1. Typed' /\ Placed' /\ Down'
    BY <1>8 DEF vars, table, memory, reqVars, IInv, Typed, Placed, At, Answered, Down
  <2>2. Claims' /\ Alone' /\ Books'
    BY <1>8, GoneKeeps DEF vars, table, memory, reqVars, Same
  <2> QED
    BY <2>1, <2>2 DEF IInv
<1> QED
  BY <1>1, <1>2, <1>3, <1>4, <1>5, <1>6, <1>7, <1>8 DEF Next, Request

(* The invariant of the store: claims are had alone, and what is pending   *)
(* or recorded is what is owed.                                            *)
THEOREM SpecIInv == Spec => []IInv
  BY InitIInv, NextIInv, PTL DEF Spec

(* A duplicate never executes.                                             *)
THEOREM OneHandlerHolds == Spec => []OneHandler
<1>1. IInv => OneHandler
  BY DEF IInv, Alone, Holds, OneHandler
<1> QED
  BY <1>1, SpecIInv, PTL

(* What the agent owes is recorded, pending or still claimed.              *)
THEOREM OwedIsAlwaysKept == Spec => []OwedIsKept
<1>1. IInv => OwedIsKept
  BY DEF IInv, Books, Kept, Owes, OwedIsKept
<1> QED
  BY <1>1, SpecIInv, PTL

(* While an answer is owed, no other request with its key acts.            *)
THEOREM ActsAtMostOnce == Spec => AtMostOnce
<1>1. IInv /\ [Next]_vars => [\A k \in Keys : owed[k] # None => owed'[k] \in {owed[k], None}]_vars
  <2> SUFFICES ASSUME IInv, Next, NEW k \in Keys, owed[k] # None PROVE owed'[k] \in {owed[k], None}
    OBVIOUS
  <2>1. CASE UNCHANGED owed
    BY <2>1
  <2>2. ASSUME NEW r \in Reqs, Handle(r) PROVE owed'[k] \in {owed[k], None}
    <3>1. Claim(r) /\ pc[r] = "handle"
      BY <2>2 DEF Handle, IInv, Claims, Holds
    <3>2. owed[key[r]] = None
      BY <3>1 DEF Claim, Due
    <3> QED
      BY <2>2, <3>2 DEF Handle, IInv, Typed
  <2>3. ASSUME NEW S, Delete(S) PROVE owed'[k] \in {owed[k], None}
    BY <2>3 DEF Delete
  <2>4. ASSUME NEW S, Stop(S) PROVE owed'[k] \in {owed[k], None}
    BY <2>4 DEF Stop
  <2>5. ASSUME NEW r \in Reqs, Request(r) PROVE UNCHANGED owed \/ Handle(r) \/ \E S : Delete(S)
    BY <2>5 DEF Request, Arrive, Insert, Read, ClaimFails, Record, RecordFails, Release, ReleaseFails,
          Prune, PruneRows
  <2>6. ASSUME NEW j \in Keys, WriterStores(j) \/ WriterForgets(j) PROVE UNCHANGED owed
    BY <2>6 DEF WriterStores, WriterForgets
  <2>7. Boot => UNCHANGED owed \/ \E S : Delete(S)
    BY DEF Boot, PruneRows
  <2> QED
    BY <2>1, <2>2, <2>3, <2>4, <2>5, <2>6, <2>7 DEF Next
<1> QED
  BY <1>1, SpecIInv, PTL DEF Spec, AtMostOnce

(* A replayed answer is of the same body, and if it acted the one owed.    *)
THEOREM ReplaysTellTheTruth == Spec => ReplaysAreTrue
<1> DEFINE Replay(r, k, f) == Arrive(r, k, f) \/ (Read(r) /\ key[r] = k /\ fp[r] = f)
           Good(r, k, f) == /\ replayed'[r].fp = f
                            /\ replayed'[r].acted => replayed'[r] = owed[k]
<1>1. IInv => \A r \in Reqs, k \in Keys, f \in Prints :
                Replay(r, k, f) /\ replayed'[r] # None => Good(r, k, f)
  <2> SUFFICES ASSUME IInv, NEW r \in Reqs, NEW k \in Keys, NEW f \in Prints, replayed'[r] # None,
                      Replay(r, k, f)
               PROVE  Good(r, k, f)
    OBVIOUS
  <2>1. CASE Arrive(r, k, f)
    <3>1. /\ pending[k] # None /\ pending[k].fp = f /\ replayed'[r] = pending[k]
      BY <2>1 DEF Arrive, Leave, SamePrint, IInv, Typed
    <3>2. owed[k] = pending[k]
      BY <3>1 DEF IInv, Books, Kept
    <3> QED
      BY <3>1, <3>2
  <2>2. CASE Read(r) /\ key[r] = k /\ fp[r] = f
    <3>1. row[k].state = "done" /\ row[k].fp = f /\ replayed'[r] = row[k].answer
      <4>1. CASE Leave(r, row[k].answer) /\ row[k].state = "done" /\ SamePrint(row[k].fp, f)
        BY <4>1 DEF Leave, SamePrint, IInv, Typed
      <4>2. CASE Leave(r, None)
        BY <4>2 DEF Leave, IInv, Typed
      <4>3. CASE UNCHANGED replayed /\ pc[r] = "read"
        BY <4>3 DEF IInv, Placed, At
      <4> QED
        BY <2>2, <4>1, <4>2, <4>3 DEF Read
    <3>2. row[k] = Done(row[k].answer) /\ (row[k].answer.acted => owed[k] = row[k].answer)
      BY <3>1 DEF IInv, Books, Truthful
    <3>3. row[k].answer.fp = f
      BY <3>1, <3>2 DEF Done
    <3> QED
      BY <3>1, <3>2, <3>3
  <2> QED
    BY <2>1, <2>2
<1>2. IInv => [\A r \in Reqs, k \in Keys, f \in Prints :
                (Arrive(r, k, f) \/ (Read(r) /\ key[r] = k /\ fp[r] = f)) /\ replayed'[r] # None =>
                   /\ replayed'[r].fp = f
                   /\ replayed'[r].acted => replayed'[r] = owed[k]]_vars
  BY <1>1
<1> QED
  BY <1>2, SpecIInv, PTL DEF Spec, ReplaysAreTrue

=============================================================================
