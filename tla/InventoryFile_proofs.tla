------------------------ MODULE InventoryFile_proofs ------------------------
(* Proofs about what the window and its commands do.  InventoryFile: what    *)
(* its properties have in common is that, without an overlap, one object is  *)
(* in use and a thread that writes holds that object's table.  MonitorApp:   *)
(* the Start button comes back.                                             *)
EXTENDS InventoryFile, MonitorApp, FiniteSetTheorems, TLAPS

Sound == Apart /\ ~Unread

Single == Apart => \A i, j \in up : i = j
Current == Apart => \A t \in Thread : pc[t] = "write" => snapshot[t] = memory[Uses[t]]
Grown == Sound => \A i \in up : DOMAIN file \subseteq DOMAIN memory[i]
Decided ==
  Sound => \A i \in up, d \in Device :
    /\ d \in DOMAIN file /\ d \in DOMAIN memory[i]
    /\ memory[i][d] # file[d]
    => memory[i][d] = decided[d]
Missed == Unread => "misread" \in troubles
Remembered ==
  troubles \subseteq {"unwritten"} => \A d \in Device : announced[d] = 0 \/
    /\ announced[d] = 1
    /\ up = {} => d \in DOMAIN file
    /\ \A i \in up : d \in DOMAIN memory[i]

IInv == /\ TypeOK /\ Single /\ Current /\ Grown /\ Missed
        /\ FileCatchesUp /\ Decided /\ Remembered

-----------------------------------------------------------------------------
(* Tables are functions from devices to flags, and With adds one device.    *)
LEMMA TableFacts ==
  ASSUME NEW table \in Table
  PROVE  /\ DOMAIN table \subseteq Device
         /\ table \in [DOMAIN table -> BOOLEAN]
  BY DEF Table

LEMMA EmptyIsTable == Empty \in Table /\ DOMAIN Empty = {}
<1>1. {} \in SUBSET Device
  OBVIOUS
<1>2. Empty \in [{} -> BOOLEAN] /\ DOMAIN Empty = {}
  BY DEF Empty
<1> QED BY <1>1, <1>2 DEF Table

LEMMA WithFacts ==
  ASSUME NEW table \in Table, NEW d \in Device, NEW trusted \in BOOLEAN
  PROVE  /\ With(table, d, trusted) \in Table
         /\ DOMAIN With(table, d, trusted) = DOMAIN table \cup {d}
         /\ With(table, d, trusted)[d] = trusted
         /\ \A e \in DOMAIN table : e # d => With(table, d, trusted)[e] = table[e]
<1>1. DOMAIN table \cup {d} \in SUBSET Device
  BY TableFacts
<1>2. With(table, d, trusted) \in [DOMAIN table \cup {d} -> BOOLEAN]
  BY TableFacts DEF With
<1>3. With(table, d, trusted) \in Table
  BY <1>1, <1>2 DEF Table
<1> QED BY <1>3 DEF With

(* The tables an operation puts into memory.                                *)
LEMMA OperateCases ==
  ASSUME TypeOK, NEW t \in Thread, Operate(t)
  PROVE  \E d \in Device, table \in Table :
           /\ Change(t, table)
           /\ DOMAIN memory[Uses[t]] \subseteq DOMAIN table
           /\ \/ /\ d \notin DOMAIN memory[Uses[t]] /\ d \in DOMAIN table
                 /\ \A e \in DOMAIN memory[Uses[t]] : table[e] = memory[Uses[t]][e]
                 /\ announced' = [announced EXCEPT ![d] = @ + 1] /\ UNCHANGED decided
              \/ table = memory[Uses[t]] /\ UNCHANGED told
              \/ \E trusted \in BOOLEAN :
                   /\ table[d] = trusted
                   /\ \A e \in DOMAIN memory[Uses[t]] :
                        e # d => table[e] = memory[Uses[t]][e]
                   /\ decided' = [decided EXCEPT ![d] = trusted] /\ UNCHANGED announced
<1>0. memory[Uses[t]] \in Table
  BY FileAssumption DEF TypeOK
<1>1. PICK d \in Device : \/ ObserveFirst(t, d) \/ Refresh(t, d)
                          \/ \E trusted \in BOOLEAN : SetTrusted(t, d, trusted)
  BY DEF Operate
<1>2. CASE ObserveFirst(t, d)
  <2> DEFINE table == With(memory[Uses[t]], d, FALSE)
  <2>1. /\ table \in Table /\ DOMAIN table = DOMAIN memory[Uses[t]] \cup {d}
        /\ \A e \in DOMAIN memory[Uses[t]] : e # d => table[e] = memory[Uses[t]][e]
    BY <1>0, WithFacts
  <2>2. /\ Change(t, table) /\ d \notin DOMAIN memory[Uses[t]]
        /\ announced' = [announced EXCEPT ![d] = @ + 1] /\ UNCHANGED decided
    BY <1>2 DEF ObserveFirst, Known

  <2> QED BY <2>1, <2>2
<1>3. CASE Refresh(t, d)
  BY <1>0, <1>3 DEF Refresh
<1>4. CASE \E trusted \in BOOLEAN : SetTrusted(t, d, trusted)
  <2>1. PICK trusted \in BOOLEAN : SetTrusted(t, d, trusted)
    BY <1>4
  <2> DEFINE table == With(memory[Uses[t]], d, trusted)
  <2>2. /\ table \in Table /\ DOMAIN table = DOMAIN memory[Uses[t]] \cup {d}
        /\ table[d] = trusted
        /\ \A e \in DOMAIN memory[Uses[t]] : e # d => table[e] = memory[Uses[t]][e]
    <3>1. ASSUME NEW old \in Table PROVE
            /\ With(old, d, trusted) \in Table
            /\ DOMAIN With(old, d, trusted) = DOMAIN old \cup {d}
            /\ With(old, d, trusted)[d] = trusted
            /\ \A e \in DOMAIN old : e # d => With(old, d, trusted)[e] = old[e]
      BY WithFacts, <2>1, SMT
    <3> QED BY <3>1, <1>0, Zenon
  <2>3. /\ Change(t, table)
        /\ decided' = [decided EXCEPT ![d] = trusted] /\ UNCHANGED announced
    BY <2>1 DEF SetTrusted

  <2> QED BY <2>2, <2>3
<1> QED BY <1>1, <1>2, <1>3, <1>4

LEMMA OverlapFacts ==
  ASSUME NEW occurs \in BOOLEAN
  PROVE  /\ Overlap(occurs) \subseteq {"overlap"}
         /\ "overlap" \in Overlap(occurs) <=> occurs
  BY DEF Overlap

-----------------------------------------------------------------------------
(* One lemma per action for the types.                                      *)
LEMMA LoadKeepsType ==
  ASSUME TypeOK, NEW i \in Instance, Load(i) \/ Misread(i)
  PROVE  TypeOK'
<1>1. memory' \in [Instance -> Table]
  <2>1. memory \in [Instance -> Table] /\ file \in Table /\ Empty \in Table
    BY EmptyIsTable DEF TypeOK
  <2>2. memory' = [memory EXCEPT ![i] = file] \/ memory' = [memory EXCEPT ![i] = Empty]
    BY DEF Load, Misread
  <2> QED BY <2>1, <2>2
<1>2. troubles' \subseteq {"overlap", "misread", "unread", "unwritten", "undone"}
  BY OverlapFacts DEF TypeOK, Load, Misread
<1>3. mishaps' \in 0 .. MaxMishaps /\ changes' \in 0 .. MaxChanges
  BY FileAssumption DEF TypeOK, Load, Misread, Mishap, bounds
<1>4. up' \subseteq Instance /\ up \subseteq up'
  BY DEF TypeOK, Load, Misread
<1> QED BY <1>1, <1>2, <1>3, <1>4 DEF TypeOK, Load, Misread, threads, told

LEMMA ExitKeepsType ==
  ASSUME TypeOK, NEW i \in Instance, Exit(i)
  PROVE  TypeOK'
<1>1. memory' \in [Instance -> Table]
  BY EmptyIsTable DEF TypeOK, Exit
<1>2. /\ troubles' \subseteq {"overlap", "misread", "unread", "unwritten", "undone"}
      /\ mishaps' \in 0 .. MaxMishaps
  <2>1. troubles' \subseteq troubles \cup {"undone"}
    BY DEF Exit
  <2>2. Mishap \/ UNCHANGED mishaps
    BY DEF Exit
  <2>3. mishaps' \in 0 .. MaxMishaps
    BY <2>2, FileAssumption DEF Mishap, TypeOK
  <2> QED BY <2>1, <2>3 DEF TypeOK
<1>3. pc' \in [Thread -> {"idle", "save", "write"}]
  BY DEF TypeOK, Exit
<1>4. \A t \in Thread : pc'[t] # "idle" => Uses[t] \in up'
  BY FileAssumption DEF TypeOK, Exit
<1>5. up' \subseteq Instance
  BY DEF TypeOK, Exit
<1> QED BY <1>1, <1>2, <1>3, <1>4, <1>5 DEF TypeOK, Exit, told

LEMMA SaveKeepsType ==
  ASSUME TypeOK, NEW t \in Thread, Save(t)
  PROVE  TypeOK'
<1>0. Uses[t] \in Instance
  BY FileAssumption
<1>1. CASE TakeSnapshot(t)
  BY <1>0, <1>1 DEF TypeOK, TakeSnapshot, told, bounds
<1>2. CASE Replace(t)
  BY <1>0, <1>2 DEF TypeOK, Replace, told, bounds
<1>3. CASE WriteFails(t)
  BY <1>0, <1>3, FileAssumption DEF TypeOK, WriteFails, Mishap, told
<1> QED BY <1>1, <1>2, <1>3 DEF Save

LEMMA OperateKeepsType ==
  ASSUME TypeOK, NEW t \in Thread, Operate(t)
  PROVE  TypeOK'
<1>0. Uses[t] \in Instance
  BY FileAssumption
<1>1. PICK d \in Device, table \in Table :
        /\ Change(t, table)
        /\ \/ announced' = [announced EXCEPT ![d] = @ + 1] /\ UNCHANGED decided
           \/ UNCHANGED told
           \/ \E trusted \in BOOLEAN :
                /\ decided' = [decided EXCEPT ![d] = trusted] /\ UNCHANGED announced
  BY OperateCases
<1>2. memory' \in [Instance -> Table]
  BY <1>1 DEF TypeOK, Change
<1>3. announced' \in [Device -> Nat] /\ decided' \in [Device -> BOOLEAN]
  BY <1>1 DEF TypeOK, told
<1>4. troubles' \subseteq {"overlap", "misread", "unread", "unwritten", "undone"}
  BY <1>1, OverlapFacts DEF TypeOK, Change
<1>5. changes' \in 0 .. MaxChanges
  BY <1>1, FileAssumption DEF TypeOK, Change
<1>6. /\ pc' \in [Thread -> {"idle", "save", "write"}]
      /\ \A s \in Thread : pc'[s] # "idle" => Uses[s] \in up'
  BY <1>0, <1>1 DEF TypeOK, Change
<1> QED BY <1>1, <1>2, <1>3, <1>4, <1>5, <1>6 DEF TypeOK, Change

-----------------------------------------------------------------------------
(* One lemma per action for the rest of the invariant.                      *)
LEMMA LoadKeeps ==
  ASSUME IInv, NEW i \in Instance, Load(i) \/ Misread(i)
  PROVE  IInv'
<1>0. TypeOK /\ TypeOK'
  BY LoadKeepsType DEF IInv
<1>1. /\ up' = up \cup {i} /\ i \notin up /\ file' = file
      /\ UNCHANGED <<threads, told>>
      /\ troubles \subseteq troubles'
      /\ up # {} => "overlap" \in troubles'
  BY OverlapFacts DEF Load, Misread
<1>2. /\ "misread" \notin troubles' \/ ~Unread' => memory'[i] = file
      /\ \A j \in Instance : j # i => memory'[j] = memory[j]
  BY <1>0 DEF Load, Misread, Unread, TypeOK
<1>3. "overlap" \notin troubles' => up' = {i}
  BY <1>1
<1>4. Single'
  BY <1>3 DEF Single, Apart
<1>5. Missed'
  BY <1>1 DEF IInv, Missed, Unread, Load, Misread, Overlap
<1>6. Current'
  <2> SUFFICES ASSUME Apart', NEW t \in Thread, pc'[t] = "write"
               PROVE  snapshot'[t] = memory'[Uses'[t]]
    BY DEF Current
  <2>1. Apart /\ pc[t] = "write" /\ snapshot'[t] = snapshot[t]
    BY <1>1 DEF Apart, threads
  <2>2. Uses[t] \in up /\ Uses[t] \in Instance
    BY <1>0, <2>1, FileAssumption DEF TypeOK
  <2> QED BY <1>1, <1>2, <2>1, <2>2 DEF IInv, Current
<1>7. Grown'
  BY <1>2, <1>1, <1>3 DEF Grown, Sound, Apart
<1>8. FileCatchesUp'
  BY <1>1, <1>2, <1>3 DEF FileCatchesUp, Apart, Passing, Unread
<1>9. Decided'
  BY <1>1, <1>2, <1>3 DEF Decided, Sound, Apart
<1>10. Remembered'
  <2> SUFFICES ASSUME troubles' \subseteq {"unwritten"}, NEW d \in Device, announced'[d] # 0
               PROVE  /\ announced'[d] = 1 /\ up' # {}
                      /\ \A j \in up' : d \in DOMAIN memory'[j]
    BY DEF Remembered
  <2>1. up = {} /\ up' = {i} /\ troubles \subseteq {"unwritten"} /\ memory'[i] = file
    BY <1>1, <1>2, <1>3
  <2>2. announced[d] = 1 /\ d \in DOMAIN file /\ announced' = announced
    BY <1>1, <2>1 DEF IInv, Remembered, told
  <2> QED BY <2>1, <2>2
<1> QED BY <1>0, <1>4, <1>5, <1>6, <1>7, <1>8, <1>9, <1>10 DEF IInv

LEMMA ExitKeeps ==
  ASSUME IInv, NEW i \in Instance, Exit(i)
  PROVE  IInv'
<1>0. TypeOK /\ TypeOK'
  BY ExitKeepsType DEF IInv
<1>1. /\ i \in up /\ up' = up \ {i} /\ UNCHANGED <<file, snapshot, told>>
      /\ troubles \ Passing \subseteq troubles' /\ troubles' \cap Passing = {}
      /\ "overlap" \in troubles' => "overlap" \in troubles
      /\ "unwritten" \in troubles => "undone" \in troubles'
      /\ (\E t \in ThreadsOf(i) : pc[t] # "idle") => "undone" \in troubles'
  BY DEF Exit, Passing
<1>2. "overlap" \notin troubles' => up = {i} /\ up' = {}
  BY <1>1 DEF IInv, Single, Apart, Passing
<1>3. Single' /\ Grown' /\ Decided' /\ FileCatchesUp'
  BY <1>1, <1>2 DEF Single, Apart, Grown, Decided, Sound, FileCatchesUp
<1>6. Missed'
  BY <1>1 DEF Missed, Unread, Passing
<1>4. Current'
  <2> SUFFICES ASSUME Apart', NEW t \in Thread, pc'[t] = "write"
               PROVE  FALSE
    BY DEF Current
  <2> QED BY <1>0, <1>2 DEF Apart, TypeOK
<1>5. Remembered'
  <2> SUFFICES ASSUME troubles' \subseteq {"unwritten"}, NEW d \in Device, announced'[d] # 0
               PROVE  announced'[d] = 1 /\ d \in DOMAIN file' /\ up' = {}
    BY DEF Remembered
  <2>1. /\ troubles = {} /\ up = {i} /\ up' = {}
        /\ \A t \in ThreadsOf(i) : pc[t] = "idle"
    <3>1. troubles' = {} /\ troubles \subseteq Passing
      BY <1>1 DEF Passing
    <3>2. "unwritten" \notin troubles /\ "misread" \notin troubles
      BY <1>1, <3>1 DEF Passing
    <3> QED BY <1>1, <1>2, <3>1, <3>2 DEF IInv, Missed, Unread, Passing
  <2>2. AtRest
    BY <1>0, <2>1 DEF AtRest, ThreadsOf, TypeOK
  <2>3. file = memory[i]
    BY <2>1, <2>2 DEF IInv, FileCatchesUp, Apart, Passing
  <2>4. announced[d] = 1 /\ d \in DOMAIN memory[i]
    BY <1>1, <2>1 DEF IInv, Remembered, told
  <2> QED BY <1>1, <2>1, <2>3, <2>4 DEF told
<1> QED BY <1>0, <1>3, <1>4, <1>5, <1>6 DEF IInv

LEMMA SaveKeeps ==
  ASSUME IInv, NEW t \in Thread, Save(t)
  PROVE  IInv'
<1>0. TypeOK /\ TypeOK' /\ Uses[t] \in up /\ Uses[t] \in Instance
  BY SaveKeepsType, FileAssumption DEF IInv, TypeOK, Save, TakeSnapshot, Replace, WriteFails
<1>1. CASE TakeSnapshot(t)
  <2>1. /\ UNCHANGED <<up, memory, file, told, troubles>> /\ ~AtRest'
        /\ pc' = [pc EXCEPT ![t] = "write"]
        /\ snapshot' = [snapshot EXCEPT ![t] = memory[Uses[t]]]
    BY <1>0, <1>1 DEF TakeSnapshot, AtRest, TypeOK
  <2>2. Current'
    BY <1>0, <2>1 DEF IInv, Current, Apart, TypeOK
  <2> QED BY <1>0, <2>1, <2>2
         DEF IInv, Single, Apart, Grown, Missed, Unread, Sound, FileCatchesUp, Decided,
             Remembered, told
<1>2. CASE Replace(t)
  <2>1. /\ UNCHANGED <<up, memory, snapshot, told>> /\ file' = snapshot[t]
        /\ pc' = [pc EXCEPT ![t] = "idle"] /\ troubles' = troubles \ Passing
        /\ pc[t] = "write"
    BY <1>2 DEF Replace
  <2>2. Apart' => /\ Apart /\ up = {Uses[t]} /\ file' = memory'[Uses[t]]
    BY <1>0, <2>1 DEF IInv, Apart, Single, Current, Passing
  <2>3. Single' /\ Current' /\ Missed'
    BY <1>0, <2>1, <2>2 DEF IInv, Single, Current, Apart, Missed, Unread, Passing, TypeOK
  <2>4. Grown' /\ Decided' /\ FileCatchesUp'
    BY <2>1, <2>2 DEF Grown, Decided, FileCatchesUp, Apart, Sound
  <2>5. Remembered'
    BY <2>1, <2>2 DEF IInv, Remembered, Apart, Missed, Unread, Passing, told
  <2> QED BY <1>0, <2>3, <2>4, <2>5 DEF IInv
<1>3. CASE WriteFails(t)
  <2>1. /\ UNCHANGED <<up, memory, file, snapshot, told>>
        /\ pc' = [pc EXCEPT ![t] = "idle"] /\ troubles' = troubles \cup {"unwritten"}
    BY <1>3 DEF WriteFails
  <2>2. Single' /\ Current' /\ Missed'
    BY <1>0, <2>1 DEF IInv, Single, Current, Apart, Missed, Unread, TypeOK
  <2>3. Grown' /\ Decided' /\ FileCatchesUp'
    BY <2>1 DEF IInv, Grown, Decided, FileCatchesUp, Sound, Apart, Unread, Passing, told
  <2>4. Remembered'
    BY <2>1 DEF IInv, Remembered, told
  <2> QED BY <1>0, <2>2, <2>3, <2>4 DEF IInv
<1> QED BY <1>1, <1>2, <1>3 DEF Save

LEMMA OperateKeeps ==
  ASSUME IInv, NEW t \in Thread, Operate(t)
  PROVE  IInv'
<1> DEFINE i == Uses[t]
<1>0. TypeOK /\ TypeOK' /\ i \in Instance
  BY OperateKeepsType, FileAssumption DEF IInv
<1>1. PICK d \in Device, table \in Table :
        /\ Change(t, table)
        /\ DOMAIN memory[i] \subseteq DOMAIN table
        /\ \/ /\ d \notin DOMAIN memory[i] /\ d \in DOMAIN table
              /\ \A e \in DOMAIN memory[i] : table[e] = memory[i][e]
              /\ announced' = [announced EXCEPT ![d] = @ + 1] /\ UNCHANGED decided
           \/ table = memory[i] /\ UNCHANGED told
           \/ \E trusted \in BOOLEAN :
                /\ table[d] = trusted
                /\ \A e \in DOMAIN memory[i] : e # d => table[e] = memory[i][e]
                /\ decided' = [decided EXCEPT ![d] = trusted] /\ UNCHANGED announced
  BY <1>0, OperateCases
<1>2. /\ i \in up /\ pc[t] = "idle" /\ pc' = [pc EXCEPT ![t] = "save"]
      /\ UNCHANGED <<up, file, snapshot>>
      /\ memory' = [memory EXCEPT ![i] = table]
      /\ troubles \subseteq troubles' /\ troubles' \subseteq troubles \cup {"overlap"}
      /\ (\E s \in ThreadsOf(i) : pc[s] = "write") => "overlap" \in troubles'
  BY <1>1, OverlapFacts DEF Change
<1>3. memory'[i] = table /\ \A j \in Instance : j # i => memory'[j] = memory[j]
  BY <1>0, <1>2 DEF TypeOK
<1>4. Single' /\ Missed'
  BY <1>2 DEF IInv, Single, Apart, Missed, Unread
<1>5. "overlap" \notin troubles' => up = {i}
  BY <1>2 DEF IInv, Single, Apart
<1>6. Current'
  <2> SUFFICES ASSUME Apart', NEW s \in Thread, pc'[s] = "write"
               PROVE  snapshot'[s] = memory'[Uses[s]]
    BY DEF Current
  <2>1. Apart /\ pc[s] = "write" /\ Uses[s] # i /\ Uses[s] \in Instance
    BY <1>0, <1>2, FileAssumption DEF Apart, ThreadsOf, TypeOK
  <2> QED BY <1>2, <1>3, <2>1 DEF IInv, Current
<1>7. Grown'
  BY <1>1, <1>2, <1>3, <1>5 DEF IInv, Grown, Sound, Apart, Unread
<1>8. FileCatchesUp'
  BY <1>0, <1>2 DEF FileCatchesUp, AtRest, TypeOK
<1>9. Decided'
  <2> SUFFICES ASSUME Sound', NEW e \in Device, e \in DOMAIN file, memory'[i][e] # file[e]
               PROVE  memory'[i][e] = decided'[e]
    BY <1>2, <1>5 DEF Decided, Sound, Apart
  <2>1. /\ Sound /\ e \in DOMAIN memory[i]
        /\ memory[i][e] # file[e] => memory[i][e] = decided[e]
    BY <1>2 DEF IInv, Grown, Decided, Sound, Apart, Unread
  <2>2. CASE table[e] = memory[i][e] /\ decided' = decided
    BY <1>3, <2>1, <2>2
  <2>3. CASE \E trusted \in BOOLEAN :
               /\ table[d] = trusted
               /\ \A f \in DOMAIN memory[i] : f # d => table[f] = memory[i][f]
               /\ decided' = [decided EXCEPT ![d] = trusted]
    <3>1. PICK trusted \in BOOLEAN :
               /\ table[d] = trusted
               /\ \A f \in DOMAIN memory[i] : f # d => table[f] = memory[i][f]
               /\ decided' = [decided EXCEPT ![d] = trusted]
      BY <2>3
    <3>2. CASE e = d
      BY <1>0, <1>3, <3>1, <3>2 DEF TypeOK
    <3>3. CASE e # d
      BY <1>0, <1>3, <2>1, <3>1, <3>3 DEF TypeOK
    <3> QED BY <3>2, <3>3
  <2> QED BY <1>1, <2>1, <2>2, <2>3 DEF told
<1>10. Remembered'
  <2> SUFFICES ASSUME troubles' \subseteq {"unwritten"}, NEW e \in Device, announced'[e] # 0
               PROVE  announced'[e] = 1 /\ e \in DOMAIN memory'[i]
    BY <1>2, <1>5 DEF Remembered
  <2>1. announced[e] = 0 \/ (announced[e] = 1 /\ e \in DOMAIN memory[i])
    BY <1>2 DEF IInv, Remembered
  <2>2. announced' = announced \/ (announced' = [announced EXCEPT ![d] = @ + 1]
                                     /\ d \notin DOMAIN memory[i] /\ d \in DOMAIN table)
    BY <1>1 DEF told
  <2> QED BY <1>0, <1>1, <1>3, <2>1, <2>2 DEF TypeOK
<1> QED BY <1>0, <1>4, <1>6, <1>7, <1>8, <1>9, <1>10 DEF IInv

-----------------------------------------------------------------------------
LEMMA InitHolds == ASSUME Init PROVE IInv
<1>1. TypeOK
  BY EmptyIsTable, FileAssumption DEF Init, TypeOK
<1>2. Single /\ Current /\ Grown /\ Missed /\ Decided /\ FileCatchesUp /\ Remembered
  BY DEF Init, Single, Current, Grown, Missed, Unread, Decided, FileCatchesUp, Remembered
<1> QED BY <1>1, <1>2 DEF IInv

LEMMA StutterKeeps == ASSUME IInv, UNCHANGED vars PROVE IInv'
<1>1. TypeOK'
  BY DEF IInv, TypeOK, vars, threads, told, bounds
<1>2. Single' /\ Current' /\ Grown' /\ Missed' /\ Decided' /\ FileCatchesUp' /\ Remembered'
  BY DEF IInv, Single, Current, Grown, Missed, Unread, Decided, FileCatchesUp, Remembered,
         AtRest, Apart, Sound, vars, threads, told
<1> QED BY <1>1, <1>2 DEF IInv

LEMMA NextKeeps == ASSUME IInv, Next PROVE IInv'
  BY LoadKeeps, ExitKeeps, SaveKeeps, OperateKeeps DEF Next

(* The inductive invariant: without an overlap one object is in use, what a *)
(* thread is writing is that object's table, and the file never knows more  *)
(* than the table, whatever read, write or exit went wrong.                 *)
THEOREM Inductive == Spec => []IInv
<1>1. Init => IInv
  BY InitHolds
<1>2. IInv /\ [Next]_vars => IInv'
  BY NextKeeps, StutterKeeps
<1> QED BY <1>1, <1>2, PTL DEF Spec

(* Type correctness; a thread saves only for an object in use.              *)
THEOREM TypeCorrect == Spec => []TypeOK
<1>1. IInv => TypeOK
  BY DEF IInv
<1> QED BY <1>1, Inductive, PTL

(* At rest, and without an overlap, the file is the table in memory once    *)
(* one save was done since a read or a write last failed.                   *)
THEOREM FileIsMemory == Spec => []FileCatchesUp
<1>1. IInv => FileCatchesUp
  BY DEF IInv
<1> QED BY <1>1, Inductive, PTL

(* A device is told as FIRST_SEEN once, across restarts, unless its record  *)
(* was lost in one of the named ways.                                       *)
THEOREM FirstSeenAcrossRestarts == Spec => []KnownAfterRestart
<1>1. IInv => KnownAfterRestart
  BY DEF IInv, Remembered, KnownAfterRestart
<1> QED BY <1>1, Inductive, PTL

(* What a step does to the file: nothing, or it puts the table in use there.*)
LEMMA FileSteps ==
  ASSUME IInv, [Next]_vars, Apart', ~Unread
  PROVE  \/ file' = file
         \/ \E i \in up : file' = memory[i] /\ Sound /\ UNCHANGED decided
<1>1. CASE file' = file
  BY <1>1
<1>2. CASE \E t \in Thread : Replace(t)
  <2>1. PICK t \in Thread : Replace(t)
    BY <1>2
  <2>2. Sound /\ Apart /\ pc[t] = "write" /\ file' = snapshot[t] /\ UNCHANGED decided
    BY <2>1 DEF Replace, Sound, Apart, Passing, told
  <2> QED BY <2>2 DEF IInv, Current, TypeOK
<1>3. file' = file \/ \E t \in Thread : Replace(t)
  BY DEF Next, vars, Load, Misread, Exit, Operate, ObserveFirst, Refresh, SetTrusted, Change,
         Save, TakeSnapshot, WriteFails
<1> QED BY <1>1, <1>2, <1>3

(* No save, done, failed or cut short, takes a device out of the file, but  *)
(* the first one done after the file could not be read.                     *)
THEOREM HistoryStays == Spec => HistoryRemains
<1>1. IInv /\ [Next]_vars =>
        [Apart' /\ ~Unread => DOMAIN file \subseteq DOMAIN file']_vars
  BY FileSteps DEF IInv, Grown, Sound
<1> QED BY <1>1, Inductive, PTL DEF Spec, HistoryRemains

(* A device's flag in the file changes only to the operator's decision, or  *)
(* by the first save done after the file could not be read.                 *)
THEOREM TrustStays == Spec => TrustIsTheOperators
<1>1. IInv /\ [Next]_vars =>
        [Apart' /\ ~Unread =>
           \A d \in DOMAIN file \cap DOMAIN file' :
             file'[d] # file[d] => file'[d] = decided[d]]_vars
  <2> SUFFICES ASSUME IInv, [Next]_vars, Apart', ~Unread,
                      NEW d \in DOMAIN file \cap DOMAIN file', file'[d] # file[d]
               PROVE  file'[d] = decided[d]
    OBVIOUS
  <2>1. PICK i \in up : file' = memory[i] /\ Sound
    BY FileSteps
  <2>2. d \in Device
    BY TableFacts DEF IInv, TypeOK
  <2> QED BY <2>1, <2>2 DEF IInv, Decided
<1> QED BY <1>1, Inductive, PTL DEF Spec, TrustIsTheOperators

-----------------------------------------------------------------------------
(* The window: only the worker started last can be alive, no worker runs    *)
(* before it is started, and a monitor is never forgotten without offering  *)
(* Start.                                                                   *)
Final(q) == \E k \in DOMAIN q : q[k] \in {"error", "stopped"}

OnlyLast ==
  /\ \A w \in WorkerId : IsAlive(w) => w = thread
  /\ \A w \in WorkerId : w > thread => worker[w] = "new"
  /\ \A w \in WorkerId : w <= thread => worker[w] # "new"

Offered ==
  /\ monitor = NoWorker => startBtn
  /\ \A w \in WorkerId : worker[w] = "returning" => startBtn \/ Final(queue)
  /\ startBtn \/ (\E w \in WorkerId : IsAlive(w)) \/ Final(queue)

WindowInv == WindowTypeOK /\ OnlyLast /\ Offered

(* A message that ends a run stays in the queue when another one is put.    *)
LEMMA FinalGrows ==
  ASSUME NEW T, NEW q \in Seq(T), NEW e \in T
  PROVE  /\ Append(q, e) \in Seq(T)
         /\ Final(q) => Final(Append(q, e))
         /\ e \in {"error", "stopped"} => Final(Append(q, e))
<1>1. /\ Append(q, e) \in Seq(T)
      /\ Len(Append(q, e)) = Len(q) + 1
      /\ \A k \in 1 .. Len(q) : Append(q, e)[k] = q[k]
      /\ Append(q, e)[Len(q) + 1] = e
  OBVIOUS
<1>2. DOMAIN q = 1 .. Len(q) /\ DOMAIN Append(q, e) = 1 .. (Len(q) + 1) /\ Len(q) \in Nat
  BY <1>1
<1>3. Len(q) + 1 \in DOMAIN Append(q, e) /\ DOMAIN q \subseteq DOMAIN Append(q, e)
  BY <1>2
<1> QED
  BY <1>1, <1>2, <1>3 DEF Final

(* The main thread's actions keep the inductive invariant.                  *)
LEMMA WindowKeepsIInv ==
  ASSUME WindowInv,
         StartMonitor \/ StopMonitor \/ OnClose \/ Destroy \/ Pump
  PROVE  WindowInv'
<1> USE AppAssumption DEF WorkerId, NoWorker
<1>1. CASE StartMonitor
  <2>1. thread + 1 \in WorkerId /\ thread \in Nat
    BY <1>1 DEF WindowInv, WindowTypeOK, StartMonitor
  <2>2. \A w \in WorkerId : ~IsAlive(w)
    BY <1>1 DEF WindowInv, OnlyLast, StartMonitor, ThreadIsAlive
  <2>3. WindowTypeOK'
    <3>1. worker' \in [WorkerId -> {"new", "started", "running", "ended", "returning", "dead"}]
      BY <1>1, <2>1 DEF WindowInv, WindowTypeOK, StartMonitor
    <3>2. thread' \in 0 .. MaxStarts /\ monitor' \in {NoWorker, thread'}
      BY <1>1, <2>1 DEF StartMonitor
    <3>3. /\ stop' \in BOOLEAN /\ startBtn' = FALSE /\ stopBtn' = TRUE
          /\ UNCHANGED <<queue, window>>
      BY <1>1 DEF StartMonitor
    <3> QED
      BY <3>1, <3>2, <3>3 DEF WindowInv, WindowTypeOK
  <2>4. OnlyLast'
    BY <1>1, <2>1, <2>2 DEF WindowInv, WindowTypeOK, OnlyLast, StartMonitor, IsAlive
  <2>5. Offered'
    <3>1. worker'[thread + 1] = "started"
      BY <1>1, <2>1 DEF WindowInv, WindowTypeOK, StartMonitor
    <3>2. \A w \in WorkerId : worker'[w] # "returning"
      BY <1>1, <2>1, <2>2 DEF WindowInv, WindowTypeOK, StartMonitor, IsAlive
    <3>3. (monitor = NoWorker => startBtn)'
      BY <1>1, <2>1 DEF StartMonitor
    <3> QED
      BY <2>1, <3>1, <3>2, <3>3 DEF Offered, IsAlive
  <2> QED
    BY <2>3, <2>4, <2>5 DEF WindowInv
<1>2. CASE StopMonitor
  BY <1>2 DEF WindowInv, WindowTypeOK, OnlyLast, Offered, StopMonitor, IsAlive, Final
<1>3. CASE OnClose
  BY <1>3 DEF WindowInv, WindowTypeOK, OnlyLast, Offered, OnClose, IsAlive, Final
<1>4. CASE Destroy
  BY <1>4 DEF WindowInv, WindowTypeOK, OnlyLast, Offered, Destroy, IsAlive, Final
<1>5. CASE Pump
  <2>1. queue' = <<>> /\ <<>> \in Seq({"event", "error", "stopped"})
    BY <1>5 DEF Pump
  <2>2. CASE Final(queue)
    <3>1. MarkIdle /\ UNCHANGED <<worker, thread, stop, window>>
      BY <1>5, <2>2 DEF Pump, Final
    <3> QED
      BY <2>1, <3>1 DEF WindowInv, WindowTypeOK, OnlyLast, Offered, MarkIdle, IsAlive
  <2>3. CASE ~Final(queue)
    <3>1. UNCHANGED <<worker, thread, monitor, startBtn, stopBtn, stop, window>>
      BY <1>5, <2>3 DEF Pump, Final
    <3> QED
      BY <2>1, <2>3, <3>1 DEF WindowInv, WindowTypeOK, OnlyLast, Offered, IsAlive
  <2> QED
    BY <2>2, <2>3
<1> QED
  BY <1>1, <1>2, <1>3, <1>4, <1>5

(* So do the worker's.                                                      *)
LEMMA WorkerKeepsIInv ==
  ASSUME WindowInv, NEW w \in WorkerId,
         Work(w) \/ DeliverEvent(w) \/ RunRaises(w)
  PROVE  WindowInv'
<1> DEFINE Kind == {"event", "error", "stopped"}
<1> USE AppAssumption DEF WorkerId, NoWorker
<1>1. /\ queue \in Seq(Kind)
      /\ \A e \in Kind : /\ Append(queue, e) \in Seq(Kind)
                         /\ Final(queue) => Final(Append(queue, e))
                         /\ e \in {"error", "stopped"} => Final(Append(queue, e))
  BY FinalGrows DEF WindowInv, WindowTypeOK
<1>2. CASE Begin(w)
  BY <1>2, <1>1 DEF WindowInv, WindowTypeOK, OnlyLast, Offered, Begin, Step,
              IsAlive
<1>3. CASE DeliverEvent(w)
  BY <1>3, <1>1 DEF WindowInv, WindowTypeOK, OnlyLast, Offered, DeliverEvent, Step,
              Put, IsAlive
<1>4. CASE RunEnds(w)
  BY <1>4, <1>1 DEF WindowInv, WindowTypeOK, OnlyLast, Offered, RunEnds, Step,
              IsAlive
<1>5. CASE RunRaises(w)
  BY <1>5, <1>1 DEF WindowInv, WindowTypeOK, OnlyLast, Offered, RunRaises, Step,
              Put, IsAlive
<1>6. CASE PutStopped(w)
  BY <1>6, <1>1 DEF WindowInv, WindowTypeOK, OnlyLast, Offered, PutStopped, Step,
              Put, IsAlive
<1>7. CASE Return(w)
  BY <1>7, <1>1 DEF WindowInv, WindowTypeOK, OnlyLast, Offered, Return, Step,
              IsAlive
<1> QED
  BY <1>2, <1>3, <1>4, <1>5, <1>6, <1>7 DEF Work

LEMMA WindowInductive == WindowSpec => []WindowInv
<1>1. WindowInit => WindowInv
  <2>1. <<>> \in Seq({"event", "error", "stopped"})
    OBVIOUS
  <2>2. WindowInit => WindowTypeOK
    <3> SUFFICES ASSUME WindowInit PROVE WindowTypeOK
      OBVIOUS
    <3>1. worker \in [WorkerId -> {"new", "started", "running", "ended", "returning", "dead"}]
      BY DEF WindowInit
    <3>2. thread \in 0 .. MaxStarts /\ monitor \in {NoWorker, thread}
      BY AppAssumption DEF WindowInit, NoWorker
    <3>3. queue \in Seq({"event", "error", "stopped"})
      BY <2>1 DEF WindowInit
    <3> QED
      BY <3>1, <3>2, <3>3 DEF WindowInit, WindowTypeOK
  <2>3. WindowInit => OnlyLast /\ Offered
    BY AppAssumption DEF WindowInit, OnlyLast, Offered, IsAlive, WorkerId,
           NoWorker
  <2> QED
    BY <2>2, <2>3 DEF WindowInv
<1>2. WindowInv /\ [WindowNext]_windowVars => WindowInv'
  <2> SUFFICES ASSUME WindowInv, [WindowNext]_windowVars PROVE WindowInv'
    OBVIOUS
  <2>1. CASE UNCHANGED windowVars
    BY <2>1 DEF windowVars, WindowInv, WindowTypeOK, OnlyLast, Offered, IsAlive, Final
  <2>2. CASE WindowNext
    BY <2>2, WindowKeepsIInv, WorkerKeepsIInv DEF WindowNext
  <2> QED
    BY <2>1, <2>2
<1> QED
  BY <1>1, <1>2, PTL DEF WindowSpec

(* Types; Start and Stop are never both enabled.                            *)
THEOREM WindowTypeCorrect == WindowSpec => []WindowTypeOK
<1>1. WindowInv => WindowTypeOK
  BY DEF WindowInv
<1> QED
  BY <1>1, WindowInductive, PTL

(* At most one watcher runs, however Start, Stop and the workers' ends      *)
(* interleave (start_monitor's is_alive test).                              *)
THEOREM AtMostOneWorker == WindowSpec => []OneWorker
<1>1. ASSUME WindowInv PROVE OneWorker
  <2>1. Alive \subseteq {thread}
    BY <1>1 DEF WindowInv, OnlyLast, Alive
  <2>2. IsFiniteSet({thread}) /\ Cardinality({thread}) = 1
    BY FS_Singleton
  <2>3. Cardinality(Alive) <= 1
    BY <2>1, <2>2, FS_Subset, FS_CardinalityType
  <2> QED
    BY <2>3 DEF OneWorker
<1> QED
  BY <1>1, WindowInductive, PTL

(* The operator can always start, wait for a worker to end, or has its last *)
(* message coming (_mark_idle).                                             *)
THEOREM StartComesBack == WindowSpec => []NeverLockedOut
<1>1. WindowInv => NeverLockedOut
  BY DEF WindowInv, Offered, NeverLockedOut, Alive, Final
<1> QED
  BY <1>1, WindowInductive, PTL
=============================================================================
