--------------------------- MODULE TuiClientProofs ---------------------------
(***************************************************************************)
(* Proofs about the terminal UI, for any number of accounts, threads and   *)
(* events and any length of the channel.  The stamps of an index are no    *)
(* later than its version: so a snapshot that equals a held list is no     *)
(* older than the edit that is held.                                       *)
(***************************************************************************)
EXTENDS TuiClient, FiniteSetTheorems, TLAPS

Stamped(i, n) == \A a \in Accounts : i[a].stamp <= n

(* The data: types, clocks and what the histories promise. *)
DataTypeOK ==
  /\ daemon \in BOOLEAN /\ notified \in BOOLEAN
  /\ attached \in BOOLEAN /\ pending \in BOOLEAN /\ alone \in BOOLEAN
  /\ index \in Index /\ file \in Index /\ list \in Index
  /\ used \subseteq Accounts
  /\ updates \in Seq(Update)
  /\ now \in Nat /\ version \in Nat /\ shown \in Nat /\ promised \in Nat
  /\ wish \in [Accounts -> Standing \cup {"none"}]

ClocksFit ==
  /\ promised <= version /\ version <= now
  /\ Stamped(index, version) /\ Stamped(list, now) /\ Stamped(file, now)

QueueFits ==
  /\ InOrder
  /\ \A i \in 1..Len(updates) : updates[i].up =>
       Stamped(updates[i].index, updates[i].version) /\ updates[i].version <= version

LonelyFits ==
  /\ alone => ~daemon /\ \A i \in 1..Len(updates) : ~updates[i].up
  /\ LocalDecisionsKept

DataInv ==
  DataTypeOK /\ ClocksFit /\ QueueFits /\ Kept /\ ScreenKeepsEdits /\ LonelyFits

(* The rest of the terminal's state. *)
OwnedFits ==
  /\ owned \in Owned \cup {NotOwned}
  /\ owned # NotOwned => Stamped(owned.seed, now)

DialogFits ==
  /\ dialog \in Dialog \cup {NoDialog}
  /\ dialog # NoDialog /\ ~dialog.moved => Selected(order) = {dialog.target}

CheckingFits ==
  /\ checking \in Checking
  /\ checking.on => dialog = NoDialog
  /\ checking.on \/ checking = NotChecking

UiInv ==
  /\ open \in BOOLEAN /\ requests \in [Slots -> Request \cup {NoRequest}]
  /\ OwnedFits /\ DialogFits /\ CheckingFits

OrdersFit == ranking \in Seq(Accounts) /\ order \in Seq(Accounts)

LEMMA GoneType == Gone \in Account /\ Nothing \in Index /\ Disconnected \in Update
  BY DEF Gone, Nothing, Disconnected, Update, Index, Account, Standing

LEMMA MovedType ==
  ASSUME NEW x \in Account, NEW s \in Standing, now \in Nat
  PROVE  /\ Moved(x, s) \in Account /\ Moved(x, s).stamp = now + 1
         /\ Touched(x) \in Account /\ Touched(x).stamp = now + 1
         /\ Touched(x).standing = x.standing
<1>1. Touched(x) \in Account /\ Touched(x).stamp = now + 1 /\ Touched(x).standing = x.standing
  BY DEF Touched, Account
<1> DEFINE y == [x EXCEPT !.standing = s]
<1>2. y \in Account
  BY DEF Account
<1>3. Moved(x, s) = [y EXCEPT !.stamp = now + 1]
  BY DEF Moved
<1> HIDE DEF y
<1>4. [y EXCEPT !.stamp = now + 1] \in Account /\ [y EXCEPT !.stamp = now + 1].stamp = now + 1
  BY <1>2 DEF Account
<1> QED
  BY <1>1, <1>3, <1>4

(* What Commit and an edit make of an index. *)
LEMMA AfterType ==
  ASSUME NEW i \in Index, NEW a \in Accounts, NEW kind, now \in Nat
  PROVE  /\ After(i, a, kind) \in Index
         /\ \A n \in Nat : Stamped(i, n) /\ n <= now => Stamped(After(i, a, kind), now + 1)
         /\ \A b \in Accounts \ {a} : After(i, a, kind)[b] = i[b]
         /\ kind # "delete" => After(i, a, kind)[a].stamp = now + 1
<1> DEFINE new == IF kind = "delete" THEN Gone
                  ELSE IF i[a].standing = "gone" THEN [standing |-> "out", stamp |-> now + 1]
                  ELSE IF kind = "import_disabled" THEN Moved(i[a], "out")
                  ELSE Touched(i[a])
<1>1. i[a] \in Account
  BY DEF Index
<1>2. new \in Account /\ new.stamp <= now + 1 /\ (kind # "delete" => new.stamp = now + 1)
  <2>1. CASE kind = "delete"
    BY <2>1, GoneType DEF Gone
  <2>2. CASE kind # "delete"
    <3>1. [standing |-> "out", stamp |-> now + 1] \in Account /\ "out" \in Standing
      BY DEF Account, Standing
    <3>2. /\ Moved(i[a], "out") \in Account /\ Moved(i[a], "out").stamp = now + 1
          /\ Touched(i[a]) \in Account /\ Touched(i[a]).stamp = now + 1
      <4>1. i[a].standing \in Standing
        BY <1>1 DEF Account
      <4> QED
        BY <1>1, <3>1, <4>1, MovedType
    <3>3. new \in {[standing |-> "out", stamp |-> now + 1], Moved(i[a], "out"), Touched(i[a])}
      BY <2>2
    <3> QED
      BY <3>1, <3>2, <3>3
  <2> QED
    BY <2>1, <2>2
<1>3. After(i, a, kind) = [i EXCEPT ![a] = new]
  BY DEF After
<1> HIDE DEF new
<1>4. \A b \in Accounts : [i EXCEPT ![a] = new][b] = IF b = a THEN new ELSE i[b]
  BY DEF Index
<1>5. [i EXCEPT ![a] = new] \in Index
  BY <1>2 DEF Index
<1>6. \A n \in Nat : Stamped(i, n) /\ n <= now => Stamped([i EXCEPT ![a] = new], now + 1)
  <2> TAKE n \in Nat
  <2> HAVE Stamped(i, n) /\ n <= now
  <2> SUFFICES ASSUME NEW b \in Accounts
               PROVE  [i EXCEPT ![a] = new][b].stamp <= now + 1
    BY DEF Stamped
  <2>1. i[b].stamp \in Nat /\ i[b].stamp <= n
    BY DEF Stamped, Index, Account
  <2> QED
    BY <2>1, <1>2, <1>4
<1> QED
  BY <1>2, <1>3, <1>4, <1>5, <1>6

(* A step that leaves the data alone but for the clock. *)
LEMMA StutterKeepsData ==
  ASSUME DataInv, now' \in {now, now + 1}, attached' \in BOOLEAN,
         UNCHANGED <<copies, screen, outside, updates>>
  PROVE  DataInv'
<1> USE DEF copies, screen, outside
<1>1. DataTypeOK'
  BY DEF DataInv, DataTypeOK
<1>2. ClocksFit'
  <2>1. \A a \in Accounts : list[a].stamp \in Nat /\ file[a].stamp \in Nat
    BY DEF DataInv, DataTypeOK, Index, Account
  <2> QED
    BY <2>1 DEF DataInv, DataTypeOK, ClocksFit, Stamped
<1> QED
  BY <1>1, <1>2 DEF DataInv, QueueFits, InOrder, Kept, ScreenKeepsEdits, LonelyFits,
                    LocalDecisionsKept, Stamped

LEMMA QueueType ==
  ASSUME DataInv
  PROVE  /\ Len(updates) \in Nat
         /\ \A i \in 1..Len(updates) : updates[i] \in Update /\ updates[i].version \in Nat
<1>1. updates \in Seq(Update)
  BY DEF DataInv, DataTypeOK
<1>2. \A i \in 1..Len(updates) : updates[i] \in Update
  BY <1>1
<1> QED
  BY <1>1, <1>2 DEF Update

(* A commit of the daemon: the queue stays behind the version. *)
LEMMA CommitKeepsQueue ==
  ASSUME DataInv, NEW n \in Nat, version' = n, version <= n, updates' = updates
  PROVE  QueueFits'
<1>1. \A i \in 1..Len(updates) : updates[i].version \in Nat
  BY QueueType
<1> QED
  BY <1>1 DEF DataInv, DataTypeOK, QueueFits, InOrder, Stamped

LEMMA CommitKeepsData ==
  ASSUME DataInv, daemon, NEW i \in Index, NEW orders, Stamped(i, now + 1), Commit(i, orders),
         now' = now + 1,
         UNCHANGED <<list, pending, promised, attached, outside, updates>>,
         shown' \in {shown, version'}
  PROVE  DataInv'
<1> USE DEF outside
<1>1. DataTypeOK'
  <2>1. /\ version' \in Nat /\ shown' \in Nat /\ now' \in Nat /\ promised' \in Nat
        /\ index' \in Index /\ file' \in Index /\ list' \in Index /\ notified' = FALSE
    BY DEF DataInv, DataTypeOK, Commit
  <2>2. updates' \in Seq(Update) /\ wish' \in [Accounts -> Standing \cup {"none"}]
    BY DEF DataInv, DataTypeOK
  <2> QED
    BY <2>1, <2>2 DEF DataInv, DataTypeOK
<1>2. ClocksFit'
  <2>1. \A a \in Accounts : list[a].stamp \in Nat
    BY DEF DataInv, DataTypeOK, Index, Account
  <2> QED
    BY <2>1 DEF DataInv, DataTypeOK, ClocksFit, Stamped, Commit
<1>3. QueueFits'
  BY CommitKeepsQueue DEF DataInv, DataTypeOK, ClocksFit, Commit
<1>4. Kept' /\ LonelyFits'
  BY DEF DataInv, Kept, LonelyFits, LocalDecisionsKept
<1>5. ScreenKeepsEdits'
  BY DEF DataInv, DataTypeOK, ClocksFit, ScreenKeepsEdits, Commit
<1> QED
  BY <1>1, <1>2, <1>3, <1>4, <1>5 DEF DataInv

(* A step on the list or the file that leaves the daemon's index alone.    *)
LEMMA LocalKeepsData ==
  ASSUME DataInv, now' \in {now, now + 1},
         list' \in Index, Stamped(list', now'), file' \in Index, Stamped(file', now'),
         \A a \in Accounts : list'[a].stamp >= list[a].stamp \/ promised' = 0,
         pending' \in BOOLEAN, pending => pending', promised' \in {promised, 0},
         notified' \in BOOLEAN, used' \subseteq Accounts,
         wish' \in [Accounts -> Standing \cup {"none"}], LocalDecisionsKept',
         UNCHANGED <<index, version, shown, daemon, attached, alone, updates>>
  PROVE  DataInv'
<1>1. DataTypeOK'
  <2>1. updates' \in Seq(Update) /\ index' \in Index
    BY DEF DataInv, DataTypeOK
  <2>2. now' \in Nat /\ version' \in Nat /\ shown' \in Nat /\ promised' \in Nat
    BY DEF DataInv, DataTypeOK
  <2> QED
    BY <2>1, <2>2 DEF DataInv, DataTypeOK
<1>2. ClocksFit'
  BY DEF DataInv, DataTypeOK, ClocksFit, Stamped
<1>3. QueueFits'
  BY DEF DataInv, QueueFits, InOrder, Stamped
<1>4. Kept'
  <2>1. CASE promised' = 0
    BY <2>1, QueueType DEF Kept
  <2>2. CASE promised' = promised /\ promised' # 0
    <3>1. CASE pending /\ \E a \in Accounts : list[a].stamp >= promised
      <4>1. PICK a \in Accounts : list[a].stamp >= promised
        BY <3>1
      <4>2. list[a].stamp \in Nat /\ list'[a].stamp \in Nat /\ promised \in Nat
        BY DEF DataInv, DataTypeOK, Index, Account
      <4>3. list'[a].stamp >= promised'
        BY <2>2, <4>1, <4>2
      <4> QED
        BY <3>1, <4>3 DEF Kept
    <3>2. CASE \A i \in 1..Len(updates) : updates[i].up => updates[i].version >= promised
      BY <3>2, <2>2 DEF Kept
    <3> QED
      BY <3>1, <3>2 DEF DataInv, Kept
  <2> QED
    BY <2>1, <2>2
<1>5. ScreenKeepsEdits' /\ LonelyFits'
  BY DEF DataInv, DataTypeOK, ScreenKeepsEdits, LonelyFits
<1> QED
  BY <1>1, <1>2, <1>3, <1>4, <1>5 DEF DataInv

LEMMA RemoteEditKeepsData ==
  ASSUME DataInv, NEW a \in Accounts, NEW kind, NEW answer \in Answers, NEW held \in BOOLEAN,
         Edit(a, kind, answer, held), daemon, now' = now + 1,
         UNCHANGED <<daemon, attached, alone, updates>>
  PROVE  DataInv'
<1> DEFINE new == After(index, a, kind)
<1>1. RemoteEdit(a, kind, answer)
  BY DEF Edit, LocalEdit
<1>2. /\ new \in Index /\ Stamped(new, now + 1)
      /\ kind # "delete" => new[a].stamp = now + 1
  <2>1. version \in Nat /\ version <= now /\ Stamped(index, version) /\ index \in Index /\ now \in Nat
    BY DEF DataInv, DataTypeOK, ClocksFit
  <2> QED
    BY <2>1, AfterType
<1>3. /\ pending' \in BOOLEAN /\ (pending => pending') /\ used' \subseteq Accounts /\ wish' = wish
  BY <1>1 DEF Edit, RemoteEdit, DataInv, DataTypeOK
<1> HIDE DEF new
<1>4. CASE answer = "refused"
  <2>1. UNCHANGED <<copies, list, shown, promised>>
    BY <1>1, <1>4 DEF RemoteEdit, Edit
  <2>2. Stamped(list, now + 1) /\ Stamped(file, now + 1) /\ list \in Index /\ file \in Index
    BY DEF DataInv, DataTypeOK, ClocksFit, Stamped, Index, Account
  <2>3. \A b \in Accounts : list[b].stamp >= list[b].stamp
    BY DEF DataInv, DataTypeOK, Index, Account
  <2>4. LocalDecisionsKept'
    BY <1>3, <2>1 DEF copies, DataInv, LonelyFits, LocalDecisionsKept
  <2> QED
    BY <1>3, <2>1, <2>2, <2>3, <2>4, LocalKeepsData DEF copies, DataInv, DataTypeOK
<1>5. CASE answer # "refused"
  <2>1. Commit(new, Ranked(a, kind))
    BY <1>1, <1>5 DEF RemoteEdit, new
  <2>2. \/ answer = "ok" /\ list' = new /\ shown' = now + 1
        \/ answer = "lost" /\ list' = list /\ shown' = shown /\ promised' = promised
    BY <1>1, <1>5, <2>1 DEF RemoteEdit, Commit, Answers, Edit
  <2>3. promised' \in {0, promised, now + 1} /\ (promised' = now + 1 => pending' /\ kind # "delete" /\ answer = "ok")
        /\ (kind = "delete" /\ answer = "ok" => promised' = 0)
    BY <1>1 DEF Edit, DataInv, DataTypeOK, ClocksFit
  <2>4. DataTypeOK'
    <3>1. /\ version' \in Nat /\ shown' \in Nat /\ now' \in Nat /\ promised' \in Nat
          /\ index' \in Index /\ file' \in Index /\ list' \in Index /\ notified' = FALSE
      BY <1>2, <2>1, <2>2, <2>3 DEF DataInv, DataTypeOK, Commit
    <3>2. updates' \in Seq(Update) /\ wish' \in [Accounts -> Standing \cup {"none"}]
      BY <1>3 DEF DataInv, DataTypeOK
    <3> QED
      BY <1>3, <3>1, <3>2 DEF DataInv, DataTypeOK
  <2>5. ClocksFit'
    <3>1. \A b \in Accounts : list[b].stamp \in Nat
      BY DEF DataInv, DataTypeOK, Index, Account
    <3> QED
      BY <1>2, <2>1, <2>2, <2>3, <3>1 DEF DataInv, DataTypeOK, ClocksFit, Stamped, Commit
  <2>6. QueueFits'
    BY <2>1, CommitKeepsQueue DEF DataInv, DataTypeOK, ClocksFit, Commit
  <2>7. Kept'
    <3>1. CASE promised' = 0
      BY <3>1, QueueType DEF Kept
    <3>2. CASE promised' # 0 /\ answer = "ok" /\ pending'
      <4>1. list'[a].stamp = now + 1 /\ promised' <= now + 1
        BY <1>2, <2>2, <2>3, <3>2 DEF DataInv, DataTypeOK, ClocksFit
      <4> QED
        BY <3>2, <4>1, <2>4 DEF Kept, DataTypeOK
    <3>3. CASE promised' = promised /\ answer = "ok" /\ ~pending'
      BY <1>3, <3>3 DEF DataInv, Kept
    <3>4. CASE answer = "lost"
      BY <1>3, <2>2, <3>4 DEF DataInv, Kept
    <3> QED
      BY <2>2, <2>3, <3>1, <3>2, <3>3, <3>4, <1>3
  <2>8. ScreenKeepsEdits'
    BY <2>2, <2>3 DEF DataInv, DataTypeOK, ClocksFit, ScreenKeepsEdits
  <2>9. LonelyFits'
    BY DEF DataInv, LonelyFits, LocalDecisionsKept
  <2> QED
    BY <2>4, <2>5, <2>6, <2>7, <2>8, <2>9 DEF DataInv
<1> QED
  BY <1>4, <1>5

LEMMA LocalEditKeepsData ==
  ASSUME DataInv, NEW a \in Accounts, NEW kind, NEW answer \in Answers, NEW held \in BOOLEAN,
         Edit(a, kind, answer, held), ~daemon, now' = now + 1,
         UNCHANGED <<daemon, attached, alone, updates>>
  PROVE  DataInv'
<1> DEFINE new == After(list, a, kind)
<1>1. LocalEdit(a, kind, answer)
  BY DEF Edit, RemoteEdit
<1>2. /\ new \in Index /\ Stamped(new, now + 1)
      /\ \A b \in Accounts \ {a} : new[b] = list[b]
      /\ kind # "delete" => new[a].stamp = now + 1
  BY AfterType DEF DataInv, DataTypeOK, ClocksFit
<1> HIDE DEF new
<1>3. /\ pending' \in BOOLEAN /\ (pending => pending') /\ used' \subseteq Accounts
      /\ UNCHANGED <<index, notified, version, shown>>
      /\ promised' \in {promised, 0} /\ (kind = "delete" /\ answer = "ok" => promised' = 0)
  BY <1>1 DEF Edit, LocalEdit, DataInv, DataTypeOK
<1>4. /\ Stamped(list, now + 1) /\ Stamped(file, now + 1) /\ list \in Index /\ file \in Index
      /\ \A b \in Accounts : list[b].stamp \in Nat /\ list[b].stamp <= now /\ list[b].standing \in Standing
  BY DEF DataInv, DataTypeOK, ClocksFit, Stamped, Index, Account
<1>5. CASE answer = "refused"
  <2>1. UNCHANGED <<list, file, wish>>
    BY <1>1, <1>5 DEF LocalEdit
  <2>2. LocalDecisionsKept'
    BY <2>1 DEF DataInv, LonelyFits, LocalDecisionsKept
  <2> QED
    BY <1>3, <1>4, <2>1, <2>2, LocalKeepsData DEF DataInv, DataTypeOK
<1>6. CASE answer = "ok"
  <2>1. /\ list' = new /\ file' = new
        /\ wish' = IF alone THEN [wish EXCEPT ![a] = new[a].standing] ELSE wish
    BY <1>1, <1>6 DEF LocalEdit, new
  <2>2. \A b \in Accounts : list'[b].stamp >= list[b].stamp \/ promised' = 0
    BY <1>2, <1>3, <1>4, <1>6, <2>1 DEF DataInv, DataTypeOK
  <2>3. wish' \in [Accounts -> Standing \cup {"none"}]
    BY <1>2, <2>1 DEF DataInv, DataTypeOK, Index, Account
  <2>4. LocalDecisionsKept'
    BY <1>2, <2>1 DEF DataInv, DataTypeOK, LonelyFits, LocalDecisionsKept
  <2> QED
    BY <1>2, <1>3, <2>1, <2>2, <2>3, <2>4, LocalKeepsData DEF DataInv, DataTypeOK
<1> QED
  BY <1>1, <1>5, <1>6 DEF LocalEdit

LEMMA EditKeepsData ==
  ASSUME DataInv, NEW a \in Accounts, NEW kind, NEW answer \in Answers, NEW held \in BOOLEAN,
         Edit(a, kind, answer, held), now' = now + 1,
         UNCHANGED <<daemon, attached, alone, updates>>
  PROVE  DataInv'
  BY RemoteEditKeepsData, LocalEditKeepsData

(* What a bad file leaves in the list is not a decision. *)
LEMMA PartKeepsData ==
  ASSUME DataInv, NEW a \in Accounts, ImportPart(a)
  PROVE  DataInv'
<1>1. PICK kind \in Imports : list' = After(list, a, kind)
  BY DEF ImportPart
<1> DEFINE new == After(list, a, kind)
<1>2. /\ new \in Index /\ Stamped(new, now + 1) /\ new[a].stamp = now + 1
      /\ \A b \in Accounts \ {a} : new[b] = list[b]
  BY AfterType DEF DataInv, DataTypeOK, ClocksFit, Imports
<1> HIDE DEF new
<1>3. /\ list' = new /\ now' = now + 1 /\ wish' = [wish EXCEPT ![a] = "none"]
      /\ used' \subseteq Accounts
      /\ UNCHANGED <<index, file, notified, version, shown, pending, promised, attached,
                     daemon, alone, updates>>
  BY <1>1 DEF new, ImportPart, Key, Event, Tick, copies, ui, DataInv, DataTypeOK
<1>4. /\ Stamped(file, now + 1)
      /\ \A b \in Accounts : list[b].stamp \in Nat /\ list[b].stamp <= now
  BY DEF DataInv, DataTypeOK, ClocksFit, Stamped, Index, Account
<1>5. \A b \in Accounts : list'[b].stamp >= list[b].stamp
  BY <1>2, <1>3, <1>4 DEF DataInv, DataTypeOK
<1>6. wish' \in [Accounts -> Standing \cup {"none"}]
  BY <1>3 DEF DataInv, DataTypeOK
<1>7. LocalDecisionsKept'
  BY <1>2, <1>3 DEF DataInv, DataTypeOK, LonelyFits, LocalDecisionsKept
<1> QED
  BY <1>2, <1>3, <1>4, <1>5, <1>6, <1>7, LocalKeepsData DEF DataInv, DataTypeOK

(* The daemon or the terminal ends. *)
LEMMA EndKeepsData ==
  ASSUME DataInv, now' \in {now, now + 1}, file' \in {file, list}, notified' \in BOOLEAN,
         daemon' \in BOOLEAN, daemon' => daemon, updates' \in {<<>>, updates},
         UNCHANGED <<index, version, screen, attached, used, alone, wish>>
  PROVE  DataInv'
<1> USE DEF screen
<1>1. DataTypeOK'
  <2>1. index' \in Index /\ file' \in Index /\ list' \in Index
    BY DEF DataInv, DataTypeOK
  <2>3. updates' \in Seq(Update)
    <3>1. updates \in Seq(Update) /\ <<>> \in Seq(Update)
      BY DEF DataInv, DataTypeOK
    <3> QED
      BY <3>1
  <2>2. now' \in Nat /\ version' \in Nat /\ shown' \in Nat /\ promised' \in Nat
    BY DEF DataInv, DataTypeOK
  <2> QED
    BY <2>1, <2>2, <2>3 DEF DataInv, DataTypeOK
<1>2. ClocksFit'
  <2>1. \A a \in Accounts : list[a].stamp \in Nat /\ file[a].stamp \in Nat
    BY DEF DataInv, DataTypeOK, Index, Account
  <2> QED
    BY <2>1 DEF DataInv, DataTypeOK, ClocksFit, Stamped
<1>3. QueueFits' /\ Kept'
  <2>1. CASE updates' = updates
    BY <2>1 DEF DataInv, QueueFits, InOrder, Kept, Stamped
  <2>2. CASE updates' = <<>>
    BY <2>2 DEF QueueFits, InOrder, Kept
  <2> QED
    BY <2>1, <2>2
<1>4. ScreenKeepsEdits'
  BY DEF DataInv, ScreenKeepsEdits
<1>5. LocalDecisionsKept'
  BY DEF DataInv, LonelyFits, LocalDecisionsKept
<1>6. LonelyFits'
  <2>1. CASE updates' = updates
    BY <2>1, <1>5 DEF DataInv, DataTypeOK, LonelyFits
  <2>2. CASE updates' = <<>>
    BY <2>2, <1>5 DEF DataInv, DataTypeOK, LonelyFits
  <2> QED
    BY <2>1, <2>2
<1> QED
  BY <1>1, <1>2, <1>3, <1>4, <1>6 DEF DataInv

LEMMA ToggleKeepsData ==
  ASSUME DataInv, NEW a \in Accounts, ToggleLocal(a)
  PROVE  DataInv'
<1> DEFINE toggled == Moved(list[a], Flipped(list[a].standing))
           new == [list EXCEPT ![a] = toggled]
<1>1. \A b \in Accounts : list[b] \in Account /\ list[b].stamp \in Nat /\ list[b].stamp <= now
  BY DEF DataInv, DataTypeOK, ClocksFit, Stamped, Index, Account
<1>2. toggled \in Account /\ toggled.stamp = now + 1
  <2>1. Flipped(list[a].standing) \in Standing /\ now \in Nat
    BY DEF Flipped, Standing, DataInv, DataTypeOK
  <2> QED
    BY <1>1, <2>1, MovedType
<1>3. list' = new
  BY DEF ToggleLocal
<1> HIDE DEF toggled
<1>4. \A b \in Accounts : new[b] = IF b = a THEN toggled ELSE list[b]
  BY DEF DataInv, DataTypeOK, Index
<1>5. new \in Index /\ Stamped(new, now + 1) /\ \A b \in Accounts : new[b].stamp >= list[b].stamp
  BY <1>1, <1>2, <1>4 DEF DataInv, DataTypeOK, Index, Stamped
<1> HIDE DEF new
<1>6. Stamped(file, now + 1) /\ file \in Index /\ now + 1 \in Nat
  BY DEF DataInv, DataTypeOK, ClocksFit, Stamped, Index, Account
<1>7. /\ now' = now + 1 /\ notified' \in BOOLEAN
      /\ UNCHANGED <<index, version, shown, pending, promised, attached, daemon, used, alone, updates>>
  BY DEF ToggleLocal, Key, Event, Tick, ui, DataInv, DataTypeOK
<1>8. /\ file' \in {file, new}
      /\ wish' \in [Accounts -> Standing \cup {"none"}]
      /\ LocalDecisionsKept'
  <2>1. CASE /\ file' = list'
             /\ wish' = IF alone THEN [wish EXCEPT ![a] = list'[a].standing] ELSE wish
    <3>1. wish' \in [Accounts -> Standing \cup {"none"}]
      BY <2>1, <1>3, <1>5 DEF DataInv, DataTypeOK, Index, Account
    <3> QED
      BY <2>1, <3>1, <1>3, <1>4, <1>7 DEF DataInv, DataTypeOK, LonelyFits, LocalDecisionsKept
  <2>2. CASE UNCHANGED file /\ wish' = [wish EXCEPT ![a] = "none"]
    <3>1. wish' \in [Accounts -> Standing \cup {"none"}]
      BY <2>2 DEF DataInv, DataTypeOK
    <3> QED
      BY <2>2, <3>1, <1>3, <1>4, <1>7 DEF DataInv, DataTypeOK, LonelyFits, LocalDecisionsKept
  <2> QED
    BY <2>1, <2>2 DEF ToggleLocal
<1> QED
  BY <1>3, <1>5, <1>6, <1>7, <1>8, LocalKeepsData DEF DataInv, DataTypeOK

LEMMA ProbeKeepsData ==
  ASSUME DataInv, NEW a \in Accounts, ProbeCompletes(a)
  PROVE  DataInv'
<1> DEFINE new == [list EXCEPT ![a] = Touched(@)]
<1>1. \A b \in Accounts : list[b] \in Account /\ list[b].stamp \in Nat /\ list[b].stamp <= now
  BY DEF DataInv, DataTypeOK, ClocksFit, Stamped, Index, Account
<1>2. /\ Touched(list[a]) \in Account /\ Touched(list[a]).stamp = now + 1
      /\ Touched(list[a]).standing = list[a].standing
  <2>1. list[a].standing \in Standing /\ now \in Nat
    BY <1>1 DEF Account, DataInv, DataTypeOK
  <2> QED
    BY <1>1, <2>1, MovedType
<1>3. \A b \in Accounts : new[b] = IF b = a THEN Touched(list[a]) ELSE list[b]
  BY DEF DataInv, DataTypeOK, Index
<1>4. new \in Index
  BY <1>1, <1>2 DEF DataInv, DataTypeOK, Index
<1>5. list' \in {list, new}
  BY DEF ProbeCompletes
<1> HIDE DEF new
<1>6. /\ list' \in Index /\ Stamped(list', now + 1)
      /\ \A b \in Accounts : list'[b].stamp >= list[b].stamp /\ list'[b].standing = list[b].standing
  BY <1>1, <1>2, <1>3, <1>4, <1>5 DEF Stamped, DataInv, DataTypeOK
<1>7. Stamped(file, now + 1) /\ file \in Index /\ now + 1 \in Nat
  BY DEF DataInv, DataTypeOK, ClocksFit, Stamped, Index, Account
<1>8. now' = now + 1 /\ UNCHANGED <<copies, shown, pending, promised, attached, outside, updates>>
  BY DEF ProbeCompletes, Tick
<1>9. LocalDecisionsKept'
  BY <1>6, <1>8 DEF outside, copies, DataInv, LonelyFits, LocalDecisionsKept
<1> QED
  BY <1>6, <1>7, <1>8, <1>9, LocalKeepsData DEF copies, outside, DataInv, DataTypeOK

LEMMA FinishKeepsData ==
  ASSUME DataInv, Finish
  PROVE  DataInv'
<1>1. /\ list \in Index /\ now \in Nat /\ file \in Index
      /\ Stamped(list, now) /\ Stamped(list, now + 1)
      /\ \A a \in Accounts : list[a].stamp >= list[a].stamp
  BY DEF DataInv, DataTypeOK, ClocksFit, Stamped, Index, Account
<1>2. UNCHANGED <<list, pending, promised, attached, outside, updates>>
  BY DEF Finish
<1>3. CASE daemon
  BY <1>1, <1>2, <1>3, CommitKeepsData DEF Finish, Tick
<1>4. CASE ~daemon
  <2>1. file' = list /\ UNCHANGED <<index, notified, version, shown, now>>
    BY <1>4 DEF Finish
  <2>2. LocalDecisionsKept'
    BY <1>2, <2>1 DEF outside, DataInv, LonelyFits, LocalDecisionsKept
  <2> QED
    BY <1>1, <1>2, <2>1, <2>2, LocalKeepsData DEF outside, DataInv, DataTypeOK
<1> QED
  BY <1>3, <1>4 DEF DataInv, DataTypeOK

LEMMA LeaveKeepsData ==
  ASSUME DataInv, FinishFails \/ Quit \/ DaemonStops
  PROVE  DataInv'
<1>1. CASE FinishFails
  BY <1>1, EndKeepsData DEF FinishFails, Leave
<1>2. CASE Quit
  BY <1>2, EndKeepsData DEF Quit, Leave, Key, Event, Tick, DataInv, DataTypeOK
<1>3. CASE DaemonStops
  BY <1>3, EndKeepsData DEF DaemonStops, Event, Tick, ui, DataInv, DataTypeOK
<1> QED
  BY <1>1, <1>2, <1>3

(* The threads of enqueue_control, other clients and the hot reloader. *)
LEMMA RequestKeepsData ==
  ASSUME DataInv, NEW s \in Slots, RequestRuns(s), requests[s] \in Request
  PROVE  DataInv'
<1> DEFINE r == requests[s]
           about == r.about \cap Listed(index)
           changed == [a \in Accounts |->
                         IF a \notin about THEN index[a]
                         ELSE IF r.op = "probe" THEN Touched(index[a])
                         ELSE Moved(index[a], r.op)]
<1>1. CASE UNCHANGED <<copies, now>>
  BY <1>1, StutterKeepsData DEF RequestRuns, DataInv, DataTypeOK
<1>2. CASE daemon /\ Commit(changed, {ranking}) /\ Tick
  <2>1. now \in Nat /\ \A a \in Accounts : index[a] \in Account /\ index[a].stamp <= now + 1
    BY DEF DataInv, DataTypeOK, ClocksFit, Stamped, Index, Account
  <2>2. r.op # "probe" => r.op \in Standing
    BY DEF Request, Standing
  <2>3. \A a \in Accounts : index[a].standing \in Standing
    BY <2>1 DEF Account
  <2>4. \A a \in Accounts : changed[a] \in Account /\ changed[a].stamp <= now + 1
    <3> TAKE a \in Accounts
    <3>1. CASE a \notin about
      BY <2>1, <3>1
    <3>2. CASE a \in about /\ r.op = "probe"
      BY <2>1, <2>3, <3>2, MovedType
    <3>3. CASE a \in about /\ r.op # "probe"
      BY <2>1, <2>2, <3>3, MovedType
    <3> QED
      BY <3>1, <3>2, <3>3
  <2>5. changed \in Index /\ Stamped(changed, now + 1)
    BY <2>4 DEF Index, Stamped
  <2>6. UNCHANGED <<list, pending, promised, attached, outside, updates>> /\ shown' = shown
    BY DEF RequestRuns, screen
  <2> HIDE DEF changed
  <2> QED
    BY <1>2, <2>5, <2>6, CommitKeepsData DEF Tick
<1> QED
  BY <1>1, <1>2 DEF RequestRuns

LEMMA OthersKeepData ==
  ASSUME DataInv, NEW a \in Accounts, Others(a)
  PROVE  DataInv'
<1>1. PICK s \in Standing :
        LET changed == [index EXCEPT ![a] = IF s = "gone" THEN Gone ELSE Moved(@, s)]
        IN Commit(changed, Reordered(changed, ranking, Accounts \ {a}))
  BY DEF Others
<1> DEFINE x == IF s = "gone" THEN Gone ELSE Moved(index[a], s)
           new == [index EXCEPT ![a] = x]
<1>2. now \in Nat /\ \A b \in Accounts : index[b] \in Account /\ index[b].stamp <= now + 1
  BY DEF DataInv, DataTypeOK, ClocksFit, Stamped, Index, Account
<1>3. x \in Account /\ x.stamp <= now + 1
  <2>1. CASE s = "gone"
    BY <1>2, <2>1, GoneType DEF Gone
  <2>2. CASE s # "gone"
    <3>1. Moved(index[a], s) \in Account /\ Moved(index[a], s).stamp = now + 1
      BY <1>2, MovedType
    <3> QED
      BY <1>2, <2>2, <3>1
  <2> QED
    BY <2>1, <2>2
<1>4. Commit(new, Reordered(new, ranking, Accounts \ {a}))
  BY <1>1
<1> HIDE DEF x
<1>5. new \in Index
  BY <1>3 DEF Index, DataInv, DataTypeOK
<1>6. \A b \in Accounts : new[b] = IF b = a THEN x ELSE index[b]
  BY DEF Index, DataInv, DataTypeOK
<1>7. Stamped(new, now + 1)
  BY <1>2, <1>3, <1>6 DEF Stamped
<1>8. /\ daemon /\ now' = now + 1
      /\ UNCHANGED <<list, shown, pending, promised, attached, outside, updates>>
  BY DEF Others, Event, Tick, screen, ui
<1> HIDE DEF new
<1> QED
  BY <1>4, <1>5, <1>7, <1>8, CommitKeepsData

LEMMA ReloadKeepsData ==
  ASSUME DataInv, HotReload
  PROVE  DataInv'
<1>1. file \in Index /\ Stamped(file, now + 1)
  BY DEF DataInv, DataTypeOK, ClocksFit, Stamped, Index, Account
<1> QED
  BY <1>1, CommitKeepsData DEF HotReload, Tick, screen, ui

(* A daemon starts: rows of the store and the accounts it is given. *)
LEMMA StartKeepsData ==
  ASSUME DataInv, NEW seed \in Index, Stamped(seed, now), Starts(seed), now' = now + 1
  PROVE  DataInv'
<1> DEFINE new == Reconciled(seed)
<1>1. \A a \in Accounts :
        /\ index[a] \in Account /\ index[a].stamp <= now + 1
        /\ seed[a] \in Account /\ seed[a].stamp <= now + 1
  BY DEF DataInv, DataTypeOK, ClocksFit, Stamped, Index, Account
<1>2. new \in Index /\ Stamped(new, now + 1)
  BY <1>1 DEF Reconciled, Index, Stamped
<1> HIDE DEF new
<1>3. /\ daemon' = TRUE /\ alone' = FALSE /\ index' = new /\ version' = now + 1
      /\ wish' = [a \in Accounts |-> "none"]
      /\ UNCHANGED <<file, notified, used, list, shown, pending, promised, attached, updates>>
  BY DEF Starts, new, screen
<1>4. DataTypeOK'
  <2>1. /\ version' \in Nat /\ shown' \in Nat /\ now' \in Nat /\ promised' \in Nat
        /\ index' \in Index /\ file' \in Index /\ list' \in Index
    BY <1>2, <1>3 DEF DataInv, DataTypeOK
  <2>2. updates' \in Seq(Update) /\ wish' \in [Accounts -> Standing \cup {"none"}]
    BY <1>3 DEF DataInv, DataTypeOK
  <2> QED
    BY <1>3, <2>1, <2>2 DEF DataInv, DataTypeOK
<1>5. ClocksFit'
  <2>1. \A a \in Accounts : list[a].stamp \in Nat /\ file[a].stamp \in Nat
    BY DEF DataInv, DataTypeOK, Index, Account
  <2> QED
    BY <1>2, <1>3, <2>1 DEF DataInv, DataTypeOK, ClocksFit, Stamped
<1>6. QueueFits'
  BY <1>3, CommitKeepsQueue DEF DataInv, DataTypeOK, ClocksFit
<1>7. Kept' /\ ScreenKeepsEdits' /\ LonelyFits'
  BY <1>3 DEF DataInv, Kept, ScreenKeepsEdits, LonelyFits, LocalDecisionsKept
<1> QED
  BY <1>4, <1>5, <1>6, <1>7 DEF DataInv

(* The watcher puts a snapshot of the index, or Disconnected, last. *)
LEMMA WatchKeepsData ==
  ASSUME DataInv, NEW u \in Update, updates' = Append(updates, u),
         u.up => daemon /\ u.index = index /\ u.version = version,
         now' \in {now, now + 1}, UNCHANGED <<copies, screen, outside, attached>>
  PROVE  DataInv'
<1> USE DEF copies, screen, outside
<1>1. /\ updates' \in Seq(Update) /\ Len(updates) \in Nat
      /\ Len(updates') = Len(updates) + 1 /\ updates'[Len(updates) + 1] = u
      /\ \A i \in 1..Len(updates) : updates'[i] = updates[i]
  BY DEF DataInv, DataTypeOK
<1>2. \A i \in 1..Len(updates) : updates[i].version \in Nat
  BY QueueType
<1>3. \A i \in 1..Len(updates') : i \in 1..Len(updates) \/ i = Len(updates) + 1
  BY <1>1
<1>4. DataTypeOK'
  <2>1. now' \in Nat /\ index' \in Index /\ file' \in Index /\ list' \in Index
    BY DEF DataInv, DataTypeOK
  <2> QED
    BY <1>1, <2>1 DEF DataInv, DataTypeOK
<1>5. ClocksFit'
  <2>1. \A a \in Accounts : list[a].stamp \in Nat /\ file[a].stamp \in Nat
    BY DEF DataInv, DataTypeOK, Index, Account
  <2> QED
    BY <2>1 DEF DataInv, DataTypeOK, ClocksFit, Stamped
<1>6. QueueFits'
  <2>1. \A i \in 1..Len(updates') : updates'[i].up =>
          Stamped(updates'[i].index, updates'[i].version) /\ updates'[i].version <= version
    <3> TAKE i \in 1..Len(updates')
    <3>1. CASE i \in 1..Len(updates)
      BY <1>1, <3>1 DEF DataInv, QueueFits
    <3>2. CASE i = Len(updates) + 1
      <4>1. Stamped(index, version) /\ version <= version
        BY DEF DataInv, DataTypeOK, ClocksFit
      <4> QED
        BY <1>1, <3>2, <4>1
    <3> QED
      BY <1>3, <3>1, <3>2
  <2>2. ASSUME NEW i \in 1..Len(updates'), NEW j \in 1..Len(updates'),
               i < j, updates'[i].up, updates'[j].up
        PROVE  updates'[i].version <= updates'[j].version
    <3>1. i \in 1..Len(updates)
      BY <1>1, <2>2
    <3>2. CASE j \in 1..Len(updates)
      BY <1>1, <2>2, <3>1, <3>2 DEF DataInv, QueueFits, InOrder
    <3>3. CASE j = Len(updates) + 1
      BY <1>1, <2>2, <3>1, <3>3 DEF DataInv, QueueFits
    <3> QED
      BY <1>3, <3>2, <3>3
  <2>3. InOrder'
    BY <2>2 DEF InOrder
  <2>4. version' = version
    OBVIOUS
  <2> QED
    BY <2>1, <2>3, <2>4 DEF QueueFits, Stamped
<1>7. Kept'
  <2>1. CASE pending /\ \E a \in Accounts : list[a].stamp >= promised
    BY <2>1 DEF Kept
  <2>2. CASE \A i \in 1..Len(updates) : updates[i].up => updates[i].version >= promised
    <3>1. version >= promised
      BY DEF DataInv, DataTypeOK, ClocksFit
    <3> QED
      BY <1>1, <1>3, <2>2, <3>1 DEF Kept
  <2> QED
    BY <2>1, <2>2 DEF DataInv, Kept
<1>8. LonelyFits'
  <2>1. alone => \A i \in 1..Len(updates') : ~updates'[i].up
    BY <1>1, <1>3 DEF DataInv, LonelyFits
  <2> QED
    BY <2>1 DEF DataInv, LonelyFits, LocalDecisionsKept
<1>9. ScreenKeepsEdits'
  BY DEF DataInv, ScreenKeepsEdits
<1> QED
  BY <1>4, <1>5, <1>6, <1>7, <1>8, <1>9 DEF DataInv

LEMMA TailFacts ==
  ASSUME DataInv, updates # <<>>, updates' = Tail(updates)
  PROVE  /\ updates' \in Seq(Update) /\ Head(updates) = updates[1] /\ 1 \in 1..Len(updates)
         /\ \A i \in 1..Len(updates') :
              i + 1 \in 1..Len(updates) /\ 1 < i + 1 /\ updates'[i] = updates[i + 1]
<1>1. updates \in Seq(Update)
  BY DEF DataInv, DataTypeOK
<1>2. Len(updates) \in Nat /\ Len(updates) # 0
  BY <1>1
<1>3. updates' \in Seq(Update) /\ Len(updates') = Len(updates) - 1
  BY <1>1, <1>2
<1>4. \A i \in 1..Len(updates') : updates'[i] = updates[i + 1]
  BY <1>1, <1>2, <1>3
<1> QED
  BY <1>1, <1>2, <1>3, <1>4

(* What is left of the queue stays as it was. *)
LEMMA TailKeepsQueue ==
  ASSUME DataInv, updates # <<>>, updates' = Tail(updates), version' = version
  PROVE  QueueFits'
<1>1. \A i \in 1..Len(updates') :
        i \in Int /\ i + 1 \in 1..Len(updates) /\ updates'[i] = updates[i + 1]
  BY TailFacts
<1>2. InOrder'
  BY <1>1 DEF DataInv, QueueFits, InOrder
<1> QED
  BY <1>1, <1>2 DEF DataInv, QueueFits, Stamped

LEMMA PollConnectedKeepsData ==
  ASSUME DataInv, PollConnected
  PROVE  DataInv'
<1> DEFINE u == Head(updates)
<1>1. /\ updates' \in Seq(Update) /\ u = updates[1] /\ 1 \in 1..Len(updates) /\ u.up
      /\ \A i \in 1..Len(updates') :
           i + 1 \in 1..Len(updates) /\ 1 < i + 1 /\ updates'[i] = updates[i + 1]
  BY TailFacts DEF PollConnected
<1>2. u \in Update /\ u.index \in Index /\ u.version \in Nat
  BY <1>1, QueueType DEF Update
<1>3. Stamped(u.index, u.version) /\ u.version <= version
  BY <1>1 DEF DataInv, QueueFits
<1>4. ~alone
  BY <1>1 DEF DataInv, LonelyFits
<1>5. /\ UNCHANGED <<index, file, notified, version, promised, daemon, used, alone, wish, now>>
      /\ pending' = (pending /\ ~Confirms(u)) /\ attached' = TRUE
  BY DEF PollConnected, copies, outside
<1>6. \A i \in 1..Len(updates') : updates'[i].up => u.version <= updates'[i].version
  BY <1>1 DEF DataInv, QueueFits, InOrder
<1>7. QueueFits'
  BY TailKeepsQueue, <1>5 DEF PollConnected
<1>8. LonelyFits'
  BY <1>4, <1>5 DEF LonelyFits, LocalDecisionsKept
<1>9. CASE checking.on \/ pending
  <2>1. UNCHANGED <<list, shown>>
    BY <1>9 DEF PollConnected, Adopt
  <2>2. DataTypeOK' /\ ClocksFit' /\ ScreenKeepsEdits'
    BY <1>1, <1>5, <2>1 DEF DataInv, DataTypeOK, ClocksFit, Stamped, ScreenKeepsEdits
  <2>3. Kept'
    <3>1. CASE \A i \in 1..Len(updates) : updates[i].up => updates[i].version >= promised
      BY <1>1, <1>5, <3>1 DEF Kept
    <3>2. CASE pending /\ \E a \in Accounts : list[a].stamp >= promised
      <4>1. CASE Confirms(u)
        <5>1. PICK a \in Accounts : list[a].stamp >= promised
          BY <3>2
        <5>2. list[a].stamp \in Nat /\ list[a].stamp <= u.version /\ promised \in Nat
          BY <1>3, <4>1 DEF Confirms, Stamped, DataInv, DataTypeOK, Index, Account
        <5>3. u.version >= promised
          BY <1>2, <5>1, <5>2
        <5>4. \A i \in 1..Len(updates') : updates'[i].version \in Nat
          BY <1>1, QueueType
        <5> QED
          BY <1>2, <1>5, <1>6, <5>2, <5>3, <5>4 DEF Kept
      <4>2. CASE ~Confirms(u)
        BY <1>5, <2>1, <3>2, <4>2 DEF Kept
      <4> QED
        BY <4>1, <4>2
    <3> QED
      BY <3>1, <3>2 DEF DataInv, Kept
  <2> QED
    BY <1>7, <1>8, <2>2, <2>3 DEF DataInv
<1>10. CASE ~(checking.on \/ pending)
  <2>1. list' = u.index /\ shown' = u.version /\ pending' = FALSE
    BY <1>5, <1>10 DEF PollConnected, Adopt, Replaced, DataInv, DataTypeOK
  <2>2. \A i \in 1..Len(updates) : updates[i].up => updates[i].version >= promised
    BY <1>10 DEF DataInv, Kept
  <2>3. Kept' /\ ScreenKeepsEdits'
    BY <1>1, <1>5, <2>1, <2>2 DEF Kept, ScreenKeepsEdits
  <2>4. DataTypeOK'
    BY <1>1, <1>2, <1>5, <2>1 DEF DataInv, DataTypeOK
  <2>5. ClocksFit'
    <3>1. \A a \in Accounts : u.index[a].stamp \in Nat /\ u.index[a].stamp <= u.version
      BY <1>2, <1>3 DEF Index, Account, Stamped
    <3> QED
      BY <1>2, <1>3, <1>5, <2>1, <3>1 DEF DataInv, DataTypeOK, ClocksFit, Stamped
  <2> QED
    BY <1>7, <1>8, <2>3, <2>4, <2>5 DEF DataInv
<1> QED
  BY <1>9, <1>10

LEMMA PollDisconnectedKeepsData ==
  ASSUME DataInv, PollDisconnected
  PROVE  DataInv'
<1>1. /\ updates' \in Seq(Update)
      /\ \A i \in 1..Len(updates') :
           i + 1 \in 1..Len(updates) /\ 1 < i + 1 /\ updates'[i] = updates[i + 1]
  BY TailFacts DEF PollDisconnected
<1>2. UNCHANGED <<copies, screen, outside, now>> /\ attached' = FALSE
  BY DEF PollDisconnected
<1> USE DEF copies, screen, outside
<1>3. QueueFits'
  BY TailKeepsQueue, <1>2 DEF PollDisconnected
<1>4. DataTypeOK' /\ ClocksFit' /\ ScreenKeepsEdits'
  BY <1>1, <1>2 DEF DataInv, DataTypeOK, ClocksFit, Stamped, ScreenKeepsEdits
<1>5. Kept' /\ LonelyFits'
  BY <1>1, <1>2 DEF DataInv, Kept, LonelyFits, LocalDecisionsKept
<1> QED
  BY <1>3, <1>4, <1>5 DEF DataInv

(* Every step on the data. *)
LEMMA DataStep ==
  ASSUME DataInv, UiInv, OrdersFit, [Next]_vars
  PROVE  DataInv'
<1>1. now \in Nat /\ attached \in BOOLEAN
  BY DEF DataInv, DataTypeOK
<1>2. ASSUME NEW a \in Accounts, ImportCurrent(a) \/ ImportFile(a) \/ UpdateFromCurrent(a)
      PROVE  DataInv'
  <2>1. PICK kind \in {"import", "import_disabled", "update"}, answer \in Answers,
             held \in BOOLEAN : Edit(a, kind, answer, held)
    BY <1>2 DEF ImportCurrent, ImportFile, UpdateFromCurrent, Imports
  <2>2. now' = now + 1 /\ UNCHANGED <<daemon, attached, alone, updates>>
    BY <1>2 DEF ImportCurrent, ImportFile, UpdateFromCurrent, Key, Event, Tick, ui
  <2> QED
    BY <2>1, <2>2, EditKeepsData
<1>3. ASSUME NEW about, NEW op, Key, Enqueue(op, about)
      PROVE  DataInv'
  BY <1>1, <1>3, StutterKeepsData DEF Key, Event, Tick, Enqueue
<1>4. ASSUME NEW a \in Accounts, ToggleRemote(a)
      PROVE  DataInv'
  BY <1>3, <1>4 DEF ToggleRemote
<1>5. ASSUME NEW about, ProbeRemote(about)
      PROVE  DataInv'
  BY <1>3, <1>5 DEF ProbeRemote
<1>6. ASSUME NEW about, StartProbe(about)
      PROVE  DataInv'
  BY <1>1, <1>6, StutterKeepsData DEF Key, Event, Tick, StartProbe
<1>7. ASSUME NEW kind, NEW a \in Accounts, OpenDialog(kind, a)
      PROVE  DataInv'
  BY <1>1, <1>7, StutterKeepsData DEF Key, Event, Tick, OpenDialog
<1>8. CASE Cancel \/ StartEmbedded
  BY <1>1, <1>8, StutterKeepsData DEF Key, Event, Tick, Cancel, StartEmbedded
<1>9. CASE Confirm
  <2>1. now' = now + 1 /\ UNCHANGED <<daemon, attached, alone, updates>>
    BY <1>9 DEF Confirm, Event, Tick
  <2>2. CASE \E a \in Selected(order), answer \in Answers : \E held \in Held(dialog.kind, answer) :
               Edit(a, dialog.kind, answer, held)
    <3>1. PICK a \in Selected(order), answer \in Answers :
            \E held \in Held(dialog.kind, answer) : Edit(a, dialog.kind, answer, held)
      BY <2>2
    <3>2. a \in Accounts
      BY DEF Selected
    <3>3. PICK held \in Held(dialog.kind, answer) : Edit(a, dialog.kind, answer, held)
      BY <3>1
    <3>4. held \in BOOLEAN
      BY DEF Held
    <3> QED
      BY <2>1, <3>2, <3>3, <3>4, EditKeepsData
  <2>3. CASE UNCHANGED <<copies, screen, used, wish>>
    BY <1>1, <2>1, <2>3, StutterKeepsData DEF outside
  <2> QED
    BY <1>9, <2>2, <2>3 DEF Confirm
<1>10. ASSUME NEW a \in Accounts, ToggleLocal(a)
       PROVE  DataInv'
  BY <1>10, ToggleKeepsData
<1>11. CASE KeyNext
  BY <1>2, <1>4, <1>5, <1>6, <1>7, <1>8, <1>9, <1>10, <1>11, PartKeepsData, LeaveKeepsData
     DEF KeyNext
<1>12. CASE PollProbe
  BY <1>12, ProbeKeepsData, FinishKeepsData, LeaveKeepsData DEF PollProbe
<1>13. CASE PollControl
  BY <1>13, PollConnectedKeepsData, PollDisconnectedKeepsData DEF PollControl
<1>14. CASE DaemonNext
  <2>1. CASE DaemonStarts
    BY <2>1, StartKeepsData DEF DaemonStarts, Event, Tick, DataInv, DataTypeOK, ClocksFit
  <2>2. CASE EmbeddedStarts
    <3>1. owned.seed \in Index /\ Stamped(owned.seed, now)
      BY <2>2 DEF EmbeddedStarts, UiInv, OwnedFits, Owned
    <3> QED
      BY <2>2, <3>1, StartKeepsData DEF EmbeddedStarts, Tick
  <2> QED
    BY <1>14, <2>1, <2>2, LeaveKeepsData, ReloadKeepsData, OthersKeepData DEF DaemonNext
<1>15. CASE Watch
  <2>1. [up |-> TRUE, index |-> index, order |-> ranking, version |-> version] \in Update
    BY DEF Update, DataInv, DataTypeOK, OrdersFit
  <2> QED
    BY <1>1, <1>15, <2>1, WatchKeepsData DEF Watch, ui
<1>16. CASE WatchFails
  BY <1>1, <1>16, GoneType, WatchKeepsData DEF WatchFails, Disconnected, Event, Tick, ui, DataInv, DataTypeOK
<1>17. ASSUME NEW s \in Slots, RequestRuns(s)
       PROVE  DataInv'
  <2>1. requests[s] \in Request
    BY <1>17 DEF RequestRuns, UiInv
  <2> QED
    BY <1>17, <2>1, RequestKeepsData
<1>18. CASE UNCHANGED vars
  BY <1>1, <1>18, StutterKeepsData DEF vars, ui
<1> QED
  BY <1>11, <1>12, <1>13, <1>14, <1>15, <1>16, <1>17, <1>18 DEF Next

-----------------------------------------------------------------------------
(* The clone that the embedded daemon was given stays in the past. *)
LEMMA OwnedKept ==
  ASSUME UiInv, now \in Nat, now' \in {now, now + 1}, owned' = owned
  PROVE  OwnedFits'
<1>1. CASE owned = NotOwned
  BY <1>1 DEF UiInv, OwnedFits
<1>2. CASE owned # NotOwned
  <2>1. owned \in Owned /\ Stamped(owned.seed, now)
    BY <1>2 DEF UiInv, OwnedFits
  <2>2. \A a \in Accounts : owned.seed[a].stamp \in Nat
    BY <2>1 DEF Owned, Index, Account
  <2>3. Stamped(owned.seed, now')
    BY <2>1, <2>2 DEF Stamped
  <2> QED
    BY <2>1, <2>3 DEF OwnedFits, Stamped
<1> QED
  BY <1>1, <1>2

(* A dialog that stays over rows that stay. *)
LEMMA DialogKept ==
  ASSUME UiInv, UNCHANGED dialog, dialog = NoDialog \/ UNCHANGED order
  PROVE  DialogFits'
<1>1. CASE dialog = NoDialog
  BY <1>1 DEF DialogFits
<1>2. CASE UNCHANGED order
  BY <1>2 DEF UiInv, DialogFits, Selected
<1> QED
  BY <1>1, <1>2

(* A step that leaves the dialog, the check and the embedded daemon alone. *)
LEMMA StutterKeepsUi ==
  ASSUME UiInv, now \in Nat, now' \in {now, now + 1}, UNCHANGED <<open, owned, dialog, checking>>,
         dialog = NoDialog \/ UNCHANGED order,
         requests' \in [Slots -> Request \cup {NoRequest}]
  PROVE  UiInv'
<1>1. OwnedFits' /\ DialogFits'
  BY OwnedKept, DialogKept
<1> QED
  BY <1>1 DEF UiInv, CheckingFits

LEMMA RequestsKeepUi ==
  ASSUME DataInv, UiInv, UNCHANGED <<open, owned, dialog, checking, order>>, now' \in {now, now + 1},
         NEW s \in Slots, NEW r \in Request \cup {NoRequest}, requests' = [requests EXCEPT ![s] = r]
  PROVE  UiInv'
<1>1. requests' \in [Slots -> Request \cup {NoRequest}]
  BY DEF UiInv
<1> QED
  BY <1>1, StutterKeepsUi DEF DataInv, DataTypeOK

LEMMA EnqueueKeepsUi ==
  ASSUME DataInv, UiInv, Key, NEW op \in {"in", "out", "probe"}, NEW about \in SUBSET Accounts,
         Enqueue(op, about)
  PROVE  UiInv'
<1>1. [op |-> op, about |-> about] \in Request
  BY DEF Request
<1>2. PICK s \in Slots : requests' = [requests EXCEPT ![s] = [op |-> op, about |-> about]]
  BY DEF Enqueue
<1>3. now' \in {now, now + 1} /\ UNCHANGED <<open, owned, dialog, checking, order>>
  BY DEF Enqueue, Key, Event, Tick, screen
<1> QED
  BY <1>1, <1>2, <1>3, RequestsKeepUi

(* Rows are numbered from one. *)
LEMMA RowsType ==
  ASSUME NEW r \in Seq(Accounts), NEW matching
  PROVE  \A n \in DOMAIN Visible(r, matching) : n \in Nat
  BY DEF Visible

(* An editor that stays after Enter stays over the same rows: what is not  *)
(* acknowledged does not touch the list.                                   *)
LEMMA EditorStays ==
  ASSUME Confirm, dialog' # NoDialog
  PROVE  UNCHANGED <<dialog, order>>
<1>1. CASE Selected(order) = {}
  BY <1>1 DEF Confirm, screen
<1>2. CASE \E a \in Selected(order), answer \in Answers : \E held \in Held(dialog.kind, answer) :
             /\ Edit(a, dialog.kind, answer, held)
             /\ dialog' = IF held THEN NoDialog ELSE dialog
  <2>1. PICK a \in Selected(order), answer \in Answers : \E held \in Held(dialog.kind, answer) :
          /\ Edit(a, dialog.kind, answer, held)
          /\ dialog' = IF held THEN NoDialog ELSE dialog
    BY <1>2
  <2>2. PICK held \in Held(dialog.kind, answer) :
          /\ Edit(a, dialog.kind, answer, held)
          /\ dialog' = IF held THEN NoDialog ELSE dialog
    BY <2>1
  <2>3. dialog' = dialog /\ answer # "ok"
    BY <2>2 DEF Held
  <2>4. RemoteEdit(a, dialog.kind, answer) \/ LocalEdit(a, dialog.kind, answer)
    BY <2>2 DEF Edit
  <2> QED
    BY <2>3, <2>4 DEF RemoteEdit, LocalEdit
<1> QED
  BY <1>1, <1>2 DEF Confirm

LEMMA DialogStepsKeepUi ==
  ASSUME DataInv, UiInv, Confirm \/ Cancel
  PROVE  UiInv'
<1>1. /\ UNCHANGED <<open, owned, checking, requests>> /\ dialog' \in {dialog, NoDialog}
      /\ now' \in {now, now + 1} /\ now \in Nat
  BY DEF Confirm, Cancel, Event, Tick, DataInv, DataTypeOK
<1>2. OwnedFits'
  BY <1>1, OwnedKept
<1>3. CASE dialog' = NoDialog
  BY <1>1, <1>2, <1>3 DEF UiInv, DialogFits, CheckingFits
<1>4. CASE dialog' # NoDialog
  <2>1. UNCHANGED <<dialog, order>>
    BY <1>4, EditorStays DEF Cancel
  <2> QED
    BY <1>1, <1>2, <2>1, DialogKept DEF UiInv, CheckingFits
<1> QED
  BY <1>3, <1>4

(* d and n open a dialog on an account of the list, and not during a check. *)
LEMMA OpenDialogKeepsUi ==
  ASSUME DataInv, UiInv, NEW kind \in {"delete", "rename"}, NEW a \in Accounts, OpenDialog(kind, a),
         OrdersFit
  PROVE  UiInv'
<1>1. /\ UNCHANGED <<open, owned, checking, requests, order>> /\ now' = now + 1 /\ now \in Nat
      /\ ~checking.on
  BY DEF OpenDialog, Key, Event, Tick, screen, DataInv, DataTypeOK
<1>2. PICK matching \in SUBSET Listed(list) : \E n \in DOMAIN Visible(order, matching) :
        /\ Visible(order, matching)[n] = a
        /\ dialog' = [kind |-> kind, matching |-> matching, position |-> n, target |-> a,
                      moved |-> FALSE]
  BY DEF OpenDialog
<1>3. PICK n \in DOMAIN Visible(order, matching) :
        /\ Visible(order, matching)[n] = a
        /\ dialog' = [kind |-> kind, matching |-> matching, position |-> n, target |-> a,
                      moved |-> FALSE]
  BY <1>2
<1>4. dialog' \in Dialog
  <2>1. n \in Nat
    BY RowsType DEF OrdersFit
  <2> QED
    BY <1>3, <2>1 DEF Dialog, Listed
<1>5. DialogFits'
  <2>1. Selected(order)' = {a}
    BY <1>1, <1>3 DEF Selected
  <2> QED
    BY <1>3, <1>4, <2>1 DEF DialogFits
<1>6. OwnedFits'
  BY <1>1, OwnedKept
<1> QED
  BY <1>1, <1>5, <1>6 DEF UiInv, CheckingFits

LEMMA CheckKeepsUi ==
  ASSUME DataInv, UiInv,
         \/ \E about \in SUBSET Accounts : StartProbe(about)
         \/ \E a \in Accounts : ProbeCompletes(a)
         \/ Finish
  PROVE  UiInv'
<1>1. /\ UNCHANGED <<open, owned, dialog, requests, order>>
      /\ now' \in {now, now + 1} /\ now \in Nat
  BY DEF StartProbe, ProbeCompletes, Finish, Key, Event, Tick, screen, DataInv, DataTypeOK
<1>2. OwnedFits' /\ DialogFits'
  BY <1>1, OwnedKept, DialogKept
<1>3. CheckingFits'
  <2>1. ASSUME NEW about \in SUBSET Accounts, StartProbe(about)
        PROVE  CheckingFits'
    <3>1. checking' = [on |-> TRUE, todo |-> about, clones |-> list] /\ dialog = NoDialog
      BY <2>1 DEF StartProbe, Key
    <3> QED
      BY <1>1, <3>1 DEF CheckingFits, Checking, DataInv, DataTypeOK
  <2>2. ASSUME NEW a \in Accounts, ProbeCompletes(a)
        PROVE  CheckingFits'
    <3>1. checking \in Checking /\ a \in checking.todo
          /\ checking' = [checking EXCEPT !.todo = checking.todo \ {a}]
      BY <2>2 DEF ProbeCompletes, UiInv, CheckingFits
    <3>2. checking' \in Checking /\ checking'.on = checking.on
      BY <3>1 DEF Checking
    <3>3. checking # NotChecking
      BY <3>1 DEF NotChecking
    <3> QED
      BY <1>1, <3>2, <3>3 DEF UiInv, CheckingFits
  <2>3. CASE Finish
    <3>1. NotChecking \in Checking /\ ~NotChecking.on
      BY GoneType DEF NotChecking, Checking
    <3> QED
      BY <2>3, <3>1 DEF Finish, CheckingFits
  <2> QED
    BY <2>1, <2>2, <2>3
<1> QED
  BY <1>1, <1>2, <1>3 DEF UiInv

LEMMA LeaveKeepsUi ==
  ASSUME UiInv, NEW stops, Leave(stops)
  PROVE  UiInv'
<1>1. NotChecking \in Checking /\ ~NotChecking.on
  BY GoneType DEF NotChecking, Checking
<1>2. requests' \in [Slots -> Request \cup {NoRequest}]
  BY DEF Leave
<1> QED
  BY <1>1, <1>2 DEF Leave, UiInv, OwnedFits, DialogFits, CheckingFits

LEMMA EmbeddedKeepsUi ==
  ASSUME DataInv, UiInv, StartEmbedded \/ EmbeddedStarts
  PROVE  UiInv'
<1>1. /\ UNCHANGED <<open, dialog, checking, requests, order>> /\ now' = now + 1 /\ now \in Nat
  BY DEF StartEmbedded, EmbeddedStarts, Starts, Key, Event, Tick, screen, DataInv, DataTypeOK
<1>2. \E seed \in Index : /\ Stamped(seed, now)
                          /\ \/ owned' = [stage |-> "starting", seed |-> seed]
                             \/ owned' = [stage |-> "running", seed |-> seed]
  <2>1. CASE StartEmbedded
    BY <2>1 DEF StartEmbedded, DataInv, DataTypeOK, ClocksFit
  <2>2. CASE EmbeddedStarts
    <3>1. owned \in Owned /\ Stamped(owned.seed, now)
      BY <2>2 DEF EmbeddedStarts, UiInv, OwnedFits
    <3>2. owned' = [owned EXCEPT !.stage = "running"]
      BY <2>2 DEF EmbeddedStarts
    <3>3. owned' = [stage |-> "running", seed |-> owned.seed] /\ owned.seed \in Index
      BY <3>1, <3>2 DEF Owned
    <3> QED
      BY <3>1, <3>3
  <2> QED
    BY <2>1, <2>2
<1>3. PICK seed \in Index : /\ Stamped(seed, now)
                            /\ \/ owned' = [stage |-> "starting", seed |-> seed]
                               \/ owned' = [stage |-> "running", seed |-> seed]
  BY <1>2
<1>4. Stamped(seed, now + 1)
  BY <1>1, <1>3 DEF Stamped, Index, Account
<1>5. OwnedFits'
  BY <1>1, <1>3, <1>4 DEF OwnedFits, Owned, Stamped
<1>6. DialogFits'
  BY <1>1, DialogKept
<1> QED
  BY <1>1, <1>5, <1>6 DEF UiInv, CheckingFits

(* A snapshot that replaces the list under a dialog tells if its rows are  *)
(* other ones.                                                             *)
LEMMA PollKeepsUi ==
  ASSUME DataInv, UiInv, PollConnected
  PROVE  UiInv'
<1> DEFINE u == Head(updates)
<1>1. UNCHANGED <<open, owned, checking, requests, now>> /\ now \in Nat
  BY DEF PollConnected, DataInv, DataTypeOK
<1>2. OwnedFits'
  BY <1>1, OwnedKept
<1>3. CASE UNCHANGED <<order, dialog>>
  BY <1>1, <1>2, <1>3, DialogKept DEF UiInv, CheckingFits
<1>4. CASE order' = u.order /\ dialog' \in Under(u)
  <2>1. CASE dialog = NoDialog
    BY <1>1, <1>2, <1>4, <2>1 DEF Under, UiInv, DialogFits, CheckingFits
  <2>2. CASE dialog # NoDialog
    <3>1. PICK m \in SUBSET Listed(u.index) :
            dialog' = [dialog EXCEPT !.matching = m,
                                     !.moved = @ \/ Visible(u.order, m) # Visible(order, dialog.matching)]
      BY <1>4, <2>2 DEF Under
    <3>2. dialog \in Dialog /\ (~dialog.moved => Selected(order) = {dialog.target})
      BY <2>2 DEF UiInv, DialogFits
    <3>3. m \in SUBSET Accounts
      BY DEF Listed
    <3> DEFINE other == dialog.moved \/ Visible(u.order, m) # Visible(order, dialog.matching)
    <3>4. /\ dialog' \in Dialog /\ dialog'.matching = m /\ dialog'.moved = other
          /\ dialog'.target = dialog.target /\ dialog'.position = dialog.position
      BY <3>1, <3>2, <3>3 DEF Dialog
    <3>5. ~dialog'.moved => Selected(order)' = {dialog'.target}
      BY <1>4, <3>2, <3>4 DEF Selected
    <3>6. DialogFits'
      BY <3>4, <3>5 DEF DialogFits
    <3>7. ~checking.on
      BY <2>2 DEF UiInv, CheckingFits
    <3> QED
      BY <1>1, <1>2, <3>6, <3>7 DEF UiInv, CheckingFits
  <2> QED
    BY <2>1, <2>2
<1> QED
  BY <1>3, <1>4 DEF PollConnected, Adopt, Replaced

(* Every step on the rest of the terminal's state. *)
LEMMA UiStep ==
  ASSUME DataInv, UiInv, OrdersFit, [Next]_vars
  PROVE  UiInv'
<1>1. now \in Nat /\ list \in Index
  BY DEF DataInv, DataTypeOK
<1>2. requests \in [Slots -> Request \cup {NoRequest}]
  BY DEF UiInv
<1>3. Listed(list) \in SUBSET Accounts
  BY DEF Listed
<1>4. ASSUME NEW a \in Accounts,
             ImportCurrent(a) \/ ImportFile(a) \/ ImportPart(a) \/ UpdateFromCurrent(a)
               \/ ToggleLocal(a)
      PROVE  UiInv'
  BY <1>1, <1>2, <1>4, StutterKeepsUi
     DEF ImportCurrent, ImportFile, ImportPart, UpdateFromCurrent, ToggleLocal, Key, Event, Tick, ui
<1>5. ASSUME NEW a \in Accounts, ToggleRemote(a)
      PROVE  UiInv'
  <2>1. Flipped(list[a].standing) \in {"in", "out", "probe"}
    BY DEF Flipped
  <2> QED
    BY <1>5, <2>1, EnqueueKeepsUi DEF ToggleRemote
<1>6. ASSUME NEW about \in SUBSET Accounts, ProbeRemote(about)
      PROVE  UiInv'
  BY <1>6, EnqueueKeepsUi DEF ProbeRemote
<1>7. CASE KeyNext
  <2>1. CASE \E a \in Accounts : ImportCurrent(a) \/ ImportFile(a) \/ ImportPart(a)
                                   \/ UpdateFromCurrent(a) \/ ToggleRemote(a) \/ ToggleLocal(a)
    BY <1>4, <1>5, <2>1
  <2>2. CASE \E kind \in {"delete", "rename"}, a \in Accounts : OpenDialog(kind, a)
    BY <2>2, OpenDialogKeepsUi
  <2>3. CASE \E about \in SUBSET Accounts : ProbeRemote(about) \/ StartProbe(about)
    BY <1>6, <2>3, CheckKeepsUi
  <2>4. CASE Quit
    BY <2>4, LeaveKeepsUi DEF Quit
  <2>5. \A a \in Listed(list) : {a} \in SUBSET Accounts
    BY <1>3
  <2> QED
    BY <1>3, <1>7, <2>1, <2>2, <2>3, <2>4, <2>5, DialogStepsKeepUi, EmbeddedKeepsUi DEF KeyNext
<1>8. CASE PollProbe
  BY <1>8, CheckKeepsUi, LeaveKeepsUi DEF PollProbe, FinishFails
<1>9. CASE PollControl
  BY <1>1, <1>2, <1>9, StutterKeepsUi, PollKeepsUi DEF PollControl, PollDisconnected, screen
<1>10. CASE DaemonNext
  <2>1. CASE DaemonStarts \/ DaemonStops \/ HotReload \/ \E a \in Accounts : Others(a)
    BY <1>1, <1>2, <2>1, StutterKeepsUi
       DEF DaemonStarts, Starts, DaemonStops, HotReload, Others, Event, Tick, ui, screen
  <2> QED
    BY <1>10, <2>1, EmbeddedKeepsUi DEF DaemonNext
<1>11. CASE Watch \/ WatchFails \/ UNCHANGED vars
  BY <1>1, <1>2, <1>11, StutterKeepsUi DEF Watch, WatchFails, Event, Tick, ui, screen, vars
<1>12. ASSUME NEW s \in Slots, RequestRuns(s)
       PROVE  UiInv'
  <2>1. now' \in {now, now + 1} /\ UNCHANGED <<open, owned, dialog, checking, order>>
        /\ requests' = [requests EXCEPT ![s] = NoRequest]
    BY <1>12 DEF RequestRuns, RequestEnds, Tick, screen
  <2> QED
    BY <2>1, RequestsKeepUi
<1> QED
  BY <1>7, <1>8, <1>9, <1>10, <1>11, <1>12 DEF Next

-----------------------------------------------------------------------------
(* The two orders. *)
LEMMA OrdersType ==
  ASSUME NEW i, NEW r \in Orders(i)
  PROVE  r \in Seq(Accounts)
<1>1. Listed(i) \subseteq Accounts /\ IsFiniteSet(Listed(i))
  BY AccountsAssumption, FS_Subset DEF Listed
<1>2. Cardinality(Listed(i)) \in Nat
  BY <1>1, FS_CardinalityType
<1> QED
  BY <1>1, <1>2 DEF Orders

LEMMA ReorderedType ==
  ASSUME NEW i, NEW q, NEW kept, NEW r \in Reordered(i, q, kept)
  PROVE  r \in Seq(Accounts)
  BY OrdersType DEF Reordered

LEMMA EditKeepsOrders ==
  ASSUME OrdersFit, NEW a \in Accounts, NEW kind, NEW answer, NEW held, Edit(a, kind, answer, held)
  PROVE  OrdersFit'
<1>1. CASE RemoteEdit(a, kind, answer)
  <2>1. ranking' = ranking \/ ranking' \in Ranked(a, kind)
    BY <1>1 DEF RemoteEdit, Commit, copies
  <2>2. ranking' \in Seq(Accounts)
    BY <2>1, ReorderedType DEF Ranked, OrdersFit
  <2> QED
    BY <1>1, <2>2 DEF RemoteEdit, OrdersFit
<1>2. CASE LocalEdit(a, kind, answer)
  BY <1>2, ReorderedType DEF LocalEdit, Placed, OrdersFit
<1> QED
  BY <1>1, <1>2 DEF Edit

LEMMA OrdersStep ==
  ASSUME DataInv, OrdersFit, [Next]_vars
  PROVE  OrdersFit'
<1>1. ASSUME NEW a \in Accounts, ImportCurrent(a) \/ ImportFile(a) \/ UpdateFromCurrent(a)
      PROVE  OrdersFit'
  BY <1>1, EditKeepsOrders DEF ImportCurrent, ImportFile, UpdateFromCurrent
<1>2. ASSUME NEW a \in Accounts, ImportPart(a)
      PROVE  OrdersFit'
  BY <1>2, ReorderedType DEF ImportPart, Placed, OrdersFit, copies
<1>3. CASE Confirm
  <2>1. CASE UNCHANGED <<copies, screen>>
    BY <2>1 DEF copies, screen, OrdersFit
  <2>2. ASSUME NEW a \in Accounts, NEW answer, NEW held, Edit(a, dialog.kind, answer, held)
        PROVE  OrdersFit'
    BY <2>2, EditKeepsOrders
  <2> QED
    BY <1>3, <2>1, <2>2 DEF Confirm, Selected
<1>4. ASSUME NEW i, NEW orders \in {Orders(i), {ranking}}, Commit(i, orders), UNCHANGED order
      PROVE  OrdersFit'
  BY <1>4, OrdersType DEF Commit, OrdersFit
<1>5. ASSUME NEW s \in Slots, RequestRuns(s)
      PROVE  OrdersFit'
  BY <1>5, <1>4 DEF RequestRuns, OrdersFit, copies, screen
<1>6. CASE Finish \/ HotReload
  BY <1>6, <1>4 DEF Finish, HotReload, OrdersFit, screen
<1>7. ASSUME NEW a \in Accounts, Others(a)
      PROVE  OrdersFit'
  BY <1>7, ReorderedType DEF Others, Commit, OrdersFit, screen
<1>8. CASE DaemonStarts \/ EmbeddedStarts
  BY <1>8, ReorderedType DEF DaemonStarts, EmbeddedStarts, Starts, OrdersFit, screen
<1>9. CASE PollConnected
  <2>1. Head(updates) \in Update
    BY <1>9, QueueType, TailFacts DEF PollConnected
  <2>2. order' \in {order, Head(updates).order} /\ ranking' = ranking
    BY <1>9 DEF PollConnected, Adopt, Replaced, copies
  <2> QED
    BY <2>1, <2>2 DEF OrdersFit, Update
<1>10. ASSUME UNCHANGED <<ranking, order>>
       PROVE  OrdersFit'
  BY <1>10 DEF OrdersFit
<1>11. CASE KeyNext
  <2>1. ASSUME NEW a \in Accounts, ToggleRemote(a) \/ ToggleLocal(a)
        PROVE  UNCHANGED <<ranking, order>>
    BY <2>1 DEF ToggleRemote, ToggleLocal, Enqueue, copies, screen
  <2>2. ASSUME NEW about, ProbeRemote(about) \/ StartProbe(about)
        PROVE  UNCHANGED <<ranking, order>>
    BY <2>2 DEF ProbeRemote, StartProbe, Enqueue, copies, screen
  <2>3. ASSUME NEW kind, NEW a, OpenDialog(kind, a)
        PROVE  UNCHANGED <<ranking, order>>
    BY <2>3 DEF OpenDialog, copies, screen
  <2>4. CASE Cancel \/ StartEmbedded \/ Quit
    BY <2>4, <1>10 DEF Cancel, StartEmbedded, Quit, Leave, copies, screen
  <2> QED
    BY <1>1, <1>2, <1>3, <1>10, <1>11, <2>1, <2>2, <2>3, <2>4 DEF KeyNext
<1>12. CASE (\E a \in Accounts : ProbeCompletes(a)) \/ FinishFails \/ PollDisconnected \/ DaemonStops
              \/ Watch \/ WatchFails \/ UNCHANGED vars
  BY <1>10, <1>12 DEF ProbeCompletes, FinishFails, Leave, PollDisconnected, DaemonStops, Watch, WatchFails,
                      vars, copies, screen
<1> QED
  BY <1>5, <1>6, <1>7, <1>8, <1>9, <1>11, <1>12 DEF Next, PollProbe, PollControl, DaemonNext

-----------------------------------------------------------------------------
LEMMA InitData ==
  ASSUME Init
  PROVE  DataInv
<1> DEFINE start == [a \in Accounts |-> IF a \in used THEN [standing |-> "in", stamp |-> 0] ELSE Gone]
<1>1. start \in Index /\ Stamped(start, 0)
  <2>1. \A a \in Accounts : start[a] \in Account /\ start[a].stamp = 0
    BY DEF Account, Standing, Gone
  <2> QED
    BY <2>1 DEF Index, Stamped
<1>2. index = start /\ file = start /\ list = start
  BY DEF Init
<1> HIDE DEF start
<1>3. wish \in [Accounts -> Standing \cup {"none"}]
  <2>1. \A a \in Accounts : list[a].standing \in Standing
    BY <1>1, <1>2 DEF Index, Account
  <2> QED
    BY <2>1 DEF Init
<1>4. DataTypeOK
  <2>1. <<>> \in Seq(Update)
    OBVIOUS
  <2>2. alone \in BOOLEAN
    BY DEF Init
  <2> QED
    BY <1>1, <1>2, <1>3, <2>1, <2>2 DEF Init, DataTypeOK
<1>5. ClocksFit
  BY <1>1, <1>2 DEF Init, ClocksFit
<1>6. QueueFits /\ Kept /\ ScreenKeepsEdits
  BY DEF Init, QueueFits, InOrder, Kept, ScreenKeepsEdits
<1>7. LonelyFits
  <2>1. alone => ~daemon
    BY Zenon DEF Init
  <2>2. \A i \in 1..Len(updates) : ~updates[i].up
    BY DEF Init
  <2>3. \A a \in Accounts : alone => wish[a] = list[a].standing
    BY DEF Init
  <2> QED
    BY <1>2, <2>1, <2>2, <2>3 DEF LonelyFits, LocalDecisionsKept
<1> QED
  BY <1>4, <1>5, <1>6, <1>7 DEF DataInv

LEMMA InitUi ==
  ASSUME Init
  PROVE  UiInv
<1>1. NotChecking \in Checking /\ ~NotChecking.on
  BY GoneType DEF NotChecking, Checking
<1> QED
  BY <1>1 DEF Init, UiInv, OwnedFits, DialogFits, CheckingFits

(* The terminal's data and the rest of its state keep their invariant,     *)
(* whatever the keys, the watcher, the daemon and other clients do.        *)
THEOREM ClientInvariant == Spec => [](DataInv /\ UiInv /\ OrdersFit)
<1>1. Init => DataInv /\ UiInv /\ OrdersFit
  BY InitData, InitUi, OrdersType DEF Init, OrdersFit
<1>2. DataInv /\ UiInv /\ OrdersFit /\ [Next]_vars => DataInv' /\ UiInv' /\ OrdersFit'
  BY DataStep, UiStep, OrdersStep
<1> QED
  BY <1>1, <1>2, PTL DEF Spec

(* The screen and the queue are as the terminal relies on: no dialog is    *)
(* open during a check, and what waits is in order and not older than what *)
(* the list shows or holds (the channel of poll_control_updates).          *)
THEOREM ClientSafe == Spec => []TuiInv
<1>1. DataInv /\ UiInv /\ OrdersFit => TuiInv
  BY DEF OrdersFit, DataInv, UiInv, TuiInv, TypeOK, DataTypeOK, OwnedFits, DialogFits, CheckingFits, QueueFits
<1> QED
  BY <1>1, ClientInvariant, PTL

(* An acknowledged edit that is held stays on the screen: see              *)
(* pending_index_sync in poll_control_updates.                             *)
THEOREM EditsStay == Spec => []ScreenKeepsEdits
<1>1. DataInv => ScreenKeepsEdits
  BY DEF DataInv
<1> QED
  BY <1>1, ClientInvariant, PTL

(* What is decided without a daemon is in the list and in the file that is *)
(* saved (persist_index, toggle_pool and the merge of poll_probe).         *)
THEOREM DecisionsStay == Spec => []LocalDecisionsKept
<1>1. DataInv => LocalDecisionsKept
  BY DEF DataInv, LonelyFits
<1> QED
  BY <1>1, ClientInvariant, PTL

(* A dialog acts on the account it was opened for, or on none, as long as  *)
(* no adopted snapshot changed its rows (selected_id at the time of        *)
(* Enter): the daemon's own order, other clients and refused or lost       *)
(* answers do not matter.                                                  *)
THEOREM DialogsHit == Spec => EditsHitTarget
<1> DEFINE Hit == Confirm =>
                    \A a \in Accounts :
                      (daemon /\ index'[a] # index[a]) \/ (~daemon /\ list'[a] # list[a]) =>
                        a = dialog.target \/ dialog.moved
<1>1. DataInv /\ UiInv /\ OrdersFit /\ [Next]_vars => [Hit]_vars
  <2> SUFFICES ASSUME DataInv, UiInv, Confirm, NEW b \in Accounts,
                      (daemon /\ index'[b] # index[b]) \/ (~daemon /\ list'[b] # list[b]),
                      ~dialog.moved
               PROVE  b = dialog.target
    OBVIOUS
  <2>1. PICK a \in Selected(order), answer \in Answers :
          \E held \in Held(dialog.kind, answer) : Edit(a, dialog.kind, answer, held)
    BY DEF Confirm, copies, screen
  <2>2. RemoteEdit(a, dialog.kind, answer) \/ LocalEdit(a, dialog.kind, answer)
    BY <2>1 DEF Edit
  <2>3. a = dialog.target
    BY DEF Confirm, UiInv, DialogFits
  <2>4. b = a
    <3>1. a \in Accounts /\ index \in Index /\ list \in Index /\ now \in Nat
      BY DEF Selected, DataInv, DataTypeOK
    <3>2. \A c \in Accounts \ {a} : /\ After(index, a, dialog.kind)[c] = index[c]
                                     /\ After(list, a, dialog.kind)[c] = list[c]
      BY <3>1, AfterType
    <3> QED
      BY <2>2, <3>2 DEF RemoteEdit, LocalEdit, Commit, copies
  <2> QED
    BY <2>3, <2>4
<1> QED
  BY <1>1, ClientInvariant, PTL DEF Spec, EditsHitTarget
=============================================================================
