-------------------------- MODULE WorkDialogs_proofs --------------------------
(***************************************************************************)
(* What WorkDialogs promises, for any works, pushes and moves: the types,  *)
(* the history entry of an open detail, the locks on the body, and that    *)
(* the page is left only by a Back of the visitor's own.                   *)
(***************************************************************************)
EXTENDS WorkDialogs, FiniteSetTheorems, SequenceTheorems, TLAPS

(***************************************************************************)
(* The invariant                                                           *)
(***************************************************************************)

\* The page's own entry and the one before it carry no id, and stay.
PageEntryIsPlain == Len(entries) >= 2 /\ entries[1] = 0 /\ entries[2] = 0

\* Only a closing dialog queues a traversal of its own: one step back.
DialogsGoBack ==
    \A i \in 1..Len(travel) : travel[i].by = "dialog" => travel[i].delta = -1

\* While no dialog has opened in the wake of another, there is at most one
\* entry above the page's own, and the visitor stands on it closed only with a
\* back() on its way.
OneEntryAbove ==
    ~raced =>
        /\ pos <= 3
        /\ selecting = None /\ pos = 3 =>
              \E i \in 1..Len(travel) : travel[i].by = "dialog"

\* The traversals that closed dialogs have queued.
Pending(t) == {i \in 1..Len(t) : t[i].by = "dialog"}

\* Where the visitor stands is explained: every entry pushed is that of the
\* open dialog, has a back() on its way, or was stepped back from.
StepsAreAccounted ==
    spent = 2 - pos + Cardinality(Pending(travel)) + (IF active # 0 THEN 1 ELSE 0)

\* The locks are released to what the body was like before each was taken.
Base == IF isLock THEN "hidden" ELSE "visible"

OrderIsOfOpen ==
    order = IF ~searchOpen
            THEN IF selecting = None THEN << >> ELSE <<"detail">>
            ELSE IF selecting = None THEN <<"search">>
            ELSE IF order[1] = "search" THEN <<"search", "detail">>
            ELSE <<"detail", "search">>

LocksAreNested ==
    ~crossed =>
        /\ order = << >> => body["overflow"] = Base
        /\ order # << >> => body["overflow"] = "hidden" /\ body[order[1]] = Base
        /\ Len(order) = 2 => body[order[2]] = "hidden"

HistoryInv ==
    /\ PageEntryIsPlain /\ OpenHasEntry
    /\ DialogsGoBack /\ OneEntryAbove /\ StepsAreAccounted

LockInv == OrderIsOfOpen /\ LocksAreNested

IInv == TypeOK /\ HistoryInv /\ LockInv

-----------------------------------------------------------------------------
USE DialogAssumption DEF pageVars, lockVars, historyVars, ghostVars, vars, Locks, Overflow

Traversal == [by : {"visitor", "dialog"}, delta : {-1, 1}]

(***************************************************************************)
(* Lemmas about queued traversals                                          *)
(***************************************************************************)

\* Those of dialogs can be counted.
LEMMA PendingFinite ==
    ASSUME NEW t \in Seq(Traversal)
    PROVE  /\ IsFiniteSet(Pending(t)) /\ Cardinality(Pending(t)) \in Nat
           /\ Pending(t) \subseteq 1..Len(t)
<1>1. Len(t) \in Nat /\ Pending(t) \subseteq 1..Len(t)
  BY DEF Pending
<1>2. IsFiniteSet(1..Len(t))
  BY <1>1, FS_Interval
<1> QED
  BY <1>1, <1>2, FS_Subset, FS_CardinalityType

\* Queueing one adds one, if it is a dialog's.
LEMMA PendingAppend ==
    ASSUME NEW t \in Seq(Traversal), NEW e \in Traversal
    PROVE  /\ Append(t, e) \in Seq(Traversal)
           /\ Cardinality(Pending(Append(t, e))) =
                 Cardinality(Pending(t)) + (IF e.by = "dialog" THEN 1 ELSE 0)
<1> DEFINE u == Append(t, e)
<1>1. /\ u \in Seq(Traversal) /\ Len(t) \in Nat /\ Len(u) = Len(t) + 1
      /\ \A i \in 1..Len(t) : u[i] = t[i]
      /\ u[Len(t) + 1] = e
  OBVIOUS
<1> HIDE DEF u
<1>2. \A i : i \in 1..Len(u) <=> i \in 1..Len(t) \/ i = Len(t) + 1
  BY <1>1
<1>3. Len(t) + 1 \notin Pending(t)
  BY <1>1 DEF Pending
<1>4. CASE e.by = "dialog"
  <2>1. Pending(u) = Pending(t) \union {Len(t) + 1}
    BY <1>1, <1>2, <1>4 DEF Pending
  <2>2. Cardinality(Pending(u)) = Cardinality(Pending(t)) + 1
    BY <1>3, <2>1, PendingFinite, FS_AddElement
  <2> QED
    BY <1>1, <1>4, <2>2 DEF u
<1>5. CASE e.by # "dialog"
  <2>1. Pending(u) = Pending(t)
    BY <1>1, <1>2, <1>5 DEF Pending
  <2> QED
    BY <1>1, <1>5, <2>1, PendingFinite DEF u
<1> QED
  BY <1>4, <1>5

\* Doing the first one takes one away, if it was a dialog's.
LEMMA PendingTail ==
    ASSUME NEW t \in Seq(Traversal), t # << >>
    PROVE  /\ Tail(t) \in Seq(Traversal) /\ Head(t) \in Traversal
           /\ Len(Tail(t)) = Len(t) - 1 /\ Len(t) \in Nat \ {0}
           /\ Head(t) = t[1] /\ \A i \in 1..Len(Tail(t)) : Tail(t)[i] = t[i + 1]
           /\ Cardinality(Pending(t)) =
                 Cardinality(Pending(Tail(t))) + (IF Head(t).by = "dialog" THEN 1 ELSE 0)
<1> DEFINE u == Tail(t)
<1>1. /\ u \in Seq(Traversal) /\ Head(t) \in Traversal /\ Len(t) \in Nat \ {0}
      /\ Len(u) = Len(t) - 1 /\ Head(t) = t[1]
      /\ \A i \in 1..Len(u) : u[i] = t[i + 1]
  OBVIOUS
<1> HIDE DEF u
<1> DEFINE rest == Pending(t) \ {1}
           f == [i \in rest |-> i - 1]
<1>2. \A i \in rest : i \in 2..Len(t) /\ i - 1 \in Pending(u)
  BY <1>1 DEF Pending
<1>3. \A j \in Pending(u) : j + 1 \in rest /\ (j + 1) - 1 = j
  BY <1>1 DEF Pending
<1>4. f \in Bijection(rest, Pending(u))
  <2>1. f \in [rest -> Pending(u)]
    BY <1>2
  <2>2. \A i, j \in rest : f[i] = f[j] => i = j
    BY <1>2
  <2>3. \A j \in Pending(u) : \E i \in rest : f[i] = j
    BY <1>3
  <2> QED
    BY <2>1, <2>2, <2>3 DEF Bijection, Injection, Surjection, IsInjective
<1>5. IsFiniteSet(rest)
  BY PendingFinite, FS_Subset
<1>6. Cardinality(Pending(u)) = Cardinality(rest)
  BY <1>4, <1>5, FS_Bijection DEF ExistsBijection
<1>7. CASE Head(t).by = "dialog"
  <2>1. 1 \in Pending(t)
    BY <1>1, <1>7 DEF Pending
  <2>2. Cardinality(rest) = Cardinality(Pending(t)) - 1
    BY <2>1, PendingFinite, FS_RemoveElement
  <2> QED
    BY <1>1, <1>6, <1>7, <2>2, PendingFinite DEF u
<1>8. CASE Head(t).by # "dialog"
  <2>1. rest = Pending(t)
    BY <1>1, <1>8 DEF Pending
  <2> QED
    <3>1. Cardinality(Pending(u)) = Cardinality(Pending(t)) /\ Cardinality(Pending(t)) \in Nat
      BY <1>6, <2>1, PendingFinite
    <3> QED
      BY <1>1, <1>8, <3>1 DEF u
<1> QED
  BY <1>7, <1>8

(***************************************************************************)
(* The history                                                             *)
(***************************************************************************)

HistoryTypes ==
    /\ selecting \in Works \union {None}
    /\ entries \in Seq(0..MaxPushes) /\ pos \in DOMAIN entries
    /\ active \in 0..MaxPushes /\ pushes \in 0..MaxPushes
    /\ travel \in Seq(Traversal) /\ spent \in Int /\ raced \in BOOLEAN

\* An opened detail has an entry of its own, above the one it was opened from.
LEMMA PushStep ==
    ASSUME HistoryTypes, HistoryInv, pos > 1, selecting = None, NEW w \in Works,
           selecting' = w, PushEntry, spent' = spent
    PROVE  HistoryTypes' /\ HistoryInv'
<1> USE DEF HistoryTypes, HistoryInv
<1>0. active = 0
  BY DEF OpenHasEntry
<1>1. /\ pushes' = pushes + 1 /\ pushes' \in 1..MaxPushes /\ active' = pushes + 1
      /\ entries' = Append(SubSeq(entries, 1, pos), pushes + 1)
      /\ pos' = pos + 1 /\ travel' = travel
      /\ raced' = (raced \/ \E i \in DOMAIN travel : travel[i].by = "dialog")
  BY <1>0, SMTT(30) DEF PushEntry
<1>2. pos \in 2..Len(entries) /\ Len(entries) \in Nat
  OBVIOUS
<1> DEFINE below == SubSeq(entries, 1, pos)
<1>3. /\ below \in Seq(0..MaxPushes) /\ Len(below) = pos
      /\ \A i \in 1..pos : below[i] = entries[i]
  <2>1. \A i \in 1..pos : entries[i] \in 0..MaxPushes
    BY <1>2
  <2> QED
    BY <1>2, <2>1, SubSeqProperties
<1> HIDE DEF below
<1>4. /\ entries' \in Seq(0..MaxPushes) /\ Len(entries') = pos + 1
      /\ \A i \in 1..pos : entries'[i] = entries[i]
      /\ entries'[pos + 1] = pushes + 1
  BY <1>1, <1>2, <1>3, SMTT(30) DEF below
<1>5. HistoryTypes'
  <2>1. DOMAIN entries' = 1..(pos + 1) /\ pos + 1 \in 1..(pos + 1)
    BY <1>2, <1>4
  <2>2. active' \in 0..MaxPushes /\ pushes' \in 0..MaxPushes
    BY <1>1
  <2>3. raced' \in BOOLEAN
    BY <1>1
  <2> QED
    BY <1>1, <1>4, <2>1, <2>2, <2>3
<1>6. PageEntryIsPlain' /\ OpenHasEntry' /\ DialogsGoBack'
  <2>1. PageEntryIsPlain'
    <3>1. 1 \in 1..pos /\ 2 \in 1..pos /\ pos + 1 >= 2
      BY <1>2
    <3>2. entries'[1] = entries[1] /\ entries'[2] = entries[2]
      BY <1>4, <3>1
    <3> QED
      BY <1>4, <3>1, <3>2 DEF PageEntryIsPlain
  <2>2. active' # 0 /\ entries'[pos'] = active' /\ selecting' # None
    BY <1>1, <1>4
  <2>3. DialogsGoBack'
    BY <1>1 DEF DialogsGoBack
  <2> QED
    BY <2>1, <2>2, <2>3 DEF OpenHasEntry
<1>7. OneEntryAbove'
  <2> SUFFICES ASSUME ~raced' PROVE pos' <= 3 /\ selecting' # None
    BY DEF OneEntryAbove
  <2>0. DOMAIN travel = 1..Len(travel)
    OBVIOUS
  <2>1. ~raced /\ ~\E i \in 1..Len(travel) : travel[i].by = "dialog"
    BY <1>1, <2>0
  <2>2. pos = 2
    BY <1>2, <2>1, SMTT(30) DEF OneEntryAbove
  <2> QED
    BY <1>1, <2>2
<1>8. StepsAreAccounted'
  <2> DEFINE n == Cardinality(Pending(travel))
  <2>1. n \in Nat /\ spent \in Int /\ pos \in Int /\ spent = 2 - pos + n
    BY <1>0, <1>2, PendingFinite DEF StepsAreAccounted
  <2>2. active' # 0 /\ Cardinality(Pending(travel')) = n
    BY <1>1
  <2> HIDE DEF n
  <2>3. spent = 2 - (pos + 1) + n + 1
    BY <2>1
  <2> QED
    BY <1>1, <2>2, <2>3 DEF StepsAreAccounted
<1> QED
  BY <1>5, <1>6, <1>7, <1>8

\* A dialog that is closed here queues the step back from its entry.
LEMMA TakeBackStep ==
    ASSUME HistoryTypes, HistoryInv, selecting # None,
           selecting' = None, TakeBackEntry, spent' = spent
    PROVE  HistoryTypes' /\ HistoryInv'
<1> USE DEF HistoryTypes, HistoryInv
<1> DEFINE back == [by |-> "dialog", delta |-> -1]
<1>0. active # 0 /\ entries[pos] = active
  BY DEF OpenHasEntry
<1>1. /\ active' = 0 /\ travel' = Append(travel, back)
      /\ UNCHANGED <<entries, pos, pushes, raced>>
  BY <1>0 DEF TakeBackEntry
<1>2. back \in Traversal /\ back.by = "dialog" /\ back.delta = -1
  BY DEF Traversal
<1> HIDE DEF back
<1>3. /\ travel' \in Seq(Traversal) /\ Len(travel') = Len(travel) + 1 /\ Len(travel) \in Nat
      /\ \A i \in 1..Len(travel) : travel'[i] = travel[i]
      /\ travel'[Len(travel) + 1] = back
      /\ Cardinality(Pending(travel')) = Cardinality(Pending(travel)) + 1
  BY <1>1, <1>2, PendingAppend
<1>4. HistoryTypes'
  BY <1>1, <1>3
<1>5. PageEntryIsPlain' /\ OpenHasEntry'
  BY <1>1 DEF PageEntryIsPlain, OpenHasEntry
<1>6. DialogsGoBack' /\ OneEntryAbove'
  <2>1. \A i \in 1..Len(travel') : i \in 1..Len(travel) \/ i = Len(travel) + 1
    BY <1>3
  <2>2. Len(travel) + 1 \in 1..Len(travel')
    BY <1>3
  <2> QED
    BY <1>1, <1>2, <1>3, <2>1, <2>2 DEF DialogsGoBack, OneEntryAbove
<1>7. StepsAreAccounted'
  BY <1>0, <1>1, <1>3, PendingFinite DEF StepsAreAccounted
<1> QED
  BY <1>4, <1>5, <1>6, <1>7

\* A use of Back or Forward waits behind what is queued.
LEMMA PressStep ==
    ASSUME HistoryTypes, HistoryInv, NEW delta \in {-1, 1}, PressButton(delta)
    PROVE  HistoryTypes' /\ HistoryInv'
<1> USE DEF HistoryTypes, HistoryInv
<1> DEFINE step == [by |-> "visitor", delta |-> delta]
<1>1. /\ travel' = Append(travel, step)
      /\ UNCHANGED <<selecting, active, entries, pos, pushes, spent, raced>>
  BY DEF PressButton
<1>2. step \in Traversal /\ step.by = "visitor"
  BY DEF Traversal
<1> HIDE DEF step
<1>3. /\ travel' \in Seq(Traversal) /\ Len(travel') = Len(travel) + 1 /\ Len(travel) \in Nat
      /\ \A i \in 1..Len(travel) : travel'[i] = travel[i]
      /\ travel'[Len(travel) + 1] = step
      /\ Cardinality(Pending(travel')) = Cardinality(Pending(travel))
  BY <1>1, <1>2, PendingAppend, PendingFinite
<1>4. HistoryTypes'
  BY <1>1, <1>3
<1>5. PageEntryIsPlain' /\ OpenHasEntry'
  BY <1>1 DEF PageEntryIsPlain, OpenHasEntry
<1>6. DialogsGoBack' /\ OneEntryAbove'
  <2>1. \A i \in 1..Len(travel') : i \in 1..Len(travel) \/ i = Len(travel) + 1
    BY <1>3
  <2>2. 1..Len(travel) \subseteq 1..Len(travel')
    BY <1>3
  <2> QED
    BY <1>1, <1>2, <1>3, <2>1, <2>2 DEF DialogsGoBack, OneEntryAbove
<1>7. StepsAreAccounted'
  BY <1>1, <1>3, PendingFinite DEF StepsAreAccounted
<1> QED
  BY <1>4, <1>5, <1>6, <1>7

\* The sum behind StepsAreAccounted: d is the step of a traversal, of a dialog
\* or the visitor, o the dialog that it dismisses.
LEMMA Accounting ==
    ASSUME NEW d \in {-1, 1}, NEW by, by = "dialog" => d = -1,
           NEW p \in Int, NEW s \in Int, NEW n \in Int, NEW m \in Int, NEW o \in Int,
           s = 2 - p + n + o, n = m + (IF by = "dialog" THEN 1 ELSE 0)
    PROVE  s + (IF by = "dialog" THEN 0 ELSE -d) - o = 2 - (p + d) + m + 0
<1>1. CASE by = "dialog"
  <2>1. d = -1 /\ n = m + 1
    BY <1>1
  <2> QED
    BY <1>1, <2>1
<1>2. CASE by # "dialog"
  <2>1. n = m
    BY <1>2
  <2> QED
    BY <1>2, <2>1
<1> QED
  BY <1>1, <1>2

\* A traversal is done, wherever it leads.
LEMMA TraverseStep ==
    ASSUME HistoryTypes, HistoryInv, pos > 1, Traverse
    PROVE  HistoryTypes' /\ HistoryInv'
<1> USE DEF HistoryTypes, HistoryInv
<1> DEFINE t == Head(travel)
           to == pos + t.delta
           moved == to \in DOMAIN entries
<1>1. /\ travel # << >> /\ travel' = Tail(travel)
      /\ pos' = IF moved THEN to ELSE pos
      /\ spent' = spent + (IF moved /\ t.by = "visitor" THEN -t.delta ELSE 0)
                        - (IF moved /\ to > 1 /\ active # 0 THEN 1 ELSE 0)
      /\ raced' = (raced \/ t.delta = 1)
      /\ UNCHANGED <<entries, pushes>>
  BY DEF Traverse
<1>2. IF moved /\ to > 1
      THEN active' = 0 /\ selecting' = None
      ELSE UNCHANGED <<selecting, active>>
  BY DEF Traverse, HandlePopState, CloseDetail, OpenHasEntry
<1>3. /\ travel' \in Seq(Traversal) /\ t \in Traversal /\ Len(travel) \in Nat \ {0}
      /\ Len(travel') = Len(travel) - 1
      /\ t = travel[1] /\ \A i \in 1..Len(travel') : travel'[i] = travel[i + 1]
      /\ Cardinality(Pending(travel)) =
            Cardinality(Pending(travel')) + (IF t.by = "dialog" THEN 1 ELSE 0)
  BY <1>1, PendingTail
<1>4. t.delta \in {-1, 1} /\ t.by \in {"visitor", "dialog"}
  BY <1>3 DEF Traversal
<1>5. t.by = "dialog" => t.delta = -1
  BY <1>3 DEF DialogsGoBack
<1>6. /\ DOMAIN entries = 1..Len(entries) /\ Len(entries) \in Nat /\ pos \in 2..Len(entries)
      /\ Cardinality(Pending(travel')) \in Nat
  BY <1>3, PendingFinite
<1> HIDE DEF t
<1>7. HistoryTypes'
  <2>1. pos' \in DOMAIN entries'
    BY <1>1
  <2>2. spent' \in Int /\ raced' \in BOOLEAN
    BY <1>1, <1>4
  <2>3. active' \in 0..MaxPushes /\ selecting' \in Works \union {None}
    BY <1>2
  <2> QED
    BY <1>1, <1>3, <2>1, <2>2, <2>3
\* Only a plain entry lies below the entries of dialogs.
<1>8. moved /\ to = 1 => active = 0 /\ selecting = None
  <2> SUFFICES ASSUME moved, to = 1 PROVE active = 0
    BY DEF OpenHasEntry
  <2>1. pos = 2
    BY <1>4, <1>6
  <2> QED
    BY <2>1 DEF PageEntryIsPlain, OpenHasEntry
<1>9. PageEntryIsPlain' /\ OpenHasEntry' /\ DialogsGoBack'
  <2>1. PageEntryIsPlain'
    BY <1>1 DEF PageEntryIsPlain
  <2>2. OpenHasEntry'
    <3>1. CASE moved /\ to > 1
      BY <1>2, <3>1 DEF OpenHasEntry
    <3>2. CASE moved /\ to = 1
      BY <1>2, <1>8, <3>2 DEF OpenHasEntry
    <3>3. CASE ~moved
      BY <1>1, <1>2, <3>3 DEF OpenHasEntry
    <3> QED
      BY <1>4, <1>6, <3>1, <3>2, <3>3
  <2>3. \A i \in 1..Len(travel') : i + 1 \in 1..Len(travel)
    BY <1>3
  <2>4. DialogsGoBack'
    BY <1>3, <2>3 DEF DialogsGoBack
  <2> QED
    BY <2>1, <2>2, <2>4
<1>10. OneEntryAbove'
  <2> SUFFICES ASSUME ~raced' PROVE pos' <= 2
    BY <1>1, <1>6, SMTT(30) DEF OneEntryAbove
  <2>1. ~raced /\ t.delta = -1 /\ pos <= 3
    BY <1>1, <1>4 DEF OneEntryAbove
  <2>2. moved
    BY <1>6, <2>1
  <2> QED
    BY <1>1, <1>6, <2>1, <2>2
<1>11. StepsAreAccounted'
  <2> DEFINE n == Cardinality(Pending(travel))
             m == Cardinality(Pending(travel'))
             open == IF active # 0 THEN 1 ELSE 0
  <2>0. /\ n \in Nat /\ m \in Nat /\ spent \in Int /\ pos \in Int /\ open \in {0, 1}
        /\ spent = 2 - pos + n + open
        /\ n = m + (IF t.by = "dialog" THEN 1 ELSE 0)
    BY <1>3, <1>6, PendingFinite DEF StepsAreAccounted
  <2>1. ASSUME moved
        PROVE  spent' = 2 - pos' + m + (IF active' # 0 THEN 1 ELSE 0)
    <3>1. CASE to > 1
      <4>1. /\ active' = 0 /\ pos' = pos + t.delta
            /\ spent' = spent + (IF t.by = "dialog" THEN 0 ELSE -t.delta) - open
        BY <1>1, <1>2, <1>4, <2>1, <3>1
      <4> HIDE DEF n, m, open, HistoryTypes, HistoryInv
      <4> DEFINE d == t.delta by == t.by
      <4>2. d \in {-1, 1} /\ (by = "dialog" => d = -1)
        BY <1>4, <1>5
      <4> HIDE DEF d, by
      <4>3. spent + (IF by = "dialog" THEN 0 ELSE -d) - open = 2 - (pos + d) + m + 0
        BY <2>0, <4>2, Accounting DEF by
      <4> QED
        BY <4>1, <4>3 DEF d, by
    <3>2. CASE to = 1
      <4>1. /\ active' = 0 /\ open = 0 /\ pos' = pos + t.delta
            /\ spent' = spent + (IF t.by = "dialog" THEN 0 ELSE -t.delta) - open
        BY <1>1, <1>2, <1>4, <1>8, <2>0, <2>1, <3>2
      <4> HIDE DEF n, m, open, HistoryTypes, HistoryInv
      <4> DEFINE d == t.delta by == t.by
      <4>2. d \in {-1, 1} /\ (by = "dialog" => d = -1)
        BY <1>4, <1>5
      <4> HIDE DEF d, by
      <4>3. spent + (IF by = "dialog" THEN 0 ELSE -d) - open = 2 - (pos + d) + m + 0
        BY <2>0, <4>2, Accounting DEF by
      <4> QED
        BY <4>1, <4>3 DEF d, by
    <3> QED
      BY <1>4, <1>6, <2>1, <3>1, <3>2
  <2>2. CASE moved
    BY <2>1, <2>2 DEF StepsAreAccounted
  <2>3. CASE ~moved
    <3>1. t.delta = 1 /\ t.by # "dialog"
      BY <1>4, <1>5, <1>6, <2>3
    <3> QED
      BY <1>1, <1>2, <1>3, <1>6, <2>3, <3>1 DEF StepsAreAccounted
  <2> QED
    BY <2>2, <2>3
<1> QED
  BY <1>7, <1>9, <1>10, <1>11

(***************************************************************************)
(* The locks                                                               *)
(***************************************************************************)

LockTypes ==
    /\ isLock \in BOOLEAN /\ searchOpen \in BOOLEAN /\ crossed \in BOOLEAN
    /\ body \in [{"overflow"} \union Locks -> Overflow]

\* What taking and releasing a lock makes of the body.
LEMMA LockUnlock ==
    ASSUME NEW b \in [{"overflow"} \union Locks -> Overflow], NEW l \in Locks
    PROVE  /\ Lock(b, l) \in [{"overflow"} \union Locks -> Overflow]
           /\ Lock(b, l)["overflow"] = "hidden" /\ Lock(b, l)[l] = b["overflow"]
           /\ \A k \in Locks \ {l} : Lock(b, l)[k] = b[k]
           /\ Unlock(b, l) \in [{"overflow"} \union Locks -> Overflow]
           /\ Unlock(b, l)["overflow"] = b[l]
           /\ \A k \in Locks : Unlock(b, l)[k] = b[k]
BY DEF Lock, Unlock

\* The lock released is the only one, or the younger or the older of two.
LEMMA ReleaseOrder ==
    ASSUME NEW l \in Locks
    PROVE  /\ order = <<l>> => Without(l) = << >> /\ Youngest(l)
           /\ \A k \in Locks \ {l} :
                 /\ order = <<k, l>> => Without(l) = <<k>> /\ Youngest(l)
                 /\ order = <<l, k>> => Without(l) = <<k>> /\ ~Youngest(l)
<1>1. ASSUME order = <<l>>
      PROVE  Without(l) = << >> /\ Youngest(l)
  <2>1. Len(order) = 1 /\ order[1] = l /\ order # << >>
    BY <1>1
  <2>2. SubSeq(order, 1, 0) = << >>
    BY <1>1, SubSeqEmpty
  <2> QED
    BY <2>1, <2>2 DEF Without, Youngest
<1>2. ASSUME NEW k \in Locks \ {l}, order = <<k, l>>
      PROVE  Without(l) = <<k>> /\ Youngest(l)
  <2>1. Len(order) = 2 /\ order[2] = l /\ order[1] = k /\ order # << >>
    BY <1>2
  <2>2. SubSeq(order, 1, 1) = <<k>>
    <3>1. /\ SubSeq(order, 1, 1) \in Seq({k}) /\ Len(SubSeq(order, 1, 1)) = 1
          /\ SubSeq(order, 1, 1)[1] = k
      <4>1. \A i \in 1..1 : order[i] \in {k}
        BY <2>1
      <4> QED
        BY <2>1, <4>1, SubSeqProperties
    <3>2. <<k>> \in Seq({k}) /\ Len(<<k>>) = 1 /\ <<k>>[1] = k
      OBVIOUS
    <3>3. \A i \in 1..Len(SubSeq(order, 1, 1)) : SubSeq(order, 1, 1)[i] = <<k>>[i]
      BY <3>1, <3>2
    <3> QED
      BY <3>1, <3>2, <3>3, SeqEqual
  <2> QED
    BY <2>1, <2>2 DEF Without, Youngest
<1>3. ASSUME NEW k \in Locks \ {l}, order = <<l, k>>
      PROVE  Without(l) = <<k>> /\ ~Youngest(l)
  <2>1. Len(order) = 2 /\ order[2] = k /\ Tail(order) = <<k>>
    BY <1>3
  <2> QED
    BY <1>3, <2>1 DEF Without, Youngest
<1> QED
  BY <1>1, <1>2, <1>3

\* A detail or the search window takes its lock above the one held.
LEMMA TakeStep ==
    ASSUME LockTypes, LockInv, NEW l \in Locks,
           \/ l = "detail" /\ selecting = None /\ selecting' # None /\ searchOpen' = searchOpen
           \/ l = "search" /\ ~searchOpen /\ searchOpen' /\ selecting' = selecting,
           body' = Lock(body, l), order' = Append(order, l), UNCHANGED <<isLock, crossed>>
    PROVE  LockTypes' /\ LockInv'
<1> USE DEF LockTypes, LockInv
<1>1. body' \in [{"overflow"} \union Locks -> Overflow]
      /\ body'["overflow"] = "hidden" /\ body'[l] = body["overflow"]
      /\ \A k \in Locks \ {l} : body'[k] = body[k]
  BY LockUnlock
<1>2. \/ order = << >> /\ order' = <<l>>
      \/ \E k \in Locks \ {l} : order = <<k>> /\ order' = <<k, l>>
  <2>1. order = << >> \/ \E k \in Locks \ {l} : order = <<k>>
    BY DEF OrderIsOfOpen
  <2>2. order = << >> => order' = <<l>>
    OBVIOUS
  <2>3. ASSUME NEW k \in Locks \ {l}, order = <<k>>
        PROVE  order' = <<k, l>>
    <3>1. /\ order' \in Seq(Locks) /\ Len(order') = 2
          /\ order'[1] = k /\ order'[2] = l
      BY <2>3
    <3>2. /\ <<k, l>> \in Seq(Locks) /\ Len(<<k, l>>) = 2
          /\ <<k, l>>[1] = k /\ <<k, l>>[2] = l
      OBVIOUS
    <3>3. \A i \in 1..Len(order') : order'[i] = <<k, l>>[i]
      BY <3>1, <3>2
    <3> QED
      BY <3>1, <3>2, <3>3, SeqEqual, ZenonT(30)
  <2>4. CASE \E k \in Locks \ {l} : order = <<k>>
    <3>1. PICK k \in Locks \ {l} : order = <<k>>
      BY <2>4
    <3>2. order' = <<k, l>>
      BY <2>3, <3>1
    <3> QED
      BY <3>1, <3>2, Zenon
  <2> QED
    BY <2>1, <2>2, <2>4
<1>3. LockTypes'
  BY <1>1
<1>4. OrderIsOfOpen'
  BY <1>2 DEF OrderIsOfOpen
<1>5. LocksAreNested'
  <2>1. CASE order = << >> /\ order' = <<l>>
    BY <1>1, <2>1 DEF LocksAreNested, Base
  <2>2. ASSUME NEW k \in Locks \ {l}, order = <<k>>, order' = <<k, l>>
        PROVE  LocksAreNested'
    BY <1>1, <2>2 DEF LocksAreNested, Base
  <2> QED
    BY <1>2, <2>1, <2>2
<1> QED
  BY <1>3, <1>4, <1>5

\* It releases it to what the body was before, unless a younger lock is held:
\* then the order of release is crossed.
LEMMA ReleaseStep ==
    ASSUME LockTypes, LockInv, NEW l \in Locks,
           \/ l = "detail" /\ selecting # None /\ selecting' = None /\ searchOpen' = searchOpen
           \/ l = "search" /\ searchOpen /\ ~searchOpen' /\ selecting' = selecting,
           searchOpen' \in BOOLEAN, UNCHANGED isLock,
           body' = Unlock(body, l), order' = Without(l), crossed' = (crossed \/ ~Youngest(l))
    PROVE  LockTypes' /\ LockInv'
<1> USE DEF LockTypes, LockInv
<1>1. body' \in [{"overflow"} \union Locks -> Overflow]
      /\ body'["overflow"] = body[l] /\ \A k \in Locks : body'[k] = body[k]
  BY LockUnlock
<1>2. \/ order = <<l>> /\ order' = << >> /\ crossed' = crossed
      \/ \E k \in Locks \ {l} : order = <<k, l>> /\ order' = <<k>> /\ crossed' = crossed
      \/ \E k \in Locks \ {l} : order = <<l, k>> /\ order' = <<k>> /\ crossed'
  <2>1. order = <<l>> \/ \E k \in Locks \ {l} : order = <<k, l>> \/ order = <<l, k>>
    BY DEF OrderIsOfOpen
  <2> QED
    BY <2>1, ReleaseOrder
<1>3. LockTypes'
  BY <1>1
<1>4. OrderIsOfOpen'
  BY <1>2 DEF OrderIsOfOpen
<1>5. LocksAreNested'
  <2>1. CASE order = <<l>> /\ order' = << >> /\ crossed' = crossed
    BY <1>1, <2>1 DEF LocksAreNested, Base
  <2>2. ASSUME NEW k \in Locks \ {l}, order = <<k, l>>, order' = <<k>>, crossed' = crossed
        PROVE  LocksAreNested'
    BY <1>1, <2>2 DEF LocksAreNested, Base
  <2>3. CASE crossed'
    BY <2>3 DEF LocksAreNested
  <2> QED
    BY <1>2, <2>1, <2>2, <2>3
<1> QED
  BY <1>3, <1>4, <1>5

-----------------------------------------------------------------------------
(***************************************************************************)
(* Theorems                                                                *)
(***************************************************************************)

\* It holds when the page has been opened.
LEMMA InitInv == Init => IInv
<1> SUFFICES ASSUME Init PROVE IInv
  OBVIOUS
<1> USE DEF Init
<1>1. entries \in Seq(0..MaxPushes) /\ Len(entries) = 2 /\ DOMAIN entries = 1..2
      /\ travel \in Seq(Traversal) /\ Len(travel) = 0 /\ order \in Seq(Locks)
  OBVIOUS
<1>2. TypeOK
  <2>1. body \in [{"overflow"} \union Locks -> Overflow]
    OBVIOUS
  <2>2. pos \in DOMAIN entries /\ active \in 0..MaxPushes /\ pushes \in 0..MaxPushes
        /\ moves \in 0..MaxMoves /\ spent \in Int
    BY <1>1
  <2> QED
    BY <1>1, <2>1, <2>2 DEF TypeOK, Traversal
<1>3. PageEntryIsPlain /\ OpenHasEntry /\ DialogsGoBack /\ OneEntryAbove
  BY <1>1 DEF PageEntryIsPlain, OpenHasEntry, DialogsGoBack, OneEntryAbove
<1>4. StepsAreAccounted
  <2>1. Pending(travel) = {}
    BY <1>1 DEF Pending
  <2> QED
    BY <2>1, FS_EmptySet DEF StepsAreAccounted
<1>5. LockInv
  BY DEF LockInv, OrderIsOfOpen, LocksAreNested, Base
<1> QED
  BY <1>2, <1>3, <1>4, <1>5 DEF IInv, HistoryInv

\* The types that no part of the invariant is about.
PageTypes ==
    /\ chosen \in Works \union {None} /\ last \in Works \union {None}
    /\ recent \subseteq Works
    /\ moves \in 0..MaxMoves

\* TypeOK in three parts.
LEMMA TypesAreParts ==
    LockInv => (TypeOK <=> HistoryTypes /\ LockTypes /\ PageTypes)
<1>1. OrderIsOfOpen => order \in Seq(Locks)
  <2>1. OrderIsOfOpen =>
           order \in {<< >>, <<"detail">>, <<"search">>, <<"search", "detail">>,
                      <<"detail", "search">>}
    BY DEF OrderIsOfOpen
  <2>2. /\ << >> \in Seq(Locks) /\ <<"detail">> \in Seq(Locks) /\ <<"search">> \in Seq(Locks)
        /\ <<"search", "detail">> \in Seq(Locks) /\ <<"detail", "search">> \in Seq(Locks)
    OBVIOUS
  <2> QED
    BY <2>1, <2>2
<1> QED
  BY <1>1 DEF LockInv, TypeOK, HistoryTypes, LockTypes, PageTypes, Traversal

\* Every event keeps the history and the locks as they should be.
LEMMA StepInv ==
    ASSUME IInv, [Next]_vars
    PROVE  IInv'
<1>0. HistoryTypes /\ LockTypes /\ PageTypes /\ HistoryInv /\ LockInv
  BY TypesAreParts DEF IInv
<1> SUFFICES (HistoryTypes /\ HistoryInv)' /\ (LockTypes /\ LockInv)' /\ PageTypes'
  <2>1. (LockInv => (TypeOK <=> HistoryTypes /\ LockTypes /\ PageTypes))'
    BY TypesAreParts, PTL
  <2> QED
    BY <2>1 DEF IInv
<1> USE <1>0
<1>1. ASSUME UNCHANGED <<selecting, historyVars, spent, raced>>
      PROVE  (HistoryTypes /\ HistoryInv)'
  <2>1. HistoryTypes' <=> HistoryTypes
    BY <1>1 DEF HistoryTypes
  <2>2. HistoryInv' <=> HistoryInv
    BY <1>1 DEF HistoryInv, PageEntryIsPlain, OpenHasEntry, DialogsGoBack, OneEntryAbove,
       StepsAreAccounted, Pending
  <2> QED
    BY <2>1, <2>2
<1>2. ASSUME UNCHANGED <<isLock, searchOpen, lockVars>>,
             selecting' = selecting \/ (selecting # None /\ selecting' # None)
      PROVE  (LockTypes /\ LockInv)'
  <2>1. LockTypes'
    BY <1>2 DEF LockTypes
  <2>2. LockInv'
    BY <1>2 DEF LockInv, OrderIsOfOpen, LocksAreNested, Base
  <2> QED
    BY <2>1, <2>2
<1>3. ASSUME pos > 1, NEW w \in Works, OpenDetail(w), UNCHANGED <<isLock, searchOpen, spent>>
      PROVE  /\ (HistoryTypes /\ HistoryInv)' /\ (LockTypes /\ LockInv)'
             /\ chosen' = None /\ last' \in Works
  <2>0. w # None
    OBVIOUS
  <2>1. chosen' = None /\ last' = w /\ selecting' = w /\ crossed' = crossed
    BY <1>3 DEF OpenDetail
  <2>2. CASE selecting = None
    <3>1. (HistoryTypes /\ HistoryInv)'
      BY <1>3, <2>2, PushStep DEF OpenDetail
    <3>2. (LockTypes /\ LockInv)'
      BY <1>3, <2>0, <2>2, TakeStep DEF OpenDetail
    <3> QED
      BY <2>1, <3>1, <3>2
  <2>3. CASE selecting # None
    <3>1. UNCHANGED <<body, order, historyVars, raced>>
      BY <1>3, <2>3 DEF OpenDetail
    <3>2. HistoryTypes' /\ HistoryInv'
      <4>1. HistoryTypes'
        BY <1>3, <2>1, <3>1 DEF HistoryTypes
      <4>2. /\ PageEntryIsPlain' /\ OpenHasEntry' /\ DialogsGoBack'
            /\ OneEntryAbove' /\ StepsAreAccounted'
        BY <1>3, <2>0, <2>1, <2>3, <3>1 DEF HistoryInv, PageEntryIsPlain, OpenHasEntry,
           DialogsGoBack, OneEntryAbove, StepsAreAccounted, Pending
      <4> QED
        BY <4>1, <4>2 DEF HistoryInv
    <3>3. (LockTypes /\ LockInv)'
      BY <1>2, <1>3, <2>0, <2>1, <2>3, <3>1
    <3> QED
      BY <2>1, <3>2, <3>3
  <2> QED
    BY <2>2, <2>3
<1>4. ASSUME pos > 1, NEW w \in Works, ClickCard(w)
      PROVE  (HistoryTypes /\ HistoryInv)' /\ (LockTypes /\ LockInv)' /\ PageTypes'
  <2>0. w # None /\ UNCHANGED <<isLock, searchOpen, moves, spent>>
    BY <1>4 DEF ClickCard
  <2>1. CASE selecting = w
    <3>1. CloseDetail /\ TakeBackEntry /\ recent' = recent
      BY <1>4, <2>1 DEF ClickCard
    <3>2. (HistoryTypes /\ HistoryInv)'
      BY <2>0, <2>1, <3>1, TakeBackStep DEF CloseDetail
    <3>3. (LockTypes /\ LockInv)'
      BY <2>0, <2>1, <3>1, ReleaseStep DEF CloseDetail, LockTypes
    <3> QED
      BY <2>0, <3>1, <3>2, <3>3 DEF CloseDetail, PageTypes
  <2>2. CASE selecting # w
    <3>1. OpenDetail(w) /\ recent' = recent \union {w}
      BY <1>4, <2>2 DEF ClickCard
    <3> QED
      BY <1>3, <1>4, <2>0, <3>1 DEF PageTypes
  <2> QED
    BY <2>1, <2>2
<1>5. ASSUME NEW w \in Works, Choose(w)
      PROVE  (HistoryTypes /\ HistoryInv)' /\ PageTypes' /\ UNCHANGED <<isLock, selecting>>
  BY <1>1, <1>5 DEF Choose, PageTypes
<1>6. ASSUME NEW w \in Works, ClickCube(w)
       PROVE  (HistoryTypes /\ HistoryInv)' /\ (LockTypes /\ LockInv)' /\ PageTypes'
  BY <1>2, <1>5, <1>6 DEF ClickCube
<1>7. ASSUME NEW w \in Works, ClickHit(w)
       PROVE  (HistoryTypes /\ HistoryInv)' /\ (LockTypes /\ LockInv)' /\ PageTypes'
  <2>1. searchOpen /\ ReleaseSearch /\ Choose(w)
    BY <1>7 DEF ClickHit
  <2>2. (LockTypes /\ LockInv)'
    BY <1>5, <2>1, ReleaseStep DEF ReleaseSearch, LockTypes
  <2> QED
    BY <1>5, <2>1, <2>2
<1>8. ASSUME pos > 1, RenderChosen
       PROVE  (HistoryTypes /\ HistoryInv)' /\ (LockTypes /\ LockInv)' /\ PageTypes'
  <2>1. chosen \in Works /\ OpenDetail(chosen) /\ UNCHANGED <<isLock, recent, searchOpen, moves, spent>>
    BY <1>8 DEF RenderChosen, PageTypes
  <2> QED
    BY <1>3, <1>8, <2>1 DEF PageTypes
<1>9. CASE DismissDetail
  <2>1. (HistoryTypes /\ HistoryInv)'
    BY <1>9, TakeBackStep DEF DismissDetail, CloseDetail
  <2>2. (LockTypes /\ LockInv)'
    BY <1>9, ReleaseStep DEF DismissDetail, CloseDetail, LockTypes
  <2> QED
    BY <1>9, <2>1, <2>2 DEF DismissDetail, CloseDetail, PageTypes
<1>10. CASE OpenSearch
  <2>1. (LockTypes /\ LockInv)'
    BY <1>10, TakeStep DEF OpenSearch
  <2> QED
    BY <1>1, <1>10, <2>1 DEF OpenSearch, PageTypes
<1>11. CASE CloseSearch
  <2>1. (LockTypes /\ LockInv)'
    BY <1>11, ReleaseStep DEF CloseSearch, ReleaseSearch, LockTypes
  <2> QED
    BY <1>1, <1>11, <2>1 DEF CloseSearch, PageTypes
<1>12. ASSUME NEW delta \in {-1, 1}, PressButton(delta)
      PROVE  (HistoryTypes /\ HistoryInv)' /\ (LockTypes /\ LockInv)' /\ PageTypes'
  <2>1. (HistoryTypes /\ HistoryInv)'
    BY <1>12, PressStep
  <2>2. (LockTypes /\ LockInv)'
    BY <1>2, <1>12 DEF PressButton
  <2> QED
    BY <1>12, <2>1, <2>2 DEF PressButton, PageTypes
<1>13. ASSUME pos > 1, Traverse
       PROVE  (HistoryTypes /\ HistoryInv)' /\ (LockTypes /\ LockInv)' /\ PageTypes'
  <2>1. (HistoryTypes /\ HistoryInv)'
    BY <1>13, TraverseStep
  <2>2. \/ selecting # None /\ CloseDetail
        \/ UNCHANGED <<selecting, chosen, last, lockVars>>
    BY <1>13 DEF Traverse, HandlePopState, HistoryInv, OpenHasEntry
  <2>3. UNCHANGED <<isLock, recent, searchOpen, moves>>
    BY <1>13 DEF Traverse
  <2>4. (LockTypes /\ LockInv)'
    <3>1. CASE selecting # None /\ CloseDetail
      BY <2>3, <3>1, ReleaseStep DEF CloseDetail, LockTypes
    <3>2. CASE UNCHANGED <<selecting, chosen, last, lockVars>>
      BY <1>2, <2>3, <3>2
    <3> QED
      BY <2>2, <3>1, <3>2
  <2> QED
    BY <2>1, <2>2, <2>3, <2>4 DEF CloseDetail, PageTypes
<1>14. ASSUME NEW w \in Works, Forget(w)
       PROVE  (HistoryTypes /\ HistoryInv)' /\ (LockTypes /\ LockInv)' /\ PageTypes'
  BY <1>1, <1>2, <1>14 DEF Forget, PageTypes
<1>15. CASE UNCHANGED vars
  BY <1>1, <1>2, <1>15 DEF PageTypes
<1> QED
  BY <1>4, <1>6, <1>7, <1>8, <1>9, <1>10, <1>11, <1>12, <1>13, <1>14, <1>15
     DEF Next, Visitor

\* The invariant holds in every state.
THEOREM Invariant == Spec => []IInv
BY InitInv, StepInv, PTL DEF Spec

\* Every variable keeps its type.
THEOREM TypeCorrect == Spec => []TypeOK
<1>1. IInv => TypeOK
  BY DEF IInv
<1> QED
  BY <1>1, Invariant, PTL

\* An open detail always stands on an entry of its own, known to the hook.
THEOREM DetailOwnsItsEntry == Spec => []OpenHasEntry
<1>1. IInv => OpenHasEntry
  BY DEF IInv, HistoryInv
<1> QED
  BY <1>1, Invariant, PTL

\* With nothing open and nothing queued the visitor is on no dead entry.
THEOREM NoEntryIsLeftBehind == Spec => []NoDeadEntry
<1>1. ASSUME IInv
      PROVE  NoDeadEntry
  <2> SUFFICES ASSUME selecting = None, travel = << >>, ~raced
               PROVE  entries[pos] = 0
    BY DEF NoDeadEntry
  <2>1. pos \in 1..Len(entries) /\ Len(entries) \in Nat /\ pos <= 3
    BY <1>1 DEF IInv, TypeOK, HistoryInv, OneEntryAbove
  <2>2. Len(travel) = 0
    OBVIOUS
  <2>3. pos # 3
    BY <1>1, <2>2 DEF IInv, HistoryInv, OneEntryAbove
  <2> QED
    BY <1>1, <2>1, <2>3 DEF IInv, HistoryInv, PageEntryIsPlain
<1> QED
  BY <1>1, Invariant, PTL

\* However dialogs are closed between them, the page is left only by a Back
\* that dismissed nothing.
THEOREM LeavingIsAsked == Spec => []LeavingTakesABackOfItsOwn
<1>1. ASSUME IInv
      PROVE  LeavingTakesABackOfItsOwn
  <2> SUFFICES ASSUME pos = 1
               PROVE  spent >= 1
    BY DEF LeavingTakesABackOfItsOwn
  <2>1. travel \in Seq(Traversal)
    BY <1>1 DEF IInv, TypeOK, Traversal
  <2>2. Cardinality(Pending(travel)) \in Nat
    BY <2>1, PendingFinite
  <2> QED
    BY <1>1, <2>2 DEF IInv, HistoryInv, StepsAreAccounted
<1> QED
  BY <1>1, Invariant, PTL

\* The body is locked exactly while the page was opened locked or a window is
\* open, unless locks were released in the order they were taken in.
THEOREM LockedExactlyWhileOpen == Spec => []LockedWhileOpen
<1>1. ASSUME IInv
      PROVE  LockedWhileOpen
  <2> SUFFICES ASSUME ~crossed
               PROVE  body["overflow"] = "hidden" <=> (isLock \/ searchOpen \/ selecting # None)
    BY DEF LockedWhileOpen
  <2>1. /\ isLock \in BOOLEAN
        /\ order = << >> => body["overflow"] = Base
        /\ order # << >> => body["overflow"] = "hidden"
    BY <1>1 DEF IInv, TypeOK, LockInv, LocksAreNested
  <2>2. order = << >> <=> ~searchOpen /\ selecting = None
    BY <1>1 DEF IInv, LockInv, OrderIsOfOpen
  <2> QED
    BY <2>1, <2>2 DEF Base
<1> QED
  BY <1>1, Invariant, PTL
=============================================================================
