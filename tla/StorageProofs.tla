----------------------------- MODULE StorageProofs -----------------------------
(***************************************************************************)
(* What one node keeps on disk: the safety properties of module Storage,   *)
(* for a log, a term and a bound of any size.                              *)
(*                                                                         *)
(* FileInv ties the file to the memory: while the process is up the file,  *)
(* as last synced, is the frames of the log in memory, and a file          *)
(* operation under way is the work on the first entry that is left to do;  *)
(* after a crash the file still starts with the frames of one log, and     *)
(* what follows them is not intact.  SaveInv says of which states the two  *)
(* names of the state file can be.  CallInv is the invariant of the loop   *)
(* of AppendAfter, and SavedInv orders the entries after their terms.      *)
(*                                                                         *)
(* What a file operation leaves when it fails half-way (HalfwaySpec) is    *)
(* outside of these theorems: run storage_halfway shows that they do not   *)
(* hold of it.                                                             *)
(***************************************************************************)
EXTENDS Storage, RaftLogProofs

\* What records, pieces and states of the state file are.
Rec == [term : 0..MaxTerm, index : Nat]

Piece == [rec : Rec, part : 0..2]

StateType == [term : 0..MaxTerm, vote : BOOLEAN]

Ordered(l) == \A k \in 1..Len(l) : l[k].index = k

\* File f starts with the frames of log l.
Starts(f, l) ==
    /\ 2 * Len(l) <= Len(f)
    /\ \A k \in 1..Len(l) : /\ f[2 * k - 1] = [rec |-> l[k], part |-> 1]
                            /\ f[2 * k] = [rec |-> l[k], part |-> 2]

\* ReadAll finds log l in file f.
Reads(f, l) == Starts(f, l) /\ ~Intact(f, Len(l) + 1)

Framed(f, l) == Starts(f, l) /\ Len(f) = 2 * Len(l)

-----------------------------------------------------------------------------
(* Sequences *)

\* The first n elements of a sequence.
LEMMA FirstIs ==
    ASSUME NEW S, NEW a \in Seq(S), NEW n \in 0..Len(a)
    PROVE  LET p == SubSeq(a, 1, n)
           IN  p \in Seq(S) /\ Len(p) = n /\ \A k \in 1..n : p[k] = a[k]
  <1> DEFINE p == SubSeq(a, 1, n)
  <1>1. n \in Nat /\ Len(a) \in Nat /\ \A i \in 1..n : a[i] \in S
    OBVIOUS
  <1>2. /\ p \in Seq(S) /\ Len(p) = IF 1 <= n THEN n - 1 + 1 ELSE 0
        /\ \A k \in 1..(n - 1 + 1) : p[k] = a[1 + k - 1]
    BY <1>1, SubSeqProperties
  <1> HIDE DEF p
  <1>3. Len(p) = n
    BY <1>1, <1>2
  <1>4. ASSUME NEW k \in 1..n PROVE p[k] = a[k]
    <2>1. k \in 1..(n - 1 + 1) /\ 1 + k - 1 = k
      BY <1>1
    <2>2. QED BY <1>2, <2>1
  <1>5. QED BY <1>2, <1>3, <1>4 DEF p

\* The first elements of one sequence are a prefix of another one.
LEMMA PrefixIff ==
    ASSUME NEW S, NEW a \in Seq(S), NEW b \in Seq(S), NEW n \in 0..Len(a)
    PROVE  IsPrefix(SubSeq(a, 1, n), b) <=> n <= Len(b) /\ \A k \in 1..n : a[k] = b[k]
  <1>1. PICK p : p = SubSeq(a, 1, n)
    OBVIOUS
  <1>2. p \in Seq(S) /\ Len(p) = n /\ \A k \in 1..n : p[k] = a[k]
    BY <1>1, FirstIs
  <1>3. SubSeq(p, 1, Len(p)) = p
    BY <1>2, SubSeqFull
  <1>4. CASE n <= Len(b)
    <2>1. n \in 0..Len(b)
      BY <1>4
    <2>2. PICK q : q = SubSeq(b, 1, n)
      OBVIOUS
    <2>3. q \in Seq(S) /\ Len(q) = n /\ \A k \in 1..n : q[k] = b[k]
      BY <2>1, <2>2, FirstIs
    <2>4. p = q <=> \A k \in 1..n : a[k] = b[k]
      <3>1. ASSUME p = q PROVE \A k \in 1..n : a[k] = b[k]
        BY <1>2, <2>3, <3>1
      <3>2. ASSUME \A k \in 1..n : a[k] = b[k] PROVE p = q
        <4>1. \A k \in 1..Len(p) : p[k] = q[k]
          BY <1>2, <2>3, <3>2
        <4>2. QED BY <1>2, <2>3, <4>1, SeqEqual
      <3>3. QED BY <3>1, <3>2
    <2>5. QED BY <1>1, <1>2, <1>3, <1>4, <2>2, <2>4 DEF IsPrefix
  <1>5. CASE ~(n <= Len(b))
    BY <1>1, <1>2, <1>5 DEF IsPrefix
  <1>6. QED BY <1>4, <1>5

\* How long the longest common prefix of two sequences is.
LEMMA SharedIs ==
    ASSUME NEW S, NEW a \in Seq(S), NEW b \in Seq(S)
    PROVE  LET n == Len(LongestCommonPrefix({a, b}))
           IN  /\ n \in Nat /\ n <= Len(a) /\ n <= Len(b)
               /\ \A k \in 1..n : a[k] = b[k]
               /\ \A m \in 0..Len(a) : m <= Len(b) /\ (\A k \in 1..m : a[k] = b[k]) => m <= n
  <1> DEFINE C == CommonPrefixes({a, b})
             Ns == {n \in 0..Len(a) : n <= Len(b) /\ \A k \in 1..n : a[k] = b[k]}
             Is(c) == c \in C /\ \A o \in C : Len(o) <= Len(c)
  <1>1. Len(a) \in Nat /\ Len(b) \in Nat
    OBVIOUS
  <1>2. ASSUME NEW n \in Ns
        PROVE  SubSeq(a, 1, n) \in C /\ Len(SubSeq(a, 1, n)) = n
    <2>0. n \in 0..Len(a) /\ n <= Len(b) /\ n <= Len(a) /\ \A k \in 1..n : a[k] = b[k]
      BY <1>1
    <2>1. n \in 0..Len(a) /\ IsPrefix(SubSeq(a, 1, n), b) /\ IsPrefix(SubSeq(a, 1, n), a)
      <3>1. IsPrefix(SubSeq(a, 1, n), b)
        BY <2>0, PrefixIff
      <3>2. IsPrefix(SubSeq(a, 1, n), a)
        BY <2>0, PrefixIff
      <3>3. QED BY <2>0, <3>1, <3>2
    <2>2. SubSeq(a, 1, n) \in Prefixes(a)
      BY <2>1 DEF Prefixes
    <2>3. QED BY <2>1, <2>2, FirstIs DEF CommonPrefixes
  <1>3. ASSUME NEW p \in C
        PROVE  \E n \in Ns : p = SubSeq(a, 1, n) /\ Len(p) = n
    <2>1. IsPrefix(p, a) /\ IsPrefix(p, b) /\ (p \in Prefixes(a) \/ p \in Prefixes(b))
      BY DEF CommonPrefixes
    <2>2. p \in Seq(S)
      BY <2>1, FirstIs DEF Prefixes
    <2>3. SubSeq(p, 1, Len(p)) = p /\ Len(p) \in Nat
      BY <2>2, SubSeqFull
    <2>4. p = SubSeq(a, 1, Len(p)) /\ Len(p) \in 0..Len(a)
      BY <1>1, <2>1, <2>3 DEF IsPrefix
    <2>5. Len(p) <= Len(b) /\ \A k \in 1..Len(p) : a[k] = b[k]
      BY <2>1, <2>4, PrefixIff
    <2>6. QED BY <2>4, <2>5
  <1>4. Ns \in SUBSET (0..Len(a)) /\ 0 \in Ns
    BY <1>1
  <1>5. PICK g \in Ns : \A k \in Ns : k <= g
    <2> HIDE DEF Ns
    <2>1. QED BY <1>1, <1>4, GreatestBounded
  <1>6. Is(SubSeq(a, 1, g))
    BY <1>2, <1>3, <1>5
  <1>7. LongestCommonPrefix({a, b}) = CHOOSE c \in C : \A o \in C : Len(o) <= Len(c)
    BY DEF LongestCommonPrefix
  <1> HIDE DEF C, Ns
  <1>8. PICK c : c = LongestCommonPrefix({a, b}) /\ Is(c)
    BY <1>6, <1>7
  <1>9. PICK n \in Ns : c = SubSeq(a, 1, n) /\ Len(c) = n
    BY <1>3, <1>8
  <1>10. ASSUME NEW m \in Ns PROVE m <= n
    <2>1. PICK x : x \in C /\ Len(x) = m
      BY <1>2
    <2>2. Len(c) = n /\ Len(x) <= Len(c)
      BY <1>8, <1>9, <2>1
    <2>3. QED BY <2>1, <2>2
  <1>11. n \in Nat /\ n <= Len(a) /\ n <= Len(b) /\ \A k \in 1..n : a[k] = b[k]
    BY <1>1 DEF Ns
  <1>12. \A m \in 0..Len(a) : m <= Len(b) /\ (\A k \in 1..m : a[k] = b[k]) => m <= n
    BY <1>10 DEF Ns
  <1>13. n = Len(LongestCommonPrefix({a, b}))
    BY <1>8, <1>9
  <1>14. QED BY <1>11, <1>12, <1>13

-----------------------------------------------------------------------------
(* What ReadAll finds *)

\* ReadAll finds the log that a file starts with.
LEMMA ReadsIs ==
    ASSUME NEW f \in Seq(Piece), NEW l \in Seq(Rec), Reads(f, l)
    PROVE  IntactFrames(f) = Len(l) /\ Records(f) = l /\ ValidBytes(f) = 2 * Len(l)
  <1>1. Len(f) \in Nat /\ Len(l) \in Nat /\ Starts(f, l) /\ ~Intact(f, Len(l) + 1)
    BY DEF Reads
  <1>2. ASSUME NEW k \in 1..Len(l)
        PROVE  Intact(f, k) /\ f[2 * k].rec = l[k]
    <2>1. 2 * k <= Len(f)
      BY <1>1 DEF Starts
    <2>2. f[2 * k - 1] = [rec |-> l[k], part |-> 1] /\ f[2 * k] = [rec |-> l[k], part |-> 2]
      BY <1>1 DEF Starts
    <2>3. QED BY <2>1, <2>2 DEF Intact, FrameSize
  <1>3. Len(l) \in 0..Len(f)
    BY <1>1 DEF Starts
  <1>4. ASSUME NEW n \in 0..Len(f), \A k \in 1..n : Intact(f, k), ~Intact(f, n + 1)
        PROVE  n = Len(l)
    <2>1. CASE n < Len(l)
      <3>1. n + 1 \in 1..Len(l)
        BY <1>1, <2>1
      <3>2. QED BY <1>2, <1>4, <3>1
    <2>2. CASE n > Len(l)
      <3>1. Len(l) + 1 \in 1..n
        BY <1>1, <2>2
      <3>2. QED BY <1>1, <1>4, <3>1
    <2>3. QED BY <1>1, <2>1, <2>2
  <1> DEFINE Is(n) == (\A k \in 1..n : Intact(f, k)) /\ ~Intact(f, n + 1)
  <1>5. IntactFrames(f) = Len(l)
    <2>1. IntactFrames(f) = CHOOSE n \in 0..Len(f) : Is(n)
      BY DEF IntactFrames
    <2>2. Is(Len(l)) /\ \A n \in 0..Len(f) : Is(n) => n = Len(l)
      BY <1>1, <1>2, <1>4
    <2> HIDE DEF Is
    <2>3. QED BY <1>3, <2>1, <2>2
  <1>6. Records(f) = l
    <2>1. Records(f) = [k \in 1..Len(l) |-> f[2 * k].rec]
      BY <1>5 DEF Records, FrameSize
    <2>2. l = [k \in 1..Len(l) |-> l[k]]
      OBVIOUS
    <2>3. QED BY <1>2, <2>1, <2>2
  <1>7. QED BY <1>5, <1>6 DEF ValidBytes, FrameSize

-----------------------------------------------------------------------------
(* The state file *)

SaveInv ==
    /\ mode \in {"up", "down"}
    /\ state \in StateType
    /\ named.synced /\ onDisk.synced
    /\ named.data \in StateType /\ onDisk.data \in StateType
    /\ saving \in {"no", "written", "synced", "renamed"}
    /\ saving = "written" => tmp = File(state, FALSE)
    /\ saving = "synced" => tmp = File(state, TRUE)
    /\ saving = "renamed" => named = File(state, TRUE)
    /\ named.data \in promised /\ onDisk.data \in promised
    /\ saving # "no" => state \in promised
    /\ mode = "down" => saving = "no" /\ named = onDisk
    /\ mode = "up" /\ saving = "no" /\ ~failed => named.data = state /\ onDisk.data = state

\* A crash leaves one of two states under the name of the state file.
LEMMA CrashStates ==
    ASSUME SaveInv
    PROVE  StatesAfterCrash = {named.data, onDisk.data}
  <1>1. named.synced /\ onDisk.synced
    BY DEF SaveInv
  <1>2. StatesAfterCrash = (IF named.synced THEN {named.data} ELSE {named.data, NoState})
                           \cup (IF onDisk.synced THEN {onDisk.data} ELSE {onDisk.data, NoState})
    BY DEF StatesAfterCrash
  <1>3. QED BY <1>1, <1>2

\* What a step may do to the mode of the process.
LEMMA ModeMoves ==
    ASSUME [Next]_vars
    PROVE  \/ mode' = mode /\ UNCHANGED stateVars
           \/ /\ mode' = mode /\ UNCHANGED <<logVars, leader>>
              /\ StateStep \/ \E t \in 1..MaxTerm, v \in BOOLEAN :
                                 ChangeState([term |-> t, vote |-> v])
           \/ Crash
           \/ CrashAgain
           \/ Start
  <1>1. ASSUME LogStep PROVE mode' = mode
    BY <1>1 DEF LogStep, SkipDuplicate, Truncate, Write, LogFails, SyncTruncate, SyncWrite,
                LogReturns
  <1>2. ASSUME RecoverLog PROVE mode' = mode
    BY <1>2 DEF RecoverLog, RepairTail, SyncRepair
  <1>3. ASSUME ProposeHere PROVE mode' = mode /\ UNCHANGED stateVars
    BY <1>3 DEF ProposeHere, CallLog
  <1>4. ASSUME NEW prevIndex \in 0..Len(leader), NEW n \in 1..(Len(leader) - prevIndex),
               AppendRequest(prevIndex, n)
        PROVE  mode' = mode /\ UNCHANGED stateVars
    BY <1>4 DEF AppendRequest, CallLog
  <1>5. CASE UNCHANGED vars
    BY <1>5 DEF vars, logVars
  <1>6. ASSUME NEW t \in 1..MaxTerm, NEW v \in BOOLEAN, ChangeState([term |-> t, vote |-> v])
        PROVE  mode' = mode /\ UNCHANGED <<logVars, leader>>
    BY <1>6 DEF ChangeState, logVars
  <1>7. ASSUME UNCHANGED logVars PROVE mode' = mode
    BY <1>7 DEF logVars
  <1>8. QED
    BY <1>1, <1>2, <1>3, <1>4, <1>5, <1>6, <1>7 DEF Next

\* Save, one file operation at a time, keeps what a crash may find complete.
LEMMA NextSaveInv ==
    ASSUME SaveInv, mode' # "refused", [Next]_vars
    PROVE  SaveInv'
  <1>1. CASE mode' = mode /\ UNCHANGED stateVars
    BY <1>1 DEF SaveInv, stateVars
  <1>2. ASSUME NEW t \in 1..MaxTerm, NEW v \in BOOLEAN, ChangeState([term |-> t, vote |-> v]),
               mode' = mode
        PROVE  SaveInv'
    <2>1. [term |-> t, vote |-> v] \in StateType
      BY StorageAssumption DEF StateType
    <2>2. QED
      BY <1>2, <2>1 DEF ChangeState, Save, SaveInv
  <1>3. ASSUME SaveSync, mode' = mode PROVE SaveInv'
    <2>1. tmp = [data |-> state, synced |-> FALSE] /\ tmp' = [tmp EXCEPT !.synced = TRUE]
      BY <1>3 DEF SaveSync, SyncedTmp, SaveInv, File
    <2>2. tmp' = [data |-> state, synced |-> TRUE]
      BY <2>1
    <2>3. tmp' = File(state, TRUE)
      BY <2>2 DEF File
    <2>4. QED BY <1>3, <2>3 DEF SaveSync, SaveInv
  <1>4. ASSUME SaveRename, mode' = mode PROVE SaveInv'
    BY <1>4 DEF SaveRename, SaveInv, File
  <1>5. ASSUME SaveSyncDir, mode' = mode PROVE SaveInv'
    BY <1>5 DEF SaveSyncDir, SaveInv, File
  <1>6. ASSUME SaveFails, mode' = mode PROVE SaveInv'
    BY <1>6 DEF SaveFails, SaveInv
  <1>7. ASSUME mode' = "down", CrashState PROVE SaveInv'
    <2>1. PICK st \in {named.data, onDisk.data} : named' = File(st, TRUE) /\ onDisk' = File(st, TRUE)
      BY <1>7, CrashStates DEF CrashState
    <2>2. NewState \in StateType
      BY StorageAssumption DEF NewState, StateType
    <2>3. QED BY <1>7, <2>1, <2>2 DEF CrashState, SaveInv, File
  <1>8. ASSUME CrashAgain PROVE SaveInv'
    BY <1>8 DEF CrashAgain, CrashLog, SaveInv, stateVars
  <1>9. ASSUME Start PROVE SaveInv'
    <2>1. mode = "down" /\ mode' = "up"
      BY <1>9 DEF Start, OpenLog
    <2>2. OpenStateStore
      BY <1>9, <2>1 DEF Start
    <2>3. QED BY <2>1, <2>2 DEF OpenStateStore, SaveInv
  <1>10. ASSUME Crash PROVE mode' = "down" /\ CrashState
    BY <1>10 DEF Crash, CrashLog
  <1>11. QED
    BY <1>1, <1>2, <1>3, <1>4, <1>5, <1>6, <1>7, <1>8, <1>9, <1>10, ModeMoves DEF StateStep

-----------------------------------------------------------------------------
(* Frames *)

\* The two pieces of a record.
LEMMA FrameIs ==
    ASSUME NEW e \in Rec
    PROVE  /\ Frame(e) \in Seq(Piece) /\ Len(Frame(e)) = 2
           /\ Frame(e)[1] = [rec |-> e, part |-> 1]
           /\ Frame(e)[2] = [rec |-> e, part |-> 2]
  <1>1. [rec |-> e, part |-> 1] \in Piece /\ [rec |-> e, part |-> 2] \in Piece
    BY DEF Piece
  <1>2. QED BY <1>1 DEF Frame

\* A file of frames has no other record in it.
LEMMA FramedReads ==
    ASSUME NEW f \in Seq(Piece), NEW l \in Seq(Rec), Starts(f, l), Len(f) <= 2 * Len(l) + 1
    PROVE  Reads(f, l)
  <1>1. Len(f) \in Nat /\ Len(l) \in Nat
    OBVIOUS
  <1>2. ~Intact(f, Len(l) + 1)
    BY <1>1 DEF Intact, FrameSize
  <1>3. QED BY <1>2 DEF Reads

\* One more frame is one more record.
LEMMA FrameAppended ==
    ASSUME NEW f \in Seq(Piece), NEW l \in Seq(Rec), Framed(f, l), NEW e \in Rec
    PROVE  LET g == f \o Frame(e)
           IN  /\ g \in Seq(Piece) /\ Len(g) = Len(f) + 2
               /\ \A k \in 1..Len(f) : g[k] = f[k]
               /\ Append(l, e) \in Seq(Rec) /\ Framed(g, Append(l, e))
  <1> DEFINE g == f \o Frame(e)
             a == Append(l, e)
  <1>1. /\ Len(f) \in Nat /\ Len(l) \in Nat /\ Len(f) = 2 * Len(l)
        /\ \A k \in 1..Len(l) : /\ f[2 * k - 1] = [rec |-> l[k], part |-> 1]
                                /\ f[2 * k] = [rec |-> l[k], part |-> 2]
    <2>1. Len(f) \in Nat /\ Len(l) \in Nat
      OBVIOUS
    <2>2. Starts(f, l) /\ Len(f) = 2 * Len(l)
      BY DEF Framed
    <2>3. QED BY <2>1, <2>2 DEF Starts
  <1>2. /\ g \in Seq(Piece) /\ Len(g) = Len(f) + 2
        /\ \A i \in 1..(Len(f) + 2) : g[i] = IF i <= Len(f) THEN f[i] ELSE Frame(e)[i - Len(f)]
    <2>1. PICK x : x = Frame(e)
      OBVIOUS
    <2>2. x \in Seq(Piece) /\ Len(x) = 2
      BY <2>1, FrameIs
    <2>3. /\ f \o x \in Seq(Piece) /\ Len(f \o x) = Len(f) + Len(x)
          /\ \A i \in 1..(Len(f) + Len(x)) :
                (f \o x)[i] = IF i <= Len(f) THEN f[i] ELSE x[i - Len(f)]
      BY <2>2, ConcatProperties
    <2>4. QED BY <2>1, <2>2, <2>3
  <1>3. /\ a \in Seq(Rec) /\ Len(a) = Len(l) + 1
        /\ \A i \in 1..Len(l) : a[i] = l[i]
        /\ a[Len(l) + 1] = e
    BY AppendProperties
  <1> HIDE DEF g, a
  <1>4. ASSUME NEW k \in 1..Len(l)
        PROVE  g[2 * k - 1] = [rec |-> a[k], part |-> 1] /\ g[2 * k] = [rec |-> a[k], part |-> 2]
    <2>1. /\ 2 * k - 1 \in 1..(Len(f) + 2) /\ 2 * k \in 1..(Len(f) + 2)
          /\ 2 * k - 1 <= Len(f) /\ 2 * k <= Len(f)
      BY <1>1
    <2>2. g[2 * k - 1] = f[2 * k - 1] /\ g[2 * k] = f[2 * k]
      BY <1>2, <2>1
    <2>3. QED BY <1>1, <1>3, <2>2
  <1>5. LET k == Len(l) + 1
        IN  g[2 * k - 1] = [rec |-> a[k], part |-> 1] /\ g[2 * k] = [rec |-> a[k], part |-> 2]
    <2>1. /\ Len(f) + 1 \in 1..(Len(f) + 2) /\ Len(f) + 2 \in 1..(Len(f) + 2)
          /\ ~(Len(f) + 1 <= Len(f)) /\ ~(Len(f) + 2 <= Len(f))
          /\ (Len(f) + 1) - Len(f) = 1 /\ (Len(f) + 2) - Len(f) = 2
          /\ 2 * (Len(l) + 1) - 1 = Len(f) + 1 /\ 2 * (Len(l) + 1) = Len(f) + 2
      BY <1>1
    <2>2. g[Len(f) + 1] = Frame(e)[1] /\ g[Len(f) + 2] = Frame(e)[2]
      BY <1>2, <2>1
    <2>3. QED BY <1>3, <2>1, <2>2, FrameIs
  <1>6. Starts(g, a)
    <2>1. \A k \in 1..Len(a) : k \in 1..Len(l) \/ k = Len(l) + 1
      BY <1>1, <1>3
    <2>2. 2 * Len(a) <= Len(g)
      BY <1>1, <1>2, <1>3
    <2>3. QED BY <1>4, <1>5, <2>1, <2>2 DEF Starts
  <1>7. Framed(g, a) /\ \A k \in 1..Len(f) : g[k] = f[k]
    BY <1>1, <1>2, <1>3, <1>6 DEF Framed
  <1>8. QED BY <1>2, <1>3, <1>7 DEF g, a

\* The first frames are the first records.
LEMMA FramesCut ==
    ASSUME NEW f \in Seq(Piece), NEW l \in Seq(Rec), Starts(f, l), NEW n \in 0..Len(l)
    PROVE  LET g == SubSeq(f, 1, 2 * n)
           IN  /\ g \in Seq(Piece) /\ SubSeq(l, 1, n) \in Seq(Rec)
               /\ Framed(g, SubSeq(l, 1, n))
  <1> DEFINE g == SubSeq(f, 1, 2 * n)
             p == SubSeq(l, 1, n)
  <1>1. /\ Len(f) \in Nat /\ Len(l) \in Nat /\ n \in Nat /\ 2 * n \in 0..Len(f)
        /\ \A k \in 1..Len(l) : /\ f[2 * k - 1] = [rec |-> l[k], part |-> 1]
                                /\ f[2 * k] = [rec |-> l[k], part |-> 2]
    BY DEF Starts
  <1>2. g \in Seq(Piece) /\ Len(g) = 2 * n /\ \A k \in 1..(2 * n) : g[k] = f[k]
    BY <1>1, FirstIs
  <1>3. p \in Seq(Rec) /\ Len(p) = n /\ \A k \in 1..n : p[k] = l[k]
    BY FirstIs
  <1> HIDE DEF g, p
  <1>4. ASSUME NEW k \in 1..n
        PROVE  g[2 * k - 1] = [rec |-> p[k], part |-> 1] /\ g[2 * k] = [rec |-> p[k], part |-> 2]
    <2>1. 2 * k - 1 \in 1..(2 * n) /\ 2 * k \in 1..(2 * n) /\ k \in 1..Len(l)
      BY <1>1
    <2>2. g[2 * k - 1] = f[2 * k - 1] /\ g[2 * k] = f[2 * k] /\ p[k] = l[k]
      BY <1>2, <1>3, <2>1
    <2>3. QED BY <1>1, <2>1, <2>2
  <1>5. Framed(g, p)
    BY <1>1, <1>2, <1>3, <1>4 DEF Framed, Starts
  <1>6. QED BY <1>2, <1>3, <1>5 DEF g, p

-----------------------------------------------------------------------------
(* The log file *)

CallType ==
    [kind : {"none", "append", "after"}, todo : Seq(Rec),
     step : {"next", "written", "truncated"},
     before : Seq(Rec), prevIndex : Nat, all : Seq(Rec)]

\* The types of what is in memory and in the file.
LogTypes ==
    /\ mode \in {"up", "down"}
    /\ file \in Seq(Piece) /\ disk \in Seq(Piece)
    /\ entries \in Seq(Rec) /\ Ordered(entries)
    /\ logOp \in CallType
    /\ leader \in Seq(Rec) /\ Ordered(leader)

\* The entries still to do follow each other, and what is there.
TodoFollows ==
    /\ \A j \in 1..Len(logOp.todo) : logOp.todo[j].index = logOp.todo[1].index + j - 1
    /\ logOp.todo # <<>> => logOp.todo[1].index \in 1..(Len(entries) + 1)
    /\ logOp.todo # <<>> /\ logOp.kind = "append" => logOp.todo[1].index = Len(entries) + 1

\* A file operation is the work on the first entry that is left to do.
UnderWay ==
    /\ logOp.step = "next" => file = disk
    /\ logOp.step = "written" =>
         /\ logOp.todo # <<>>
         /\ Head(logOp.todo).index = Len(entries) + 1
         /\ file = disk \o Frame(Head(logOp.todo))
    /\ logOp.step = "truncated" =>
         /\ logOp.todo # <<>>
         /\ Conflicts(Head(logOp.todo))
         /\ file = SubSeq(disk, 1, 2 * (Head(logOp.todo).index - 1))

UpInv ==
    /\ Framed(disk, entries)
    /\ size = 2 * Len(entries)
    /\ offsets \in Seq(Nat) /\ Len(offsets) = Len(entries)
    /\ \A k \in 1..Len(entries) : offsets[k] = 2 * (k - 1)
    /\ logOp.kind = "none" => logOp = NoCall
    /\ TodoFollows
    /\ UnderWay

\* After a crash the file still starts with a log, and repair only cuts off
\* what ReadAll does not read.
DownInv ==
    /\ logOp = NoCall /\ entries = <<>>
    /\ \E l \in Seq(Rec) : /\ Ordered(l) /\ Reads(disk, l) /\ Reads(file, l)
                           /\ \/ file = disk
                              \/ file = SubSeq(disk, 1, 2 * Len(l))

FileInv ==
    /\ LogTypes
    /\ mode = "up" => UpInv
    /\ mode = "down" => DownInv

\* Sequences of which one begins with the other share the shorter one.
LEMMA CommonStart ==
    ASSUME NEW S, NEW a \in Seq(S), NEW b \in Seq(S), Len(a) <= Len(b),
           \A k \in 1..Len(a) : a[k] = b[k]
    PROVE  /\ Len(LongestCommonPrefix({a, b})) = Len(a)
           /\ Len(LongestCommonPrefix({b, a})) = Len(a)
  <1>1. Len(a) \in Nat /\ Len(a) \in 0..Len(a)
    OBVIOUS
  <1>2. PICK n : n = Len(LongestCommonPrefix({a, b}))
    OBVIOUS
  <1>3. n \in Nat /\ n <= Len(a) /\ Len(a) <= n
    BY <1>1, <1>2, SharedIs
  <1>4. PICK m : m = Len(LongestCommonPrefix({b, a}))
    OBVIOUS
  <1>5. m \in Nat /\ m <= Len(a) /\ Len(a) <= m
    <2>1. Len(a) \in 0..Len(b) /\ \A k \in 1..Len(a) : b[k] = a[k]
      BY <1>1
    <2>2. QED BY <1>1, <1>4, <2>1, SharedIs
  <1>6. QED BY <1>1, <1>2, <1>3, <1>4, <1>5

\* What is left of a frame that a crash has caught on its way to the disk.
LEMMA PartWritten ==
    ASSUME NEW f \in Seq(Piece), NEW l \in Seq(Rec), Framed(f, l), NEW e \in Rec,
           NEW g \in Seq(Piece), g = f \o Frame(e), NEW k \in Len(f)..Len(g)
    PROVE  LET p == SubSeq(g, 1, k)
           IN  /\ p \in Seq(Piece)
               /\ Reads(p, IF k = Len(g) THEN Append(l, e) ELSE l)
               /\ k # Len(g) => /\ Append(p, Junk) \in Seq(Piece)
                                /\ Reads(Append(p, Junk), l)
  <1>1. /\ Len(g) = Len(f) + 2 /\ \A i \in 1..Len(f) : g[i] = f[i]
        /\ Append(l, e) \in Seq(Rec) /\ Framed(g, Append(l, e))
    BY FrameAppended
  <1>2. Len(f) \in Nat /\ Len(l) \in Nat /\ Len(f) = 2 * Len(l) /\ Len(Append(l, e)) = Len(l) + 1
    BY AppendProperties DEF Framed
  <1>3. k \in Nat /\ k \in 0..Len(g)
    BY <1>1, <1>2
  <1>4. PICK p : p = SubSeq(g, 1, k)
    OBVIOUS
  <1>5. p \in Seq(Piece) /\ Len(p) = k /\ \A i \in 1..k : p[i] = g[i]
    BY <1>3, <1>4, FirstIs
  <1>6. CASE k = Len(g)
    <2>1. p = g
      BY <1>4, <1>6, SubSeqFull
    <2>2. PICK a \in Seq(Rec) : a = Append(l, e) /\ Starts(g, a) /\ Len(g) = 2 * Len(a)
      BY <1>1 DEF Framed
    <2>3. Reads(g, a)
      <3>1. Len(a) \in Nat
        BY <2>2
      <3>2. Len(g) <= 2 * Len(a) + 1
        BY <2>2, <3>1
      <3>3. QED BY <2>2, <3>2, FramedReads
    <2>4. QED BY <1>4, <1>5, <1>6, <2>1, <2>2, <2>3
  <1>7. CASE k # Len(g)
    <2>1. k <= 2 * Len(l) + 1 /\ 2 * Len(l) <= k
      BY <1>1, <1>2, <1>3, <1>7
    <2>2. ASSUME NEW i \in 1..Len(l)
          PROVE  p[2 * i - 1] = [rec |-> l[i], part |-> 1] /\ p[2 * i] = [rec |-> l[i], part |-> 2]
      <3>1. 2 * i - 1 \in 1..Len(f) /\ 2 * i \in 1..Len(f) /\ 2 * i - 1 \in 1..k /\ 2 * i \in 1..k
        BY <1>2, <2>1
      <3>2. p[2 * i - 1] = f[2 * i - 1] /\ p[2 * i] = f[2 * i]
        BY <1>1, <1>5, <3>1
      <3>3. QED BY <3>2 DEF Framed, Starts
    <2>3. Reads(p, l)
      <3>1. Starts(p, l)
        BY <1>5, <2>1, <2>2 DEF Starts
      <3>2. QED BY <1>5, <2>1, <3>1, FramedReads
    <2>4. Junk \in Piece
      BY StorageAssumption DEF Junk, Piece, Rec
    <2>5. PICK q : q = Append(p, Junk)
      OBVIOUS
    <2>6. /\ q \in Seq(Piece) /\ Len(q) = k + 1
          /\ \A i \in 1..k : q[i] = p[i]
          /\ q[k + 1] = Junk
      BY <1>5, <2>4, <2>5, AppendProperties
    <2>7. Starts(q, l)
      <3>1. ASSUME NEW i \in 1..Len(l)
            PROVE  q[2 * i - 1] = p[2 * i - 1] /\ q[2 * i] = p[2 * i]
        <4>1. 2 * i - 1 \in 1..k /\ 2 * i \in 1..k
          BY <1>2, <2>1
        <4>2. QED BY <2>6, <4>1
      <3>2. 2 * Len(l) <= Len(q)
        BY <1>2, <1>3, <2>1, <2>6
      <3>3. QED BY <2>2, <3>1, <3>2 DEF Starts
    <2>8. ~Intact(q, Len(l) + 1)
      <3>1. SUFFICES ASSUME Intact(q, Len(l) + 1) PROVE FALSE
        OBVIOUS
      <3>2. 2 * (Len(l) + 1) <= k + 1 /\ q[2 * (Len(l) + 1)].part = 2
        BY <2>6, <3>1 DEF Intact, FrameSize
      <3>3. PICK n \in Nat : n = Len(l)
        BY <1>2
      <3>4. 2 * (n + 1) <= k + 1 /\ k <= 2 * n + 1
        BY <2>1, <3>2, <3>3
      <3> HIDE <3>2
      <3>5. 2 * (n + 1) = k + 1
        BY <1>3, <3>4
      <3>6. QED BY <2>6, <3>2, <3>3, <3>5 DEF Junk
    <2>9. QED BY <1>4, <1>5, <1>7, <2>3, <2>5, <2>6, <2>7, <2>8 DEF Reads
  <1>8. QED BY <1>6, <1>7

\* The entry a call is at.
LEMMA TodoFacts ==
    ASSUME FileInv, mode = "up"
    PROVE  /\ logOp.todo \in Seq(Rec) /\ Len(logOp.todo) \in Nat
           /\ entries \in Seq(Rec) /\ Len(entries) \in Nat
           /\ logOp.todo # <<>> =>
                LET h == Head(logOp.todo)
                IN  /\ h \in Rec /\ h.index \in 1..(Len(entries) + 1)
                    /\ h = logOp.todo[1] /\ Len(logOp.todo) >= 1
                    /\ logOp.kind = "append" => h.index = Len(entries) + 1
                    /\ Tail(logOp.todo) \in Seq(Rec)
                    /\ Len(Tail(logOp.todo)) = Len(logOp.todo) - 1
                    /\ \A j \in 1..Len(Tail(logOp.todo)) :
                          /\ Tail(logOp.todo)[j] = logOp.todo[j + 1]
                          /\ Tail(logOp.todo)[j].index = h.index + j
  <1>1. LogTypes /\ UpInv
    BY DEF FileInv
  <1>2. PICK s : s = logOp.todo
    OBVIOUS
  <1>3. s \in Seq(Rec) /\ Len(s) \in Nat /\ entries \in Seq(Rec) /\ Len(entries) \in Nat
    BY <1>1, <1>2 DEF LogTypes, CallType
  <1>4. ASSUME s # <<>>
        PROVE  /\ Head(s) \in Rec /\ Head(s).index \in 1..(Len(entries) + 1)
               /\ Head(s) = s[1] /\ Len(s) >= 1
               /\ logOp.kind = "append" => Head(s).index = Len(entries) + 1
               /\ Tail(s) \in Seq(Rec) /\ Len(Tail(s)) = Len(s) - 1
               /\ \A j \in 1..Len(Tail(s)) : /\ Tail(s)[j] = s[j + 1]
                                             /\ Tail(s)[j].index = Head(s).index + j
    <2>1. /\ Head(s) \in Rec /\ Tail(s) \in Seq(Rec) /\ Len(Tail(s)) = Len(s) - 1
          /\ \A j \in 1..Len(Tail(s)) : Tail(s)[j] = s[j + 1]
      BY <1>3, <1>4, HeadTailProperties
    <2>2. Head(s) = s[1] /\ Len(s) >= 1
      BY <1>3, <1>4
    <2>3. /\ \A j \in 1..Len(s) : s[j].index = s[1].index + j - 1
          /\ s[1].index \in 1..(Len(entries) + 1)
          /\ logOp.kind = "append" => s[1].index = Len(entries) + 1
      BY <1>1, <1>2, <1>4 DEF UpInv, TodoFollows
    <2>4. ASSUME NEW j \in 1..Len(Tail(s)) PROVE Tail(s)[j].index = Head(s).index + j
      <3>1. j + 1 \in 1..Len(s) /\ s[1].index \in Nat
        BY <1>3, <2>1, <2>3
      <3>2. s[j + 1].index = s[1].index + (j + 1) - 1
        BY <2>3, <3>1
      <3>3. QED BY <2>1, <2>2, <3>1, <3>2
    <2>5. QED BY <2>1, <2>2, <2>3, <2>4
  <1>5. QED BY <1>2, <1>3, <1>4

\* What a step under way is about to make of the file.
LEMMA WrittenIs ==
    ASSUME FileInv, mode = "up", logOp.step = "written"
    PROVE  LET h == Head(logOp.todo)
           IN  /\ h \in Rec /\ h.index = Len(entries) + 1 /\ logOp.todo # <<>>
               /\ file = disk \o Frame(h) /\ file \in Seq(Piece)
               /\ Len(file) = Len(disk) + 2 /\ \A k \in 1..Len(disk) : file[k] = disk[k]
               /\ Framed(file, Append(entries, h))
               /\ Append(entries, h) \in Seq(Rec) /\ Ordered(Append(entries, h))
  <1> DEFINE h == Head(logOp.todo)
  <1>1. /\ disk \in Seq(Piece) /\ entries \in Seq(Rec) /\ Len(entries) \in Nat
        /\ Framed(disk, entries) /\ Ordered(entries)
    BY DEF FileInv, LogTypes, UpInv
  <1>2. h \in Rec /\ h.index = Len(entries) + 1 /\ file = disk \o Frame(h) /\ logOp.todo # <<>>
    BY TodoFacts DEF FileInv, UpInv, UnderWay
  <1> HIDE DEF h
  <1>3. /\ file \in Seq(Piece) /\ Len(file) = Len(disk) + 2
        /\ \A k \in 1..Len(disk) : file[k] = disk[k]
        /\ Framed(file, Append(entries, h)) /\ Append(entries, h) \in Seq(Rec)
    BY <1>1, <1>2, FrameAppended
  <1>4. Ordered(Append(entries, h))
    <2>1. PICK a : a = Append(entries, h)
      OBVIOUS
    <2>2. /\ Len(a) = Len(entries) + 1 /\ a[Len(entries) + 1] = h
          /\ \A k \in 1..Len(entries) : a[k] = entries[k]
      BY <1>1, <1>2, <2>1, AppendProperties
    <2>3. ASSUME NEW k \in 1..Len(a) PROVE a[k].index = k
      <3>1. k \in 1..Len(entries) \/ k = Len(entries) + 1
        BY <1>1, <2>2
      <3>2. QED BY <1>1, <1>2, <2>2, <3>1 DEF Ordered
    <2>4. QED BY <2>1, <2>3 DEF Ordered
  <1>5. QED BY <1>2, <1>3, <1>4 DEF h

\* The file that has been cut at a conflict, which only AppendAfter does.
LEMMA TruncatedIs ==
    ASSUME FileInv, mode = "up", logOp.step = "truncated"
    PROVE  LET h == Head(logOp.todo)
           IN  /\ h \in Rec /\ h.index \in 1..Len(entries) /\ logOp.todo # <<>>
               /\ entries[h.index].term # h.term
               /\ logOp.kind # "append"
               /\ file = SubSeq(disk, 1, 2 * (h.index - 1)) /\ file \in Seq(Piece)
               /\ Len(file) <= Len(disk) /\ \A k \in 1..Len(file) : file[k] = disk[k]
               /\ Framed(file, SubSeq(entries, 1, h.index - 1))
               /\ SubSeq(entries, 1, h.index - 1) \in Seq(Rec)
               /\ Ordered(SubSeq(entries, 1, h.index - 1))
  <1> DEFINE h == Head(logOp.todo)
  <1>1. /\ disk \in Seq(Piece) /\ Len(disk) \in Nat /\ entries \in Seq(Rec) /\ Len(entries) \in Nat
        /\ Starts(disk, entries) /\ Ordered(entries) /\ 2 * Len(entries) <= Len(disk)
    BY DEF FileInv, LogTypes, UpInv, Framed, Starts
  <1>2. /\ h \in Rec /\ logOp.todo # <<>> /\ h.index \in 1..(Len(entries) + 1)
        /\ logOp.kind = "append" => h.index = Len(entries) + 1
        /\ h.index <= Len(entries) /\ entries[h.index].term # h.term
        /\ file = SubSeq(disk, 1, 2 * (h.index - 1))
    BY TodoFacts DEF FileInv, UpInv, UnderWay, Conflicts
  <1> HIDE DEF h
  <1>3. PICK n : n = h.index - 1
    OBVIOUS
  <1>4. h.index \in 1..Len(entries) /\ logOp.kind # "append" /\ n \in 0..Len(entries)
    <2>1. PICK i : i = h.index
      OBVIOUS
    <2>2. i \in 1..(Len(entries) + 1) /\ i <= Len(entries) /\ n = i - 1
      BY <1>2, <1>3, <2>1
    <2>3. i \in 1..Len(entries) /\ n \in 0..Len(entries) /\ i # Len(entries) + 1
      BY <1>1, <2>2
    <2>4. QED BY <1>2, <2>1, <2>3
  <1>5. file = SubSeq(disk, 1, 2 * n)
    BY <1>2, <1>3
  <1>6. /\ file \in Seq(Piece) /\ SubSeq(entries, 1, n) \in Seq(Rec)
        /\ Framed(file, SubSeq(entries, 1, n))
    BY <1>1, <1>4, <1>5, FramesCut
  <1>7. 2 * n \in 0..Len(disk)
    BY <1>1, <1>4
  <1>8. Len(file) = 2 * n /\ \A k \in 1..Len(file) : file[k] = disk[k]
    BY <1>1, <1>5, <1>7, FirstIs
  <1>9. Ordered(SubSeq(entries, 1, n))
    <2>1. PICK a : a = SubSeq(entries, 1, n)
      OBVIOUS
    <2>2. Len(a) = n /\ \A k \in 1..n : a[k] = entries[k]
      BY <1>1, <1>4, <2>1, FirstIs
    <2>3. ASSUME NEW k \in 1..Len(a) PROVE a[k].index = k
      <3>1. k \in 1..n /\ k \in 1..Len(entries)
        BY <1>1, <1>4, <2>2
      <3>2. QED BY <1>1, <2>2, <3>1 DEF Ordered
    <2>4. QED BY <2>1, <2>3 DEF Ordered
  <1>10. /\ Framed(file, SubSeq(entries, 1, h.index - 1))
         /\ SubSeq(entries, 1, h.index - 1) \in Seq(Rec)
         /\ Ordered(SubSeq(entries, 1, h.index - 1))
    BY <1>3, <1>6, <1>9
  <1>11. Len(file) <= Len(disk)
    BY <1>1, <1>7, <1>8
  <1>12. /\ h \in Rec /\ h.index \in 1..Len(entries) /\ logOp.todo # <<>>
         /\ entries[h.index].term # h.term /\ logOp.kind # "append"
         /\ file = SubSeq(disk, 1, 2 * (h.index - 1)) /\ file \in Seq(Piece)
         /\ \A k \in 1..Len(file) : file[k] = disk[k]
    BY <1>2, <1>4, <1>6, <1>8
  <1>13. QED BY <1>10, <1>11, <1>12 DEF h

\* What a crash leaves when the file is still the start of what is on disk.
LEMMA CrashOfShorter ==
    ASSUME file \in Seq(Piece), disk \in Seq(Piece), Len(file) <= Len(disk),
           \A k \in 1..Len(file) : file[k] = disk[k], NEW f \in CrashContents
    PROVE  f \in {disk, file}
  <1>1. PICK n : n = Len(LongestCommonPrefix({file, disk}))
    OBVIOUS
  <1>2. n = Len(file) /\ n \in Nat
    BY <1>1, CommonStart
  <1>3. SubSeq(file, 1, n) = file
    BY <1>2, SubSeqFull
  <1>4. \/ f = disk
        \/ \E k \in n..n : f = SubSeq(file, 1, k)
        \/ \E k \in n..(n - 1) : f = Append(SubSeq(file, 1, k), Junk)
    BY <1>1, <1>2 DEF CrashContents
  <1>5. QED BY <1>2, <1>3, <1>4

\* A crash of the running process finds a log that is promised.
LEMMA CrashFindsPromised ==
    ASSUME FileInv, mode = "up", NEW f \in CrashContents
    PROVE  f \in Seq(Piece) /\ \E l \in Promised : l \in Seq(Rec) /\ Ordered(l) /\ Reads(f, l)
  <1>1. /\ file \in Seq(Piece) /\ disk \in Seq(Piece) /\ entries \in Seq(Rec)
        /\ logOp.step \in {"next", "written", "truncated"}
        /\ Len(disk) \in Nat /\ Len(file) \in Nat /\ Ordered(entries)
    BY DEF FileInv, LogTypes, CallType
  <1>2. Framed(disk, entries) /\ UnderWay
    BY DEF FileInv, UpInv
  <1>3. Reads(disk, entries) /\ entries \in Promised
    <2>1. Starts(disk, entries) /\ Len(disk) <= 2 * Len(entries) + 1
      BY <1>1, <1>2 DEF Framed
    <2>2. QED BY <1>1, <2>1, FramedReads DEF Promised
  <1>4. CASE f = disk
    BY <1>1, <1>3, <1>4
  <1>5. CASE logOp.step = "next"
    <2>1. file = disk
      BY <1>2, <1>5 DEF UnderWay
    <2>2. f = disk
      BY <1>1, <2>1, CrashOfShorter
    <2>3. QED BY <1>4, <2>2
  <1>6. CASE logOp.step = "truncated"
    <2>1. PICK l : l = SubSeq(entries, 1, Head(logOp.todo).index - 1)
      OBVIOUS
    <2>2. /\ Len(file) <= Len(disk) /\ \A k \in 1..Len(file) : file[k] = disk[k]
          /\ Framed(file, l) /\ l \in Seq(Rec) /\ Ordered(l)
      BY <1>6, <2>1, TruncatedIs
    <2>3. l \in Promised
      BY <1>6, <2>1 DEF Promised
    <2>4. Reads(file, l)
      <3>1. Starts(file, l) /\ Len(file) <= 2 * Len(l) + 1
        BY <1>1, <2>2 DEF Framed
      <3>2. QED BY <1>1, <2>2, <3>1, FramedReads
    <2>5. f = disk \/ f = file
      BY <1>1, <2>2, CrashOfShorter
    <2>6. QED BY <1>1, <1>4, <2>2, <2>3, <2>4, <2>5
  <1>7. CASE logOp.step = "written"
    <2>1. PICK e : e = Head(logOp.todo)
      OBVIOUS
    <2>2. PICK l : l = Append(entries, e)
      OBVIOUS
    <2>3. /\ e \in Rec /\ file = disk \o Frame(e)
          /\ Len(file) = Len(disk) + 2 /\ \A k \in 1..Len(disk) : file[k] = disk[k]
          /\ l \in Seq(Rec) /\ Ordered(l)
      BY <1>7, <2>1, <2>2, WrittenIs
    <2>4. l \in Promised
      BY <1>7, <2>1, <2>2 DEF Promised
    <2>5. PICK n : n = Len(LongestCommonPrefix({file, disk}))
      OBVIOUS
    <2>6. n = Len(disk)
      <3>1. Len(disk) <= Len(file) /\ \A k \in 1..Len(disk) : disk[k] = file[k]
        BY <1>1, <2>3
      <3>2. QED BY <1>1, <2>5, <3>1, CommonStart
    <2>7. \/ f = disk
          \/ \E k \in n..Len(file) : f = SubSeq(file, 1, k)
          \/ \E k \in n..(Len(file) - 1) : f = Append(SubSeq(file, 1, k), Junk)
      BY <2>5 DEF CrashContents
    <2>8. ASSUME NEW k \in n..Len(file), f = SubSeq(file, 1, k)
          PROVE  f \in Seq(Piece) /\ \E x \in Promised : x \in Seq(Rec) /\ Ordered(x) /\ Reads(f, x)
      <3>1. f \in Seq(Piece) /\ Reads(f, IF k = Len(file) THEN l ELSE entries)
        BY <1>1, <1>2, <2>2, <2>3, <2>6, <2>8, PartWritten
      <3>2. QED BY <1>1, <1>3, <2>3, <2>4, <3>1
    <2>9. ASSUME NEW k \in n..(Len(file) - 1), f = Append(SubSeq(file, 1, k), Junk)
          PROVE  f \in Seq(Piece) /\ \E x \in Promised : x \in Seq(Rec) /\ Ordered(x) /\ Reads(f, x)
      <3>1. k \in n..Len(file) /\ k # Len(file)
        BY <1>1, <2>6
      <3>2. f \in Seq(Piece) /\ Reads(f, entries)
        BY <1>1, <1>2, <2>3, <2>6, <2>9, <3>1, PartWritten
      <3>3. QED BY <1>1, <1>3, <3>2
    <2>10. QED BY <1>4, <2>7, <2>8, <2>9
  <1>8. QED BY <1>1, <1>5, <1>6, <1>7

\* A crash during recovery finds one of two files with the same log in them.
LEMMA CrashFindsSame ==
    ASSUME FileInv, mode = "down"
    PROVE  /\ CrashContents \subseteq {disk, file}
           /\ \E l \in Seq(Rec) : /\ Ordered(l) /\ Reads(disk, l) /\ Reads(file, l)
                                  /\ \/ file = disk
                                     \/ file = SubSeq(disk, 1, 2 * Len(l))
  <1>1. file \in Seq(Piece) /\ disk \in Seq(Piece) /\ Len(disk) \in Nat
    BY DEF FileInv, LogTypes
  <1>2. PICK l \in Seq(Rec) : /\ Ordered(l) /\ Reads(disk, l) /\ Reads(file, l)
                              /\ \/ file = disk
                                 \/ file = SubSeq(disk, 1, 2 * Len(l))
    BY DEF FileInv, DownInv
  <1>3. Len(file) <= Len(disk) /\ \A k \in 1..Len(file) : file[k] = disk[k]
    <2>1. CASE file = disk
      BY <1>1, <2>1
    <2>2. CASE file = SubSeq(disk, 1, 2 * Len(l))
      <3>1. 2 * Len(l) \in 0..Len(disk)
        BY <1>1, <1>2 DEF Reads, Starts
      <3>2. PICK n : n = 2 * Len(l)
        OBVIOUS
      <3>3. n \in 0..Len(disk) /\ file = SubSeq(disk, 1, n)
        BY <2>2, <3>1, <3>2
      <3>4. Len(file) = n /\ \A k \in 1..n : file[k] = disk[k]
        BY <1>1, <3>3, FirstIs
      <3>5. QED BY <1>1, <3>3, <3>4
    <2>3. QED BY <1>2, <2>1, <2>2
  <1>4. QED BY <1>1, <1>2, <1>3, CrashOfShorter

\* NoCall is a call, and has nothing to do.
LEMMA NoCallIs ==
    /\ NoCall \in CallType /\ NoCall.kind = "none" /\ NoCall.todo = <<>> /\ NoCall.step = "next"
    /\ Len(NoCall.todo) = 0
  BY DEF NoCall, CallType

\* The log is only worked on while the process is up.
LEMMA LogStepsUp ==
    ASSUME FileInv, LogStep
    PROVE  mode = "up"
  <1>1. SUFFICES ASSUME mode = "down" PROVE FALSE
    BY DEF FileInv, LogTypes
  <1>2. logOp = NoCall
    BY <1>1 DEF FileInv, DownInv
  <1>3. logOp.todo = <<>> /\ logOp.step = "next" /\ logOp.kind = "none"
    BY <1>2, NoCallIs
  <1>4. ~\E e \in ToSet(logOp.todo) : SkipDuplicate(e) \/ Truncate(e) \/ Write(e) \/ LogFails(e)
    BY <1>3 DEF SkipDuplicate, Truncate, Write, LogFails, Looks
  <1>5. QED BY <1>3, <1>4 DEF LogStep, SyncTruncate, SyncWrite, LogReturns

\* A call begins.
LEMMA CallFileInv ==
    ASSUME FileInv, NEW kind \in {"append", "after"}, NEW prevIndex \in Nat, NEW new \in Seq(Rec),
           CallLog(kind, prevIndex, new), UNCHANGED leader,
           \A j \in 1..Len(new) : new[j].index = new[1].index + j - 1,
           new # <<>> => new[1].index \in 1..(Len(entries) + 1),
           new # <<>> /\ kind = "append" => new[1].index = Len(entries) + 1
    PROVE  FileInv'
  <1>1. /\ mode = "up" /\ mode' = "up" /\ LogTypes /\ UpInv /\ logOp.kind = "none"
        /\ UNCHANGED <<file, disk, size, entries, offsets, leader>>
    BY DEF CallLog, FileInv, memoryVars
  <1>2. logOp' = [kind |-> kind, todo |-> new, step |-> "next",
                  before |-> entries, prevIndex |-> prevIndex, all |-> new]
    BY DEF CallLog
  <1>3. file = disk
    BY <1>1, NoCallIs DEF UpInv, UnderWay
  <1>4. logOp' \in CallType
    BY <1>1, <1>2 DEF LogTypes, CallType
  <1>5. logOp'.kind = kind /\ logOp'.todo = new /\ logOp'.step = "next"
    BY <1>2
  <1>6. LogTypes'
    BY <1>1, <1>4 DEF LogTypes
  <1>7. TodoFollows'
    BY <1>1, <1>5 DEF TodoFollows
  <1>8. UnderWay'
    BY <1>1, <1>3, <1>5 DEF UnderWay
  <1>9. UpInv'
    BY <1>1, <1>5, <1>7, <1>8 DEF UpInv
  <1>10. QED BY <1>1, <1>6, <1>9 DEF FileInv

\* A call ends, with or without an error, when no file operation is under way.
LEMMA ReturnFileInv ==
    ASSUME FileInv, mode = "up", logOp.step = "next", logOp' = NoCall,
           UNCHANGED <<mode, file, disk, memoryVars, leader>>
    PROVE  FileInv'
  <1>1. LogTypes /\ UpInv /\ UNCHANGED <<mode, file, disk, size, entries, offsets, leader>>
    BY DEF FileInv, memoryVars
  <1>2. file = disk
    BY <1>1 DEF UpInv, UnderWay
  <1>3. logOp' \in CallType /\ logOp'.todo = <<>> /\ logOp'.step = "next" /\ logOp'.kind = "none"
    BY NoCallIs
  <1>4. LogTypes'
    BY <1>1, <1>3 DEF LogTypes
  <1>5. TodoFollows'
    BY <1>3 DEF TodoFollows
  <1>6. UnderWay'
    BY <1>1, <1>2, <1>3 DEF UnderWay
  <1>7. UpInv'
    BY <1>1, <1>5, <1>6, NoCallIs DEF UpInv, NoCall
  <1>8. QED BY <1>1, <1>4, <1>7 DEF FileInv

\* The entry a call is at has been dealt with, and the log is as long as it
\* should be for the next.
LEMMA TailFollows ==
    ASSUME FileInv, mode = "up", logOp.todo # <<>>,
           logOp'.todo = Tail(logOp.todo), logOp'.kind = logOp.kind,
           Len(entries') \in Nat, Head(logOp.todo).index <= Len(entries'),
           logOp.kind = "append" => Head(logOp.todo).index = Len(entries')
    PROVE  TodoFollows'
  <1>1. PICK t : t = Tail(logOp.todo)
    OBVIOUS
  <1>2. PICK i : i = Head(logOp.todo).index
    OBVIOUS
  <1>3. /\ t \in Seq(Rec) /\ Len(t) \in Nat /\ i \in Nat
        /\ \A j \in 1..Len(t) : t[j].index = i + j
    <2>1. LET h == Head(logOp.todo) IN h \in Rec /\ h.index \in Nat
      BY TodoFacts DEF Rec
    <2>2. t \in Seq(Rec) /\ \A j \in 1..Len(t) : t[j].index = i + j
      BY <1>1, <1>2, TodoFacts
    <2>3. QED BY <1>2, <2>1, <2>2
  <1>4. ASSUME NEW j \in 1..Len(t) PROVE t[j].index = t[1].index + j - 1
    <2>1. 1 \in 1..Len(t) /\ j \in Nat
      BY <1>3
    <2>2. t[1].index = i + 1 /\ t[j].index = i + j
      BY <1>3, <2>1
    <2>3. QED BY <1>3, <2>1, <2>2
  <1>5. ASSUME t # <<>> PROVE t[1].index = i + 1
    <2>1. 1 \in 1..Len(t)
      BY <1>3, <1>5
    <2>2. QED BY <1>3, <2>1
  <1>6. t # <<>> => t[1].index \in 1..(Len(entries') + 1)
    BY <1>2, <1>3, <1>5
  <1>7. t # <<>> /\ logOp.kind = "append" => t[1].index = Len(entries') + 1
    BY <1>2, <1>3, <1>5
  <1>8. logOp'.todo = t /\ logOp'.kind = logOp.kind
    BY <1>1
  <1>9. QED BY <1>4, <1>6, <1>7, <1>8 DEF TodoFollows

\* An entry in ToSet(todo) that the loop looks at is the first.
LEMMA SkipFileInv ==
    ASSUME FileInv, mode = "up", NEW e, SkipDuplicate(e), UNCHANGED leader
    PROVE  FileInv'
  <1>1. LogTypes /\ UpInv /\ UNCHANGED <<mode, file, disk, size, entries, offsets, leader>>
    BY DEF FileInv, SkipDuplicate, memoryVars
  <1>2. /\ logOp \in CallType /\ logOp' = [logOp EXCEPT !.todo = Tail(@)]
        /\ logOp.step = "next" /\ logOp.todo # <<>> /\ e = Head(logOp.todo)
        /\ e.index <= Len(entries)
    BY <1>1 DEF SkipDuplicate, Looks, LogTypes
  <1>3. Tail(logOp.todo) \in Seq(Rec)
    BY <1>2, TodoFacts
  <1>4. logOp' \in CallType /\ logOp'.todo = Tail(logOp.todo) /\ logOp'.kind = logOp.kind
        /\ logOp'.step = "next"
    BY <1>2, <1>3 DEF CallType
  <1>5. LogTypes'
    BY <1>1, <1>4 DEF LogTypes
  <1>6. logOp.kind # "append" /\ logOp.kind # "none"
    <2>1. logOp.kind # "append"
      <3>1. Len(entries) \in Nat /\ (logOp.kind = "append" => e.index = Len(entries) + 1)
        BY <1>2, TodoFacts
      <3>2. QED BY <1>2, <3>1
    <2>2. QED BY <1>1, <1>2, <2>1, NoCallIs DEF UpInv
  <1>7. TodoFollows'
    <2>1. Len(entries') \in Nat /\ Head(logOp.todo).index <= Len(entries')
      BY <1>1, <1>2, TodoFacts
    <2>2. QED BY <1>2, <1>4, <1>6, <2>1, TailFollows
  <1>8. UnderWay'
    BY <1>1, <1>2, <1>4 DEF UpInv, UnderWay
  <1>9. UpInv'
    BY <1>1, <1>4, <1>6, <1>7, <1>8 DEF UpInv
  <1>10. QED BY <1>1, <1>5, <1>9 DEF FileInv

\* The bytes of an entry are written.
LEMMA WriteFileInv ==
    ASSUME FileInv, mode = "up", NEW e, Write(e), UNCHANGED leader
    PROVE  FileInv'
  <1>1. LogTypes /\ UpInv /\ UNCHANGED <<mode, disk, size, entries, offsets, leader>>
    BY DEF FileInv, Write, memoryVars
  <1>2. /\ logOp \in CallType /\ logOp' = [logOp EXCEPT !.step = "written"]
        /\ logOp.step = "next" /\ logOp.todo # <<>> /\ e = Head(logOp.todo)
        /\ e.index > Len(entries) /\ file' = file \o Frame(e)
    BY <1>1 DEF Write, Looks, LogTypes
  <1>3. logOp' \in CallType /\ logOp'.todo = logOp.todo /\ logOp'.kind = logOp.kind
        /\ logOp'.step = "written"
    BY <1>2 DEF CallType
  <1>4. e \in Rec /\ e.index \in 1..(Len(entries) + 1) /\ Len(entries) \in Nat
    BY <1>2, TodoFacts
  <1>5. e.index = Len(entries) + 1
    BY <1>2, <1>4
  <1>6. file = disk
    BY <1>1, <1>2 DEF UpInv, UnderWay
  <1>7. file' = disk \o Frame(e) /\ file' \in Seq(Piece)
    <2>1. disk \in Seq(Piece) /\ Framed(disk, entries) /\ entries \in Seq(Rec)
      BY <1>1 DEF LogTypes, UpInv
    <2>2. disk \o Frame(e) \in Seq(Piece)
      BY <1>4, <2>1, FrameAppended
    <2>3. QED BY <1>2, <1>6, <2>2
  <1>8. LogTypes'
    BY <1>1, <1>3, <1>7 DEF LogTypes
  <1>9. TodoFollows'
    BY <1>1, <1>3 DEF UpInv, TodoFollows
  <1>10. UnderWay'
    <2>1. Head(logOp'.todo) = e /\ logOp'.todo # <<>> /\ e.index = Len(entries') + 1
          /\ file' = disk' \o Frame(e)
      BY <1>1, <1>2, <1>3, <1>5, <1>7
    <2>2. QED BY <1>3, <2>1 DEF UnderWay
  <1>11. logOp.kind # "none"
    BY <1>1, <1>2, NoCallIs DEF UpInv
  <1>12. UpInv'
    BY <1>1, <1>3, <1>9, <1>10, <1>11 DEF UpInv
  <1>13. QED BY <1>1, <1>8, <1>12 DEF FileInv

\* They are synced, and the entry is in memory.
LEMMA SyncWriteFileInv ==
    ASSUME FileInv, mode = "up", SyncWrite, UNCHANGED leader
    PROVE  FileInv'
  <1> DEFINE e == Head(logOp.todo)
  <1>1. /\ LogTypes /\ UpInv /\ UNCHANGED <<mode, file, leader>>
        /\ logOp.step = "written" /\ disk' = file /\ size' = size + 2
        /\ entries' = Append(entries, e) /\ offsets' = Append(offsets, size)
        /\ logOp \in CallType
        /\ logOp' = [logOp EXCEPT !.step = "next", !.todo = Tail(@)]
    BY DEF FileInv, SyncWrite, FrameSize, LogTypes
  <1>2. /\ e \in Rec /\ e.index = Len(entries) + 1 /\ logOp.todo # <<>>
        /\ file \in Seq(Piece)
        /\ Framed(file, Append(entries, e))
        /\ Append(entries, e) \in Seq(Rec) /\ Ordered(Append(entries, e))
    BY <1>1, WrittenIs
  <1>3. Tail(logOp.todo) \in Seq(Rec) /\ Len(entries) \in Nat /\ entries \in Seq(Rec)
    BY <1>2, TodoFacts
  <1> HIDE DEF e
  <1>4. logOp' \in CallType /\ logOp'.todo = Tail(logOp.todo) /\ logOp'.kind = logOp.kind
        /\ logOp'.step = "next"
    BY <1>1, <1>3 DEF CallType
  <1>5. entries' \in Seq(Rec) /\ Ordered(entries') /\ Framed(disk', entries')
    BY <1>1, <1>2
  <1>6. LogTypes'
    BY <1>1, <1>2, <1>4, <1>5 DEF LogTypes
  <1>7. Len(entries') = Len(entries) + 1 /\ Len(entries') \in Nat
    BY <1>1, <1>2, <1>3, AppendProperties
  <1>8. TodoFollows'
    <2>1. Head(logOp.todo).index = Len(entries')
      BY <1>2, <1>7 DEF e
    <2>2. Head(logOp.todo).index <= Len(entries')
      BY <1>7, <2>1
    <2>3. QED BY <1>2, <1>4, <1>7, <2>1, <2>2, TailFollows
  <1>9. UnderWay'
    BY <1>1, <1>4 DEF UnderWay
  <1>10. /\ size \in Nat /\ size = 2 * Len(entries)
         /\ offsets \in Seq(Nat) /\ Len(offsets) = Len(entries)
         /\ \A k \in 1..Len(entries) : offsets[k] = 2 * (k - 1)
    BY <1>1, <1>3 DEF UpInv
  <1>11. size' = 2 * Len(entries')
    BY <1>1, <1>3, <1>7, <1>10
  <1>12. /\ offsets' \in Seq(Nat) /\ Len(offsets') = Len(entries')
         /\ \A k \in 1..Len(entries') : offsets'[k] = 2 * (k - 1)
    <2>1. PICK a : a = Append(offsets, size)
      OBVIOUS
    <2>2. /\ a \in Seq(Nat) /\ Len(a) = Len(entries) + 1 /\ a[Len(entries) + 1] = size
          /\ \A k \in 1..Len(entries) : a[k] = offsets[k]
      BY <1>10, <2>1, AppendProperties
    <2>3. ASSUME NEW k \in 1..(Len(entries) + 1) PROVE a[k] = 2 * (k - 1)
      <3>1. k \in 1..Len(entries) \/ k = Len(entries) + 1
        BY <1>3
      <3>2. CASE k \in 1..Len(entries)
        BY <1>10, <2>2, <3>2
      <3>3. CASE k = Len(entries) + 1
        <4>1. a[k] = size
          BY <2>2, <3>3
        <4>2. size = 2 * (k - 1)
          BY <1>3, <1>10, <3>3
        <4>3. QED BY <4>1, <4>2
      <3>4. QED BY <3>1, <3>2, <3>3
    <2>4. QED BY <1>1, <1>7, <2>1, <2>2, <2>3
  <1>13. logOp.kind # "none"
    BY <1>1, <1>2, NoCallIs DEF UpInv
  <1>14. UpInv'
    BY <1>4, <1>5, <1>8, <1>9, <1>11, <1>12, <1>13 DEF UpInv
  <1>15. QED BY <1>1, <1>6, <1>14 DEF FileInv

\* The file is cut at the entry in conflict.
LEMMA TruncateFileInv ==
    ASSUME FileInv, mode = "up", NEW e, Truncate(e), UNCHANGED leader
    PROVE  FileInv'
  <1>1. LogTypes /\ UpInv /\ UNCHANGED <<mode, disk, size, entries, offsets, leader>>
    BY DEF FileInv, Truncate, memoryVars
  <1>2. /\ logOp \in CallType /\ logOp' = [logOp EXCEPT !.step = "truncated"]
        /\ logOp.step = "next" /\ logOp.todo # <<>> /\ e = Head(logOp.todo)
        /\ e.index <= Len(entries) /\ entries[e.index].term # e.term
        /\ file' = SubSeq(file, 1, offsets[e.index])
    BY <1>1 DEF Truncate, Looks, LogTypes, Conflicts
  <1>3. logOp' \in CallType /\ logOp'.todo = logOp.todo /\ logOp'.kind = logOp.kind
        /\ logOp'.step = "truncated"
    BY <1>2 DEF CallType
  <1>4. e \in Rec /\ e.index \in 1..(Len(entries) + 1) /\ Len(entries) \in Nat
    BY <1>2, TodoFacts
  <1>5. e.index \in 1..Len(entries)
    BY <1>2, <1>4
  <1>6. file = disk /\ offsets[e.index] = 2 * (e.index - 1)
    BY <1>1, <1>2, <1>5 DEF UpInv, UnderWay
  <1>7. file' = SubSeq(disk, 1, 2 * (e.index - 1))
    BY <1>2, <1>6
  <1>8. file' \in Seq(Piece)
    <2>1. PICK n : n = e.index - 1
      OBVIOUS
    <2>2. n \in 0..Len(entries)
      BY <1>4, <1>5, <2>1
    <2>3. disk \in Seq(Piece) /\ Starts(disk, entries) /\ entries \in Seq(Rec)
      BY <1>1 DEF LogTypes, UpInv, Framed
    <2>4. SubSeq(disk, 1, 2 * n) \in Seq(Piece)
      BY <2>2, <2>3, FramesCut
    <2>5. QED BY <1>7, <2>1, <2>4
  <1>9. LogTypes'
    BY <1>1, <1>3, <1>8 DEF LogTypes
  <1>10. TodoFollows'
    BY <1>1, <1>3 DEF UpInv, TodoFollows
  <1>11. UnderWay'
    <2>1. Head(logOp'.todo) = e /\ logOp'.todo # <<>>
      BY <1>2, <1>3
    <2>2. e.index <= Len(entries') /\ entries'[e.index].term # e.term
      BY <1>1, <1>2
    <2>3. file' = SubSeq(disk', 1, 2 * (e.index - 1))
      BY <1>1, <1>7
    <2>4. QED BY <1>3, <2>1, <2>2, <2>3 DEF UnderWay, Conflicts
  <1>12. logOp.kind # "none"
    BY <1>1, <1>2, NoCallIs DEF UpInv
  <1>13. UpInv'
    BY <1>1, <1>3, <1>10, <1>11, <1>12 DEF UpInv
  <1>14. QED BY <1>1, <1>9, <1>13 DEF FileInv

\* The truncation is synced, and the entries are gone from memory.
LEMMA SyncTruncateFileInv ==
    ASSUME FileInv, mode = "up", SyncTruncate, UNCHANGED leader
    PROVE  FileInv'
  <1> DEFINE e == Head(logOp.todo)
  <1>1. /\ LogTypes /\ UpInv /\ UNCHANGED <<mode, file, leader>>
        /\ logOp.step = "truncated" /\ disk' = file /\ size' = offsets[e.index]
        /\ entries' = SubSeq(entries, 1, e.index - 1)
        /\ offsets' = SubSeq(offsets, 1, e.index - 1)
        /\ logOp \in CallType
        /\ logOp' = [logOp EXCEPT !.step = "next"]
    BY DEF FileInv, SyncTruncate, SizeAfterTruncate, LogTypes
  <1>2. /\ e \in Rec /\ e.index \in 1..Len(entries) /\ logOp.todo # <<>>
        /\ logOp.kind # "append" /\ file \in Seq(Piece)
        /\ Framed(file, SubSeq(entries, 1, e.index - 1))
        /\ SubSeq(entries, 1, e.index - 1) \in Seq(Rec)
        /\ Ordered(SubSeq(entries, 1, e.index - 1))
    BY <1>1, TruncatedIs
  <1>3. /\ logOp.todo \in Seq(Rec) /\ Len(entries) \in Nat /\ entries \in Seq(Rec)
        /\ e = logOp.todo[1]
    BY <1>2, TodoFacts
  <1> HIDE DEF e
  <1>4. logOp' \in CallType /\ logOp'.todo = logOp.todo /\ logOp'.kind = logOp.kind
        /\ logOp'.step = "next"
    BY <1>1 DEF CallType
  <1>5. entries' \in Seq(Rec) /\ Ordered(entries') /\ Framed(disk', entries')
    BY <1>1, <1>2
  <1>6. LogTypes'
    BY <1>1, <1>2, <1>4, <1>5 DEF LogTypes
  <1>7. PICK n : n = e.index - 1
    OBVIOUS
  <1>8. n \in 0..Len(entries) /\ n \in Nat /\ e.index = n + 1
    BY <1>2, <1>3, <1>7
  <1>9. Len(entries') = n
    BY <1>1, <1>3, <1>7, <1>8, FirstIs
  <1>10. TodoFollows'
    <2>1. \A j \in 1..Len(logOp.todo) : logOp.todo[j].index = logOp.todo[1].index + j - 1
      BY <1>1 DEF UpInv, TodoFollows
    <2>2. logOp.todo[1].index = Len(entries') + 1
      BY <1>3, <1>8, <1>9
    <2>3. logOp.todo[1].index \in 1..(Len(entries') + 1)
      BY <1>8, <1>9, <2>2
    <2>4. QED BY <1>4, <2>1, <2>2, <2>3 DEF TodoFollows
  <1>11. UnderWay'
    BY <1>1, <1>4 DEF UnderWay
  <1>12. /\ offsets \in Seq(Nat) /\ Len(offsets) = Len(entries)
         /\ \A k \in 1..Len(entries) : offsets[k] = 2 * (k - 1)
    BY <1>1 DEF UpInv
  <1>13. size' = 2 * Len(entries')
    BY <1>1, <1>2, <1>7, <1>9, <1>12
  <1>14. /\ offsets' \in Seq(Nat) /\ Len(offsets') = n
         /\ \A k \in 1..n : offsets'[k] = 2 * (k - 1)
    <2>1. PICK a : a = SubSeq(offsets, 1, n)
      OBVIOUS
    <2>2. a \in Seq(Nat) /\ Len(a) = n /\ \A k \in 1..n : a[k] = offsets[k]
      BY <1>8, <1>12, <2>1, FirstIs
    <2>3. \A k \in 1..n : k \in 1..Len(entries)
      BY <1>3, <1>8
    <2>4. QED BY <1>1, <1>7, <1>12, <2>1, <2>2, <2>3
  <1>15. logOp.kind # "none"
    BY <1>1, <1>2, NoCallIs DEF UpInv
  <1>16. UpInv'
    BY <1>4, <1>5, <1>9, <1>10, <1>11, <1>13, <1>14, <1>15 DEF UpInv
  <1>17. QED BY <1>1, <1>6, <1>16 DEF FileInv

\* A crash, at any moment, leaves a file with one log in it.
LEMMA CrashFileInv ==
    ASSUME FileInv, CrashLog, UNCHANGED leader
    PROVE  FileInv'
  <1>1. PICK f \in CrashContents : file' = f /\ disk' = f
    BY DEF CrashLog
  <1>2. mode' = "down" /\ entries' = <<>> /\ logOp' = NoCall
    BY DEF CrashLog
  <1>3. f \in Seq(Piece) /\ \E l \in Seq(Rec) : Ordered(l) /\ Reads(f, l)
    <2>1. CASE mode = "up"
      BY <2>1, CrashFindsPromised
    <2>2. CASE mode = "down"
      <3>1. file \in Seq(Piece) /\ disk \in Seq(Piece)
        BY DEF FileInv, LogTypes
      <3>2. QED BY <2>2, <3>1, CrashFindsSame
    <2>3. QED BY <2>1, <2>2 DEF FileInv, LogTypes
  <1>4. <<>> \in Seq(Rec) /\ Ordered(<<>>)
    BY DEF Ordered
  <1>5. LogTypes'
    BY <1>1, <1>2, <1>3, <1>4, NoCallIs DEF FileInv, LogTypes
  <1>6. DownInv'
    BY <1>1, <1>2, <1>3 DEF DownInv
  <1>7. QED BY <1>2, <1>5, <1>6 DEF FileInv

\* The repair cuts off what is no record, and keeps the log.
LEMMA RepairFileInv ==
    ASSUME FileInv, RecoverLog, UNCHANGED leader
    PROVE  FileInv'
  <1>1. /\ mode = "down" /\ LogTypes /\ DownInv
        /\ UNCHANGED <<mode, entries, logOp, leader>>
    BY DEF RecoverLog, RepairTail, SyncRepair, FileInv, memoryVars
  <1>2. PICK l \in Seq(Rec) : /\ Ordered(l) /\ Reads(disk, l) /\ Reads(file, l)
                              /\ \/ file = disk
                                 \/ file = SubSeq(disk, 1, 2 * Len(l))
    BY <1>1 DEF DownInv
  <1>3. file \in Seq(Piece) /\ disk \in Seq(Piece) /\ Len(l) \in Nat /\ Len(file) \in Nat
    BY <1>1 DEF LogTypes
  <1>4. ValidBytes(file) = 2 * Len(l)
    BY <1>2, <1>3, ReadsIs
  <1>5. CASE RepairTail
    <2>1. /\ Len(file) > 2 * Len(l) /\ file' = SubSeq(file, 1, 2 * Len(l)) /\ disk' = disk
      BY <1>4, <1>5 DEF RepairTail, Truncated
    <2>2. file = disk
      <3>1. SUFFICES ASSUME file = SubSeq(disk, 1, 2 * Len(l)) PROVE FALSE
        BY <1>2
      <3>2. PICK n : n = 2 * Len(l)
        OBVIOUS
      <3>3. n \in 0..Len(disk)
        BY <1>2, <1>3, <3>2 DEF Reads, Starts
      <3>4. Len(file) = n
        BY <1>3, <3>1, <3>2, <3>3, FirstIs
      <3>5. QED BY <1>3, <2>1, <3>2, <3>4
    <2>3. PICK g : g = SubSeq(disk, 1, 2 * Len(l))
      OBVIOUS
    <2>4. g \in Seq(Piece) /\ Framed(g, l)
      <3>1. Len(l) \in 0..Len(l) /\ SubSeq(l, 1, Len(l)) = l /\ Starts(disk, l)
        BY <1>2, <1>3, SubSeqFull DEF Reads
      <3>2. QED BY <1>3, <2>3, <3>1, FramesCut
    <2>5. Reads(g, l)
      <3>1. Starts(g, l) /\ Len(g) <= 2 * Len(l) + 1
        BY <1>3, <2>4 DEF Framed
      <3>2. QED BY <2>4, <3>1, FramedReads
    <2>6. file' = g
      BY <2>1, <2>2, <2>3
    <2>7. LogTypes'
      BY <1>1, <2>1, <2>4, <2>6 DEF LogTypes
    <2>8. DownInv'
      BY <1>1, <1>2, <2>1, <2>3, <2>5, <2>6 DEF DownInv
    <2>9. QED BY <1>1, <2>7, <2>8 DEF FileInv
  <1>6. CASE SyncRepair
    <2>1. file' = file /\ disk' = file
      BY <1>6 DEF SyncRepair
    <2>2. LogTypes'
      BY <1>1, <2>1 DEF LogTypes
    <2>3. DownInv'
      BY <1>1, <1>2, <2>1 DEF DownInv
    <2>4. QED BY <1>1, <2>2, <2>3 DEF FileInv
  <1>7. QED BY <1>5, <1>6 DEF RecoverLog

\* The log comes back from the file, with its offsets.
LEMMA StartFileInv ==
    ASSUME FileInv, Start
    PROVE  FileInv' /\ mode' = "up"
  <1>1. mode = "down" /\ LogTypes /\ DownInv /\ UNCHANGED <<file, disk, logOp, leader>>
        /\ ~Truncated(file) /\ disk = file
    BY DEF Start, OpenLog, FileInv, Repaired
  <1>2. PICK l \in Seq(Rec) : Ordered(l) /\ Reads(file, l)
    BY <1>1 DEF DownInv
  <1>3. file \in Seq(Piece) /\ Len(l) \in Nat /\ Len(file) \in Nat
    BY <1>1 DEF LogTypes
  <1>4. Records(file) = l /\ ValidBytes(file) = 2 * Len(l)
    BY <1>2, <1>3, ReadsIs
  <1>5. DOMAIN l = 1..Len(l) /\ IndexesMatch(l)
    BY <1>2 DEF IndexesMatch, Ordered
  <1>6. /\ mode' = "up" /\ size' = Len(file) /\ entries' = l
        /\ offsets' = [k \in 1..Len(l) |-> 2 * (k - 1)]
    BY <1>4, <1>5 DEF Start, OpenLog, FrameSize
  <1>7. Len(file) = 2 * Len(l)
    BY <1>1, <1>2, <1>3, <1>4 DEF Truncated, Reads, Starts
  <1>8. Framed(disk', entries')
    BY <1>1, <1>2, <1>6, <1>7 DEF Reads, Framed
  <1>9. /\ offsets' \in Seq(Nat) /\ Len(offsets') = Len(l)
        /\ \A k \in 1..Len(l) : offsets'[k] = 2 * (k - 1)
    <2>1. \A k \in 1..Len(l) : 2 * (k - 1) \in Nat
      BY <1>3
    <2>2. QED BY <1>3, <1>6, <2>1
  <1>10. logOp' = NoCall /\ logOp' = logOp
    BY <1>1 DEF DownInv
  <1>11. LogTypes'
    BY <1>1, <1>2, <1>6 DEF LogTypes
  <1>12. TodoFollows'
    BY <1>10, NoCallIs DEF TodoFollows
  <1>13. UnderWay'
    BY <1>1, <1>10, NoCallIs DEF UnderWay
  <1>14. UpInv'
    BY <1>6, <1>7, <1>8, <1>9, <1>10, <1>12, <1>13 DEF UpInv
  <1>15. QED BY <1>6, <1>11, <1>14 DEF FileInv

\* The entries of a request.
LEMMA RequestIs ==
    ASSUME FileInv, NEW prevIndex \in 0..Len(leader), NEW n \in 1..(Len(leader) - prevIndex)
    PROVE  LET new == SubSeq(leader, prevIndex + 1, prevIndex + n)
           IN  /\ new \in Seq(Rec) /\ Len(new) = n
               /\ \A j \in 1..n : new[j] = leader[prevIndex + j] /\ new[j].index = prevIndex + j
  <1>1. leader \in Seq(Rec) /\ Ordered(leader)
    BY DEF FileInv, LogTypes
  <1>2. Len(leader) \in Nat /\ prevIndex \in Nat /\ n \in Nat /\ prevIndex + n <= Len(leader)
    BY <1>1
  <1>3. PICK m : m = prevIndex + 1
    OBVIOUS
  <1>4. PICK k : k = prevIndex + n
    OBVIOUS
  <1>5. PICK new : new = SubSeq(leader, m, k)
    OBVIOUS
  <1>6. m \in Nat /\ k \in Nat /\ k <= Len(leader) /\ m <= k /\ m >= 1
    BY <1>2, <1>3, <1>4
  <1>7. \A i \in m..k : leader[i] \in Rec
    BY <1>1, <1>2, <1>6
  <1>8. /\ new \in Seq(Rec) /\ Len(new) = (IF m <= k THEN k - m + 1 ELSE 0)
        /\ \A j \in 1..(k - m + 1) : new[j] = leader[m + j - 1]
    BY <1>5, <1>6, <1>7, SubSeqProperties
  <1>9. k - m + 1 = n /\ Len(new) = n
    BY <1>2, <1>3, <1>4, <1>6, <1>8
  <1>10. ASSUME NEW j \in 1..n
         PROVE  new[j] = leader[prevIndex + j] /\ new[j].index = prevIndex + j
    <2>1. m + j - 1 = prevIndex + j /\ prevIndex + j \in 1..Len(leader)
      BY <1>2, <1>3
    <2>2. new[j] = leader[prevIndex + j]
      BY <1>8, <1>9, <2>1
    <2>3. QED BY <1>1, <2>1, <2>2 DEF Ordered
  <1>11. QED BY <1>3, <1>4, <1>5, <1>8, <1>9, <1>10

\* A node begins with nothing on disk.
LEMMA InitFileInv == Init => FileInv
  <1> SUFFICES ASSUME Init PROVE FileInv
    OBVIOUS
  <1>1. /\ leader \in Logs /\ mode = "up" /\ file = <<>> /\ disk = <<>>
        /\ size = 0 /\ entries = <<>> /\ offsets = <<>> /\ logOp = NoCall
    BY DEF Init, LogInit
  <1>2. PICK n \in 0..MaxLog : leader \in [1..n -> [term : 1..MaxTerm, index : 1..MaxLog]]
    BY <1>1 DEF Logs
  <1>3. \A k \in 1..n : leader[k].index = k /\ leader[k] \in Rec
    <2>1. \A k \in 1..n : leader[k].index = k
      BY <1>1, <1>2 DEF Logs
    <2>2. ASSUME NEW k \in 1..n PROVE leader[k] \in Rec
      <3>1. leader[k] \in [term : 1..MaxTerm, index : 1..MaxLog]
        BY <1>2
      <3>2. QED BY <3>1, StorageAssumption DEF Rec
    <2>3. QED BY <2>1, <2>2
  <1>4. leader \in Seq(Rec) /\ Len(leader) = n
    <2>1. n \in Nat
      BY StorageAssumption
    <2>2. QED BY <1>2, <1>3, <2>1
  <1>5. Ordered(leader)
    BY <1>3, <1>4 DEF Ordered
  <1>6. /\ <<>> \in Seq(Rec) /\ <<>> \in Seq(Piece) /\ <<>> \in Seq(Nat)
        /\ Len(<<>>) = 0 /\ Ordered(<<>>) /\ Framed(<<>>, <<>>)
    BY DEF Ordered, Framed, Starts
  <1>7. LogTypes
    BY <1>1, <1>4, <1>5, <1>6, NoCallIs DEF LogTypes
  <1>8. TodoFollows
    BY <1>1, NoCallIs DEF TodoFollows
  <1>9. UnderWay
    BY <1>1, NoCallIs DEF UnderWay
  <1>10. UpInv
    BY <1>1, <1>6, <1>8, <1>9, NoCallIs DEF UpInv
  <1>11. QED BY <1>1, <1>7, <1>10 DEF FileInv

\* Every step keeps the file and the memory in line.
LEMMA NextFileInv == FileInv /\ [Next]_vars => FileInv'
  <1> SUFFICES ASSUME FileInv, [Next]_vars PROVE FileInv'
    OBVIOUS
  <1>1. CASE UNCHANGED <<logVars, leader>>
    BY <1>1 DEF logVars, memoryVars, FileInv, LogTypes, UpInv, DownInv, TodoFollows, UnderWay,
                Conflicts
  <1>2. ASSUME ProposeHere PROVE FileInv'
    <2>1. PICK e : e = [term |-> state.term, index |-> Len(entries) + 1]
      OBVIOUS
    <2>2. entries \in Seq(Rec) /\ Len(entries) \in Nat
      BY DEF FileInv, LogTypes
    <2>3. state.term \in 0..MaxTerm /\ CallLog("append", 0, <<e>>) /\ UNCHANGED leader
      BY <1>2, <2>1, StorageAssumption DEF ProposeHere
    <2>4. e \in Rec /\ e.index = Len(entries) + 1
      BY <2>1, <2>2, <2>3 DEF Rec
    <2>5. PICK new : new = <<e>>
      OBVIOUS
    <2>6. new \in Seq(Rec) /\ Len(new) = 1 /\ new[1] = e
      BY <2>4, <2>5
    <2>7. /\ \A j \in 1..Len(new) : new[j].index = new[1].index + j - 1
          /\ new[1].index \in 1..(Len(entries) + 1)
          /\ new[1].index = Len(entries) + 1
      BY <2>2, <2>4, <2>6
    <2>8. CallLog("append", 0, new)
      BY <2>3, <2>5
    <2>9. QED BY <2>3, <2>6, <2>7, <2>8, CallFileInv
  <1>3. ASSUME NEW prevIndex \in 0..Len(leader), NEW n \in 1..(Len(leader) - prevIndex),
               AppendRequest(prevIndex, n)
        PROVE  FileInv'
    <2>1. PICK new : new = SubSeq(leader, prevIndex + 1, prevIndex + n)
      OBVIOUS
    <2>2. /\ new \in Seq(Rec) /\ Len(new) = n
          /\ \A j \in 1..n : new[j].index = prevIndex + j
      BY <2>1, RequestIs
    <2>3. prevIndex <= Len(entries) /\ CallLog("after", prevIndex, new) /\ UNCHANGED leader
      BY <1>3, <2>1 DEF AppendRequest, Match, vars
    <2>4. entries \in Seq(Rec) /\ Len(entries) \in Nat /\ prevIndex \in Nat /\ 1 \in 1..n
      BY DEF FileInv, LogTypes
    <2>5. new[1].index = prevIndex + 1
      BY <2>2, <2>4
    <2>6. /\ \A j \in 1..Len(new) : new[j].index = new[1].index + j - 1
          /\ new[1].index \in 1..(Len(entries) + 1)
      BY <2>2, <2>3, <2>4, <2>5
    <2>7. QED BY <2>2, <2>3, <2>4, <2>6, CallFileInv
  <1>4. ASSUME LogStep, UNCHANGED leader PROVE FileInv'
    <2>1. mode = "up"
      BY <1>4, LogStepsUp
    <2>2. ASSUME NEW e, LogFails(e) PROVE FileInv'
      BY <1>4, <2>1, <2>2, ReturnFileInv DEF LogFails, Looks
    <2>3. ASSUME LogReturns PROVE FileInv'
      BY <1>4, <2>1, <2>3, ReturnFileInv DEF LogReturns
    <2>4. QED
      BY <1>4, <2>1, <2>2, <2>3, SkipFileInv, TruncateFileInv, SyncTruncateFileInv, WriteFileInv,
         SyncWriteFileInv DEF LogStep
  <1>5. ASSUME RecoverLog, UNCHANGED leader PROVE FileInv'
    BY <1>5, RepairFileInv
  <1>6. ASSUME Crash \/ CrashAgain PROVE FileInv'
    BY <1>6, CrashFileInv DEF Crash, CrashAgain
  <1>7. ASSUME Start PROVE FileInv'
    BY <1>7, StartFileInv
  <1>8. ASSUME NEW t \in 1..MaxTerm, NEW v \in BOOLEAN, ChangeState([term |-> t, vote |-> v])
        PROVE  FileInv'
    BY <1>1, <1>8 DEF ChangeState
  <1>9. CASE UNCHANGED vars
    BY <1>1, <1>9 DEF vars
  <1>10. QED
    BY <1>1, <1>2, <1>3, <1>4, <1>5, <1>6, <1>7, <1>8, <1>9 DEF Next

-----------------------------------------------------------------------------
(* What one node brings back *)

\* A brand new node has the state that a missing file means.
LEMMA InitSaveInv == Init => SaveInv
  BY StorageAssumption DEF Init, LogInit, StateInit, SaveInv, NewState, StateType, File

\* Both invariants hold in every state.
LEMMA BothAlways == Spec => [](FileInv /\ SaveInv)
  <1>1. Init => FileInv /\ SaveInv
    BY InitFileInv, InitSaveInv
  <1>2. FileInv /\ SaveInv /\ [Next]_vars => (FileInv /\ SaveInv)'
    <2> SUFFICES ASSUME FileInv, SaveInv, [Next]_vars PROVE (FileInv /\ SaveInv)'
      OBVIOUS
    <2>1. FileInv'
      BY NextFileInv
    <2>2. mode' # "refused"
      BY <2>1 DEF FileInv, LogTypes
    <2>3. QED BY <2>1, <2>2, NextSaveInv
  <1>3. QED BY <1>1, <1>2, PTL DEF Spec

\* SavedStateSurvives (state.go, Save and OpenStateStore): whatever a crash
\* leaves under the name state.json is complete, and is the state that was
\* saved last or one that somebody has tried to save since.
THEOREM SavedStatesSurvive == Spec => []SavedStateSurvives
  <1>1. FileInv /\ SaveInv => SavedStateSurvives
    BY CrashStates DEF SaveInv, SavedStateSurvives
  <1>2. QED BY <1>1, BothAlways, PTL

\* CrashLosesNothing (log.go and wal.go): whatever a crash leaves of the file,
\* at any moment of Append, AppendAfter and OpenLog itself, OpenLog makes of
\* it the log that was in memory, or that log with the one step done that was
\* under way.
THEOREM CrashesLoseNothing == Spec => []CrashLosesNothing
  <1>1. ASSUME FileInv, NEW f \in CrashContents
        PROVE  /\ IndexesMatch(Records(f))
               /\ Records(f) \in IF mode = "up" THEN Promised ELSE {Records(file)}
    <2>1. CASE mode = "up"
      <3>1. PICK l \in Promised : f \in Seq(Piece) /\ l \in Seq(Rec) /\ Ordered(l) /\ Reads(f, l)
        BY <1>1, <2>1, CrashFindsPromised
      <3>2. Records(f) = l
        BY <3>1, ReadsIs
      <3>3. IndexesMatch(l)
        BY <3>1 DEF IndexesMatch, Ordered
      <3>4. QED BY <2>1, <3>1, <3>2, <3>3
    <2>2. CASE mode = "down"
      <3>1. file \in Seq(Piece) /\ disk \in Seq(Piece) /\ f \in {disk, file}
        BY <1>1, <2>2, CrashFindsSame DEF FileInv, LogTypes
      <3>2. PICK l \in Seq(Rec) : Ordered(l) /\ Reads(disk, l) /\ Reads(file, l)
        BY <1>1, <2>2, CrashFindsSame
      <3>3. Records(f) = l /\ Records(file) = l
        BY <3>1, <3>2, ReadsIs
      <3>4. IndexesMatch(l)
        BY <3>2 DEF IndexesMatch, Ordered
      <3>5. QED BY <2>2, <3>3, <3>4
    <2>3. QED BY <1>1, <2>1, <2>2 DEF FileInv, LogTypes
  <1>2. FileInv /\ SaveInv => CrashLosesNothing
    BY <1>1 DEF CrashLosesNothing
  <1>3. QED BY <1>2, BothAlways, PTL

\* OffsetsAreRight (log.go, wal.go): between calls WAL.size is the length of
\* the file and Log.offsets say where each entry is, so that a truncation
\* cuts where it means to.
THEOREM OffsetsStayRight == Spec => []OffsetsAreRight
  <1>1. ASSUME FileInv, mode = "up", logOp.step = "next"
        PROVE  /\ size = Len(file)
               /\ Len(offsets) = Len(entries)
               /\ \A k \in DOMAIN entries :
                     SubSeq(file, offsets[k] + 1, offsets[k] + FrameSize) = Frame(entries[k])
    <2>1. UpInv /\ file = disk /\ file \in Seq(Piece) /\ entries \in Seq(Rec)
          /\ Len(entries) \in Nat /\ Len(file) \in Nat
      BY <1>1 DEF FileInv, UpInv, UnderWay, LogTypes
    <2>2. /\ Len(file) = 2 * Len(entries) /\ Len(offsets) = Len(entries) /\ size = Len(file)
          /\ \A k \in 1..Len(entries) : /\ file[2 * k - 1] = [rec |-> entries[k], part |-> 1]
                                        /\ file[2 * k] = [rec |-> entries[k], part |-> 2]
                                        /\ offsets[k] = 2 * (k - 1)
      BY <2>1 DEF UpInv, Framed, Starts
    <2>3. ASSUME NEW k \in 1..Len(entries)
          PROVE  SubSeq(file, offsets[k] + 1, offsets[k] + FrameSize) = Frame(entries[k])
      <3>1. PICK m : m = 2 * k - 1
        OBVIOUS
      <3>2. /\ m \in Nat /\ 2 * k \in Nat /\ m <= 2 * k /\ 1 <= m /\ 2 * k <= Len(file)
            /\ 2 * k - m + 1 = 2 /\ k \in Nat /\ m + 1 = 2 * k
        BY <2>1, <2>2, <3>1
      <3>3. offsets[k] + 1 = m /\ offsets[k] + FrameSize = m + 1
        <4>1. PICK o : o = offsets[k]
          OBVIOUS
        <4>2. o = 2 * (k - 1)
          BY <2>2, <4>1
        <4>3. o + 1 = m /\ o + 2 = m + 1
          BY <3>1, <3>2, <4>2
        <4>4. QED BY <4>1, <4>3 DEF FrameSize
      <3>4. PICK n : n = m + 1
        OBVIOUS
      <3>5. n \in Nat /\ n <= Len(file) /\ m <= n /\ n - m + 1 = 2 /\ n = 2 * k
        BY <3>2, <3>4
      <3>6. \A i \in m..n : file[i] \in Piece
        BY <2>1, <3>2, <3>5
      <3>7. PICK s : s = SubSeq(file, m, n)
        OBVIOUS
      <3>8. /\ s \in Seq(Piece) /\ Len(s) = (IF m <= n THEN n - m + 1 ELSE 0)
            /\ \A i \in 1..(n - m + 1) : s[i] = file[m + i - 1]
        BY <3>2, <3>5, <3>6, <3>7, SubSeqProperties
      <3>9. Len(s) = 2 /\ s[1] = file[m] /\ s[2] = file[n]
        BY <3>2, <3>4, <3>5, <3>8
      <3>10. PICK g : g = Frame(entries[k])
        OBVIOUS
      <3>11. entries[k] \in Rec
        BY <2>1
      <3>12. g \in Seq(Piece) /\ Len(g) = 2 /\ g[1] = s[1] /\ g[2] = s[2]
        BY <2>2, <3>1, <3>5, <3>9, <3>10, <3>11, FrameIs
      <3>13. s = g
        <4>1. \A i \in 1..Len(s) : s[i] = g[i]
          BY <3>9, <3>12
        <4>2. QED BY <3>8, <3>9, <3>12, <4>1, SeqEqual
      <3>14. QED BY <3>3, <3>4, <3>7, <3>10, <3>13
    <2>4. DOMAIN entries = 1..Len(entries)
      BY <2>1
    <2>5. QED BY <2>2, <2>3, <2>4
  <1>2. FileInv /\ SaveInv => OffsetsAreRight
    BY <1>1 DEF OffsetsAreRight
  <1>3. QED BY <1>2, BothAlways, PTL

-----------------------------------------------------------------------------
(* The loop of AppendAfter *)

\* What the loop has made of log when it has dealt with the first d of the
\* new entries: nothing yet, or as much of the closed form as it is due.
Looped(log, prev, new, d, l) ==
    LET k == SkipCount(log, prev, new)
    IN  \/ d <= k /\ l = log
        \/ k < Len(new) /\ k <= d /\ l = Spliced(log, prev, new, k, d)

\* The closed form up to the entry that is the first to be stored.
LEMMA SplicedStart ==
    ASSUME NEW S, NEW log \in Seq(S), NEW new \in Seq(S), NEW prev \in 0..Len(log),
           NEW k \in 0..Len(new), prev + k <= Len(log)
    PROVE  Spliced(log, prev, new, k, k) = SubSeq(log, 1, prev + k)
  <1>1. PICK s : s = Spliced(log, prev, new, k, k)
    OBVIOUS
  <1>2. k \in Nat /\ prev \in Nat /\ Len(log) \in Nat /\ k \in k..Len(new)
    OBVIOUS
  <1>3. s \in Seq(S) /\ Len(s) = prev + k /\ \A r \in 1..(prev + k) : s[r] = log[r]
    <2>1. PICK j \in k..Len(new) : j = k
      BY <1>2
    <2>2. s = Spliced(log, prev, new, k, j)
      BY <1>1, <2>1
    <2>3. s \in Seq(S) /\ Len(s) = prev + j
      BY <2>2, SplicedIs
    <2>4. \A r \in 1..(prev + k) : s[r] = log[r]
      BY <2>2, SplicedIs
    <2>5. QED BY <2>1, <2>3, <2>4
  <1>4. PICK n : n = prev + k
    OBVIOUS
  <1>5. n \in 0..Len(log)
    BY <1>2, <1>4
  <1>6. PICK p : p = SubSeq(log, 1, n)
    OBVIOUS
  <1>7. p \in Seq(S) /\ Len(p) = n /\ \A r \in 1..n : p[r] = log[r]
    BY <1>5, <1>6, FirstIs
  <1>8. s = p
    <2>1. Len(s) = Len(p) /\ \A r \in 1..Len(s) : s[r] = p[r]
      BY <1>3, <1>4, <1>7
    <2>2. QED BY <1>3, <1>7, <2>1, SeqEqual
  <1>9. QED BY <1>1, <1>4, <1>6, <1>8

\* The closed form with one more entry.
LEMMA SplicedGrows ==
    ASSUME NEW S, NEW log \in Seq(S), NEW new \in Seq(S), NEW prev \in 0..Len(log),
           NEW k \in 0..Len(new), prev + k <= Len(log), NEW d \in Nat, k <= d, d < Len(new)
    PROVE  Append(Spliced(log, prev, new, k, d), new[d + 1]) = Spliced(log, prev, new, k, d + 1)
  <1>1. PICK s : s = Spliced(log, prev, new, k, d)
    OBVIOUS
  <1>2. PICK t : t = Spliced(log, prev, new, k, d + 1)
    OBVIOUS
  <1>3. /\ k \in Nat /\ prev \in Nat /\ Len(new) \in Nat
        /\ d \in k..Len(new) /\ d + 1 \in k..Len(new) /\ d + 1 \in 1..Len(new)
    OBVIOUS
  <1>4. /\ s \in Seq(S) /\ Len(s) = prev + d
        /\ \A r \in 1..(prev + k) : s[r] = log[r]
        /\ \A r \in (prev + k + 1)..(prev + d) : s[r] = new[r - prev]
    <2>1. PICK j \in k..Len(new) : j = d
      BY <1>3
    <2>2. s = Spliced(log, prev, new, k, j)
      BY <1>1, <2>1
    <2>3. s \in Seq(S) /\ Len(s) = prev + j
      BY <2>2, SplicedIs
    <2>4. \A r \in 1..(prev + k) : s[r] = log[r]
      BY <2>2, SplicedIs
    <2>5. \A r \in (prev + k + 1)..(prev + j) : s[r] = new[r - prev]
      BY <2>2, SplicedIs, SMTT(30)
    <2>6. QED BY <2>1, <2>3, <2>4, <2>5
  <1>5. /\ t \in Seq(S) /\ Len(t) = prev + (d + 1)
        /\ \A r \in 1..(prev + k) : t[r] = log[r]
        /\ \A r \in (prev + k + 1)..(prev + (d + 1)) : t[r] = new[r - prev]
    <2>1. PICK j \in k..Len(new) : j = d + 1
      BY <1>3
    <2>2. t = Spliced(log, prev, new, k, j)
      BY <1>2, <2>1
    <2>3. t \in Seq(S) /\ Len(t) = prev + j
      BY <2>2, SplicedIs
    <2>4. \A r \in 1..(prev + k) : t[r] = log[r]
      BY <2>2, SplicedIs
    <2>5. \A r \in (prev + k + 1)..(prev + j) : t[r] = new[r - prev]
      BY <2>2, SplicedIs, SMTT(30)
    <2>6. QED BY <2>1, <2>3, <2>4, <2>5
  <1>6. PICK a : a = Append(s, new[d + 1])
    OBVIOUS
  <1>7. new[d + 1] \in S
    BY <1>3
  <1>8. /\ a \in Seq(S) /\ Len(a) = Len(s) + 1 /\ a[Len(s) + 1] = new[d + 1]
        /\ \A r \in 1..Len(s) : a[r] = s[r]
    BY <1>4, <1>6, <1>7, AppendProperties
  <1>9. Len(a) = prev + d + 1 /\ Len(t) = prev + d + 1
    BY <1>3, <1>4, <1>5, <1>8
  <1>10. ASSUME NEW r \in 1..(prev + d + 1) PROVE a[r] = t[r]
    <2>1. CASE r \in 1..(prev + k)
      <3>1. r \in 1..Len(s)
        BY <1>3, <1>4, <2>1
      <3>2. QED BY <1>4, <1>5, <1>8, <2>1, <3>1
    <2>2. CASE r \in (prev + k + 1)..(prev + d)
      <3>1. r \in 1..Len(s) /\ r \in (prev + k + 1)..(prev + (d + 1))
        BY <1>3, <1>4, <2>2
      <3>2. QED BY <1>4, <1>5, <1>8, <2>2, <3>1
    <2>3. CASE r = prev + d + 1
      <3>1. r = Len(s) + 1 /\ r \in (prev + k + 1)..(prev + (d + 1)) /\ r - prev = d + 1
        BY <1>3, <1>4, <2>3
      <3>2. QED BY <1>5, <1>8, <3>1
    <2>4. r \in 1..(prev + k) \/ r \in (prev + k + 1)..(prev + d) \/ r = prev + d + 1
      BY <1>3
    <2>5. QED BY <2>1, <2>2, <2>3, <2>4
  <1>11. a = t
    BY <1>5, <1>8, <1>9, <1>10, SeqEqual
  <1>12. QED BY <1>1, <1>2, <1>6, <1>11

\* An entry that is there already changes nothing.
LEMMA LoopSkips ==
    ASSUME NEW S, NEW log \in Seq(S), NEW new \in Seq(S), NEW prev \in 0..Len(log),
           NEW d \in Nat, d < Len(new), NEW l, Looped(log, prev, new, d, l),
           prev + d + 1 <= Len(l), l[prev + d + 1].term = new[d + 1].term
    PROVE  Looped(log, prev, new, d + 1, l)
  <1>1. PICK k : k = SkipCount(log, prev, new)
    OBVIOUS
  <1>2. /\ k \in 0..Len(new) /\ prev + k <= Len(log)
        /\ k < Len(new) /\ prev + k < Len(log) => log[prev + k + 1].term # new[k + 1].term
    BY <1>1, SkipCountIs
  <1>3. prev \in Nat /\ k \in Nat /\ Len(log) \in Nat /\ Len(new) \in Nat
    BY <1>2
  <1>4. \/ d <= k /\ l = log
        \/ k <= d /\ l = Spliced(log, prev, new, k, d)
    BY <1>1 DEF Looped
  <1>5. CASE d <= k /\ l = log
    <2>1. d # k
      BY <1>2, <1>3, <1>5
    <2>2. d + 1 <= k
      BY <1>3, <1>5, <2>1
    <2>3. QED BY <1>1, <1>5, <2>2 DEF Looped
  <1>6. CASE k <= d /\ l = Spliced(log, prev, new, k, d)
    <2>1. d \in k..Len(new)
      BY <1>3, <1>6
    <2>2. Len(l) = prev + d
      BY <1>2, <1>6, <2>1, SplicedIs
    <2>3. QED BY <1>3, <2>2
  <1>7. QED BY <1>4, <1>5, <1>6

\* A conflict cuts the log where the closed form begins.
LEMMA LoopCuts ==
    ASSUME NEW S, NEW log \in Seq(S), NEW new \in Seq(S), NEW prev \in 0..Len(log),
           NEW d \in Nat, d < Len(new), NEW l, Looped(log, prev, new, d, l),
           prev + d + 1 <= Len(l), l[prev + d + 1].term # new[d + 1].term
    PROVE  Looped(log, prev, new, d, SubSeq(l, 1, prev + d))
  <1>1. PICK k : k = SkipCount(log, prev, new)
    OBVIOUS
  <1>2. /\ k \in 0..Len(new) /\ prev + k <= Len(log)
        /\ \A j \in 1..k : log[prev + j].term = new[j].term
    BY <1>1, SkipCountIs
  <1>3. prev \in Nat /\ k \in Nat /\ Len(log) \in Nat /\ Len(new) \in Nat
    BY <1>2
  <1>4. \/ d <= k /\ l = log
        \/ k <= d /\ l = Spliced(log, prev, new, k, d)
    BY <1>1 DEF Looped
  <1>5. CASE d <= k /\ l = log
    <2>1. d = k
      <3>1. SUFFICES ASSUME d < k PROVE FALSE
        BY <1>3, <1>5
      <3>2. d + 1 \in 1..k /\ prev + (d + 1) = prev + d + 1
        BY <1>3, <3>1
      <3>3. QED BY <1>2, <1>5, <3>2
    <2>2. SubSeq(l, 1, prev + d) = Spliced(log, prev, new, k, d)
      BY <1>2, <1>5, <2>1, SplicedStart
    <2>3. k < Len(new) /\ k <= d
      BY <1>3, <2>1
    <2>4. QED BY <1>1, <2>2, <2>3 DEF Looped
  <1>6. CASE k <= d /\ l = Spliced(log, prev, new, k, d)
    <2>1. d \in k..Len(new)
      BY <1>3, <1>6
    <2>2. Len(l) = prev + d
      BY <1>2, <1>6, <2>1, SplicedIs
    <2>3. QED BY <1>3, <2>2
  <1>7. QED BY <1>4, <1>5, <1>6

\* An entry that is missing is stored at its place in the closed form.
LEMMA LoopAppends ==
    ASSUME NEW S, NEW log \in Seq(S), NEW new \in Seq(S), NEW prev \in 0..Len(log),
           NEW d \in Nat, d < Len(new), NEW l, Looped(log, prev, new, d, l),
           Len(l) = prev + d
    PROVE  Looped(log, prev, new, d + 1, Append(l, new[d + 1]))
  <1>1. PICK k : k = SkipCount(log, prev, new)
    OBVIOUS
  <1>2. k \in 0..Len(new) /\ prev + k <= Len(log)
    BY <1>1, SkipCountIs
  <1>3. prev \in Nat /\ k \in Nat /\ Len(log) \in Nat /\ Len(new) \in Nat
    BY <1>2
  <1>4. \/ d <= k /\ l = log
        \/ k <= d /\ l = Spliced(log, prev, new, k, d)
    BY <1>1 DEF Looped
  <1>5. k <= d /\ l = Spliced(log, prev, new, k, d)
    <2>1. SUFFICES ASSUME d <= k, l = log PROVE k <= d /\ l = Spliced(log, prev, new, k, d)
      BY <1>4
    <2>2. d = k /\ prev + k = Len(log)
      BY <1>2, <1>3, <2>1
    <2>3. Spliced(log, prev, new, k, k) = SubSeq(log, 1, prev + k)
      BY <1>2, SplicedStart
    <2>4. SubSeq(log, 1, Len(log)) = log
      BY SubSeqFull
    <2>5. QED BY <1>3, <2>1, <2>2, <2>3, <2>4
  <1>6. Append(l, new[d + 1]) = Spliced(log, prev, new, k, d + 1)
    BY <1>2, <1>5, SplicedGrows
  <1>7. k < Len(new) /\ k <= d + 1
    BY <1>3, <1>5
  <1>8. QED BY <1>1, <1>6, <1>7 DEF Looped

\* At its end the loop has made the closed form.
LEMMA LoopEnds ==
    ASSUME NEW S, NEW log \in Seq(S), NEW new \in Seq(S), NEW prev \in 0..Len(log),
           NEW l, Looped(log, prev, new, Len(new), l)
    PROVE  l = AfterAppend(log, prev, new)
  <1>1. PICK k : k = SkipCount(log, prev, new)
    OBVIOUS
  <1>2. k \in 0..Len(new) /\ Len(new) \in Nat
    BY <1>1, SkipCountIs
  <1>3. \/ Len(new) <= k /\ l = log
        \/ k < Len(new) /\ l = Spliced(log, prev, new, k, Len(new))
    BY <1>1 DEF Looped
  <1>4. AfterAppend(log, prev, new) =
           IF k = Len(new) THEN log ELSE Spliced(log, prev, new, k, Len(new))
    BY <1>1, AfterAppendSplices
  <1>5. QED BY <1>2, <1>3, <1>4

\* How many entries of the call have been dealt with.
Done == Len(logOp.all) - Len(logOp.todo)

\* AppendAfter has been called with entries of the leader, follows them in
\* their order, and the log is what its loop has made of it so far.
CallInv ==
    logOp.kind = "after" =>
       /\ logOp.prevIndex \in 0..Len(logOp.before)
       /\ logOp.prevIndex + Len(logOp.all) <= Len(leader)
       /\ \A j \in 1..Len(logOp.all) : logOp.all[j] = leader[logOp.prevIndex + j]
       /\ Len(logOp.todo) <= Len(logOp.all)
       /\ \A j \in 1..Len(logOp.todo) : logOp.todo[j] = logOp.all[Done + j]
       /\ Looped(logOp.before, logOp.prevIndex, logOp.all, Done, entries)

\* The entry AppendAfter is at is the leader's at that index.
LEMMA AfterFacts ==
    ASSUME FileInv, CallInv, mode = "up", logOp.kind = "after", logOp.todo # <<>>
    PROVE  LET h == Head(logOp.todo)
           IN  /\ logOp.before \in Seq(Rec) /\ logOp.all \in Seq(Rec)
               /\ logOp.prevIndex \in 0..Len(logOp.before)
               /\ Done \in Nat /\ Done < Len(logOp.all)
               /\ h = logOp.all[Done + 1] /\ h.index = logOp.prevIndex + Done + 1
               /\ h.index \in 1..Len(leader) /\ h = leader[h.index]
  <1>1. /\ logOp.before \in Seq(Rec) /\ logOp.all \in Seq(Rec) /\ logOp.prevIndex \in Nat
        /\ logOp.todo \in Seq(Rec) /\ leader \in Seq(Rec) /\ Ordered(leader)
    BY DEF FileInv, LogTypes, CallType
  <1>2. /\ logOp.prevIndex \in 0..Len(logOp.before)
        /\ logOp.prevIndex + Len(logOp.all) <= Len(leader)
        /\ \A j \in 1..Len(logOp.all) : logOp.all[j] = leader[logOp.prevIndex + j]
        /\ Len(logOp.todo) <= Len(logOp.all)
        /\ \A j \in 1..Len(logOp.todo) : logOp.todo[j] = logOp.all[Done + j]
    BY DEF CallInv
  <1>3. PICK h : h = Head(logOp.todo)
    OBVIOUS
  <1>4. h = logOp.todo[1] /\ Len(logOp.todo) >= 1 /\ Len(logOp.todo) \in Nat
    BY <1>3, TodoFacts
  <1>5. /\ Len(logOp.all) \in Nat /\ Len(leader) \in Nat /\ Len(logOp.before) \in Nat
    BY <1>1
  <1>6. Done \in Nat /\ Done < Len(logOp.all)
    <2>1. PICK m : m = Len(logOp.all)
      OBVIOUS
    <2>2. PICK n : n = Len(logOp.todo)
      OBVIOUS
    <2>3. m \in Nat /\ n \in Nat /\ n >= 1 /\ n <= m
      BY <1>2, <1>4, <1>5, <2>1, <2>2
    <2>4. m - n \in Nat /\ m - n < m
      BY <2>3
    <2>5. QED BY <2>1, <2>2, <2>4 DEF Done
  <1>7. h = logOp.all[Done + 1]
    <2>1. 1 \in 1..Len(logOp.todo)
      BY <1>4
    <2>2. QED BY <1>2, <1>4, <2>1
  <1>8. PICK i : i = logOp.prevIndex + Done + 1
    OBVIOUS
  <1>9. Done + 1 \in 1..Len(logOp.all) /\ logOp.prevIndex + (Done + 1) = i /\ i \in 1..Len(leader)
    <2>1. PICK d \in Nat : d = Done
      BY <1>6
    <2>2. PICK p \in Nat : p = logOp.prevIndex
      BY <1>1
    <2>3. PICK m \in Nat : m = Len(logOp.all)
      BY <1>5
    <2>4. d < m /\ p + m <= Len(leader) /\ i = p + d + 1
      BY <1>2, <1>6, <1>8, <2>1, <2>2, <2>3
    <2>5. d + 1 \in 1..m /\ p + (d + 1) = i /\ i \in 1..Len(leader)
      BY <1>5, <2>4
    <2>6. QED BY <2>1, <2>2, <2>3, <2>5
  <1>10. h = leader[i] /\ leader[i].index = i
    BY <1>1, <1>2, <1>7, <1>9 DEF Ordered
  <1>11. QED BY <1>1, <1>2, <1>3, <1>6, <1>7, <1>8, <1>9, <1>10

\* AppendAfter goes on to the next entry.
LEMMA NextEntry ==
    ASSUME FileInv, CallInv, mode = "up", logOp.kind = "after", logOp.todo # <<>>,
           logOp'.before = logOp.before, logOp'.prevIndex = logOp.prevIndex,
           logOp'.all = logOp.all, logOp'.todo = Tail(logOp.todo), leader' = leader,
           Looped(logOp.before, logOp.prevIndex, logOp.all, Done + 1, entries')
    PROVE  CallInv'
  <1>1. PICK t : t = Tail(logOp.todo)
    OBVIOUS
  <1>2. /\ logOp.todo \in Seq(Rec) /\ Len(logOp.todo) \in Nat /\ Len(logOp.todo) >= 1
        /\ t \in Seq(Rec) /\ Len(t) = Len(logOp.todo) - 1
        /\ \A j \in 1..Len(t) : t[j] = logOp.todo[j + 1]
    BY <1>1, TodoFacts
  <1>3. /\ Len(logOp.all) \in Nat /\ Done \in Nat
    BY AfterFacts
  <1>4. Len(logOp.todo) <= Len(logOp.all)
        /\ \A j \in 1..Len(logOp.todo) : logOp.todo[j] = logOp.all[Done + j]
    BY DEF CallInv
  <1>5. logOp'.todo = t
    BY <1>1
  <1>6. Done' = Done + 1
    <2>1. PICK m : m = Len(logOp.all)
      OBVIOUS
    <2>2. PICK n : n = Len(logOp.todo)
      OBVIOUS
    <2>3. m \in Nat /\ n \in Nat /\ Len(t) = n - 1
      BY <1>2, <1>3, <2>1, <2>2
    <2>4. m - (n - 1) = (m - n) + 1
      BY <2>3
    <2>5. Done = m - n /\ Done' = m - (n - 1)
      BY <1>5, <2>1, <2>2, <2>3 DEF Done
    <2>6. QED BY <2>4, <2>5
  <1>7. Len(t) <= Len(logOp.all)
    BY <1>2, <1>3, <1>4
  <1>8. ASSUME NEW j \in 1..Len(t) PROVE t[j] = logOp.all[(Done + 1) + j]
    <2>1. j + 1 \in 1..Len(logOp.todo) /\ Done + (j + 1) = (Done + 1) + j
      BY <1>2, <1>3
    <2>2. logOp.todo[j + 1] = logOp.all[Done + (j + 1)]
      BY <1>4, <2>1
    <2>3. QED BY <1>2, <2>1, <2>2
  <1>9. QED BY <1>5, <1>6, <1>7, <1>8 DEF CallInv

\* Nothing of a call but its step changes.
LEMMA SameEntry ==
    ASSUME CallInv, logOp'.kind = logOp.kind, logOp'.before = logOp.before,
           logOp'.prevIndex = logOp.prevIndex, logOp'.all = logOp.all,
           logOp'.todo = logOp.todo, leader' = leader,
           logOp.kind = "after" =>
              Looped(logOp.before, logOp.prevIndex, logOp.all, Done, entries')
    PROVE  CallInv'
  <1>1. Done' = Done
    BY DEF Done
  <1>2. QED BY <1>1 DEF CallInv

\* Every turn of the loop of AppendAfter is a step towards the closed form.
LEMMA NextCallInv ==
    ASSUME FileInv, CallInv, [Next]_vars
    PROVE  CallInv'
  <1>1. ASSUME logOp' = NoCall \/ logOp'.kind # "after" PROVE CallInv'
    BY <1>1, NoCallIs DEF CallInv
  <1>2. ASSUME LogStep, UNCHANGED leader PROVE CallInv'
    <2>1. mode = "up" /\ logOp \in CallType
      BY <1>2, LogStepsUp DEF FileInv, LogTypes
    <2>2. ASSUME NEW e, SkipDuplicate(e) PROVE CallInv'
      <3>1. /\ logOp' = [logOp EXCEPT !.todo = Tail(@)] /\ e = Head(logOp.todo)
            /\ logOp.todo # <<>> /\ entries' = entries
            /\ e.index <= Len(entries) /\ entries[e.index].term = e.term
        BY <2>2 DEF SkipDuplicate, Looks, Conflicts, memoryVars
      <3>2. /\ logOp'.kind = logOp.kind /\ logOp'.before = logOp.before
            /\ logOp'.prevIndex = logOp.prevIndex /\ logOp'.all = logOp.all
            /\ logOp'.todo = Tail(logOp.todo)
        BY <2>1, <3>1 DEF CallType
      <3>3. CASE logOp.kind = "after"
        <4>1. /\ logOp.before \in Seq(Rec) /\ logOp.all \in Seq(Rec)
              /\ logOp.prevIndex \in 0..Len(logOp.before)
              /\ Done \in Nat /\ Done < Len(logOp.all)
              /\ e = logOp.all[Done + 1] /\ e.index = logOp.prevIndex + Done + 1
          BY <2>1, <3>1, <3>3, AfterFacts
        <4>2. Looped(logOp.before, logOp.prevIndex, logOp.all, Done, entries)
          BY <3>3 DEF CallInv
        <4>3. Looped(logOp.before, logOp.prevIndex, logOp.all, Done + 1, entries)
          BY <3>1, <4>1, <4>2, LoopSkips
        <4>4. QED BY <1>2, <2>1, <3>1, <3>2, <3>3, <4>3, NextEntry
      <3>4. QED BY <1>1, <3>2, <3>3
    <2>3. ASSUME NEW e, Truncate(e) \/ Write(e) PROVE CallInv'
      <3>1. \E s : logOp' = [logOp EXCEPT !.step = s]
        BY <2>3 DEF Truncate, Write
      <3>2. /\ logOp'.kind = logOp.kind /\ logOp'.before = logOp.before
            /\ logOp'.prevIndex = logOp.prevIndex /\ logOp'.all = logOp.all
            /\ logOp'.todo = logOp.todo
        BY <2>1, <3>1 DEF CallType
      <3>3. entries' = entries
        BY <2>3 DEF Truncate, Write, memoryVars
      <3>4. logOp.kind = "after" =>
               Looped(logOp.before, logOp.prevIndex, logOp.all, Done, entries')
        BY <3>3 DEF CallInv
      <3>5. QED BY <1>2, <3>2, <3>4, SameEntry
    <2>4. ASSUME SyncTruncate PROVE CallInv'
      <3> DEFINE e == Head(logOp.todo)
      <3>1. /\ logOp.step = "truncated" /\ logOp' = [logOp EXCEPT !.step = "next"]
            /\ entries' = SubSeq(entries, 1, e.index - 1)
        BY <2>4 DEF SyncTruncate
      <3>2. /\ logOp'.kind = logOp.kind /\ logOp'.before = logOp.before
            /\ logOp'.prevIndex = logOp.prevIndex /\ logOp'.all = logOp.all
            /\ logOp'.todo = logOp.todo
        BY <2>1, <3>1 DEF CallType
      <3>3. e.index \in 1..Len(entries) /\ logOp.todo # <<>> /\ entries[e.index].term # e.term
        BY <2>1, <3>1, TruncatedIs
      <3>4. ASSUME logOp.kind = "after"
            PROVE  Looped(logOp.before, logOp.prevIndex, logOp.all, Done, entries')
        <4>1. /\ logOp.before \in Seq(Rec) /\ logOp.all \in Seq(Rec)
              /\ logOp.prevIndex \in 0..Len(logOp.before)
              /\ Done \in Nat /\ Done < Len(logOp.all)
              /\ e = logOp.all[Done + 1] /\ e.index = logOp.prevIndex + Done + 1
          BY <2>1, <3>3, <3>4, AfterFacts
        <4>2. Looped(logOp.before, logOp.prevIndex, logOp.all, Done, entries)
          BY <3>4 DEF CallInv
        <4> HIDE DEF e
        <4>3. e.index - 1 = logOp.prevIndex + Done /\ e.index <= Len(entries)
          BY <3>3, <4>1
        <4>4. Looped(logOp.before, logOp.prevIndex, logOp.all, Done,
                     SubSeq(entries, 1, logOp.prevIndex + Done))
          BY <3>3, <4>1, <4>2, <4>3, LoopCuts
        <4>5. QED BY <3>1, <4>3, <4>4
      <3>5. QED BY <1>2, <3>2, <3>4, SameEntry
    <2>5. ASSUME SyncWrite PROVE CallInv'
      <3> DEFINE e == Head(logOp.todo)
      <3>1. /\ logOp.step = "written"
            /\ logOp' = [logOp EXCEPT !.step = "next", !.todo = Tail(@)]
            /\ entries' = Append(entries, e)
        BY <2>5 DEF SyncWrite
      <3>2. /\ logOp'.kind = logOp.kind /\ logOp'.before = logOp.before
            /\ logOp'.prevIndex = logOp.prevIndex /\ logOp'.all = logOp.all
            /\ logOp'.todo = Tail(logOp.todo)
        BY <2>1, <3>1 DEF CallType
      <3>3. e.index = Len(entries) + 1 /\ logOp.todo # <<>> /\ Len(entries) \in Nat
        BY <2>1, <3>1, WrittenIs, TodoFacts
      <3>4. CASE logOp.kind = "after"
        <4>1. /\ logOp.before \in Seq(Rec) /\ logOp.all \in Seq(Rec)
              /\ logOp.prevIndex \in 0..Len(logOp.before)
              /\ Done \in Nat /\ Done < Len(logOp.all)
              /\ e = logOp.all[Done + 1] /\ e.index = logOp.prevIndex + Done + 1
          BY <2>1, <3>3, <3>4, AfterFacts
        <4>2. Looped(logOp.before, logOp.prevIndex, logOp.all, Done, entries)
          BY <3>4 DEF CallInv
        <4> HIDE DEF e
        <4>3. Len(entries) = logOp.prevIndex + Done
          BY <3>3, <4>1
        <4>4. Looped(logOp.before, logOp.prevIndex, logOp.all, Done + 1, Append(entries, e))
          BY <4>1, <4>2, <4>3, LoopAppends
        <4>5. QED BY <1>2, <2>1, <3>1, <3>2, <3>3, <3>4, <4>4, NextEntry
      <3>5. QED BY <1>1, <3>2, <3>4
    <2>6. QED BY <1>1, <1>2, <2>2, <2>3, <2>4, <2>5 DEF LogStep, LogFails, LogReturns
  <1>3. ASSUME NEW prevIndex \in 0..Len(leader), NEW n \in 1..(Len(leader) - prevIndex),
               AppendRequest(prevIndex, n)
        PROVE  CallInv'
    <2>1. PICK new : new = SubSeq(leader, prevIndex + 1, prevIndex + n)
      OBVIOUS
    <2>2. /\ new \in Seq(Rec) /\ Len(new) = n
          /\ \A j \in 1..n : new[j] = leader[prevIndex + j]
      BY <2>1, RequestIs
    <2>3. /\ prevIndex <= Len(entries) /\ leader' = leader
          /\ entries' = entries /\ mode = "up"
          /\ logOp' = [kind |-> "after", todo |-> new, step |-> "next",
                       before |-> entries, prevIndex |-> prevIndex, all |-> new]
      BY <1>3, <2>1 DEF AppendRequest, Match, CallLog, memoryVars
    <2>4. /\ logOp'.todo = new /\ logOp'.before = entries /\ logOp'.prevIndex = prevIndex
          /\ logOp'.all = new
      BY <2>3
    <2>5. /\ entries \in Seq(Rec) /\ Len(entries) \in Nat /\ prevIndex \in Nat /\ n \in Nat
          /\ Len(leader) \in Nat
      BY DEF FileInv, LogTypes
    <2>6. Done' = 0
      BY <2>2, <2>4, <2>5 DEF Done
    <2>7. prevIndex \in 0..Len(entries) /\ prevIndex + n <= Len(leader)
      BY <2>3, <2>5
    <2>8. Looped(entries, prevIndex, new, 0, entries)
      <3>1. SkipCount(entries, prevIndex, new) \in 0..Len(new)
        BY <2>2, <2>5, <2>7, SkipCountIs
      <3>2. 0 <= SkipCount(entries, prevIndex, new)
        BY <2>2, <3>1
      <3>3. QED BY <3>2 DEF Looped
    <2>9. \A j \in 1..n : new[j] = new[0 + j]
      BY <2>5
    <2>10. QED BY <2>2, <2>3, <2>4, <2>5, <2>6, <2>7, <2>8, <2>9 DEF CallInv
  <1>4. ASSUME ProposeHere PROVE CallInv'
    BY <1>1, <1>4 DEF ProposeHere, CallLog
  <1>5. ASSUME Crash \/ CrashAgain PROVE CallInv'
    BY <1>1, <1>5 DEF Crash, CrashAgain, CrashLog
  <1>6. ASSUME RecoverLog \/ Start PROVE CallInv'
    <2>1. mode = "down" /\ logOp' = logOp
      BY <1>6 DEF RecoverLog, RepairTail, SyncRepair, Start, OpenLog
    <2>2. QED BY <1>1, <2>1 DEF FileInv, DownInv
  <1>7. ASSUME UNCHANGED <<logVars, leader>> PROVE CallInv'
    BY <1>7 DEF logVars, memoryVars, CallInv, Done
  <1>8. ASSUME NEW t \in 1..MaxTerm, NEW v \in BOOLEAN, ChangeState([term |-> t, vote |-> v])
        PROVE  CallInv'
    BY <1>7, <1>8 DEF ChangeState
  <1>9. CASE UNCHANGED vars
    BY <1>7, <1>9 DEF vars
  <1>10. QED
    BY <1>2, <1>3, <1>4, <1>5, <1>6, <1>7, <1>8, <1>9 DEF Next

\* CallInv holds in every state.
LEMMA CallAlways == Spec => []CallInv
  <1>1. Init => CallInv
    BY NoCallIs DEF Init, LogInit, CallInv
  <1>2. FileInv /\ CallInv /\ [Next]_vars => CallInv'
    BY NextCallInv
  <1>3. QED BY <1>1, <1>2, BothAlways, PTL DEF Spec

\* AppendAfterIsClosedForm (log.go, AppendAfter): when its loop comes to its
\* end it has done what the closed form says that modules Raft and Clients
\* use for it.
THEOREM AppendAfterEndsInClosedForm == Spec => []AppendAfterIsClosedForm
  <1>1. ASSUME FileInv, CallInv, logOp.kind = "after", logOp.todo = <<>>
        PROVE  entries = AfterAppend(logOp.before, logOp.prevIndex, logOp.all)
    <2>1. /\ logOp.before \in Seq(Rec) /\ logOp.all \in Seq(Rec)
          /\ logOp.prevIndex \in 0..Len(logOp.before)
          /\ Looped(logOp.before, logOp.prevIndex, logOp.all, Done, entries)
      BY <1>1 DEF FileInv, LogTypes, CallType, CallInv
    <2>2. Done = Len(logOp.all)
      BY <1>1, <2>1 DEF Done
    <2>3. QED BY <2>1, <2>2, LoopEnds
  <1>2. FileInv /\ SaveInv /\ CallInv => AppendAfterIsClosedForm
    BY <1>1 DEF AppendAfterIsClosedForm
  <1>3. QED BY <1>2, BothAlways, CallAlways, PTL

-----------------------------------------------------------------------------
(* What becomes of the records on disk *)

\* The log that is on disk; while the process is up it is the one in memory.
LEMMA DiskIs ==
    ASSUME FileInv
    PROVE  Records(disk) \in Seq(Rec) /\ (mode = "up" => Records(disk) = entries)
  <1>1. disk \in Seq(Piece) /\ entries \in Seq(Rec) /\ Len(disk) \in Nat /\ Len(entries) \in Nat
    BY DEF FileInv, LogTypes
  <1>2. CASE mode = "up"
    <2>1. Starts(disk, entries) /\ Len(disk) <= 2 * Len(entries) + 1
      BY <1>1, <1>2 DEF FileInv, UpInv, Framed
    <2>2. Reads(disk, entries)
      BY <1>1, <2>1, FramedReads
    <2>3. QED BY <1>1, <2>2, ReadsIs
  <1>3. CASE mode = "down"
    <2>1. PICK l \in Seq(Rec) : Reads(disk, l)
      BY <1>3 DEF FileInv, DownInv
    <2>2. QED BY <1>1, <1>3, <2>1, ReadsIs
  <1>4. QED BY <1>2, <1>3 DEF FileInv, LogTypes

\* A step leaves the log on disk as it is, or makes it one of the promised.
LEMMA DiskMoves ==
    ASSUME FileInv, [Next]_vars
    PROVE  \/ Records(disk') = Records(disk)
           \/ mode = "up" /\ Records(disk') \in Promised
  <1>1. /\ disk \in Seq(Piece) /\ file \in Seq(Piece) /\ Len(file) \in Nat
        /\ mode \in {"up", "down"}
    BY DEF FileInv, LogTypes
  <1>2. CASE disk' = disk
    BY <1>2
  <1>3. ASSUME logOp.step = "written", disk' = file, mode = "up"
        PROVE  Records(disk') \in Promised
    <2>1. PICK l : l = Append(entries, Head(logOp.todo))
      OBVIOUS
    <2>2. l \in Seq(Rec) /\ Framed(file, l) /\ l \in Promised
      BY <1>3, <2>1, WrittenIs DEF Promised
    <2>3. Len(l) \in Nat
      BY <2>2
    <2>4. Starts(file, l) /\ Len(file) <= 2 * Len(l) + 1
      BY <1>1, <2>2, <2>3 DEF Framed
    <2>5. Reads(file, l)
      BY <1>1, <2>2, <2>4, FramedReads
    <2>6. QED BY <1>1, <1>3, <2>2, <2>5, ReadsIs
  <1>4. ASSUME logOp.step = "truncated", disk' = file, mode = "up"
        PROVE  Records(disk') \in Promised
    <2>1. PICK l : l = SubSeq(entries, 1, Head(logOp.todo).index - 1)
      OBVIOUS
    <2>2. l \in Seq(Rec) /\ Framed(file, l) /\ l \in Promised
      BY <1>4, <2>1, TruncatedIs DEF Promised
    <2>3. Len(l) \in Nat
      BY <2>2
    <2>4. Starts(file, l) /\ Len(file) <= 2 * Len(l) + 1
      BY <1>1, <2>2, <2>3 DEF Framed
    <2>5. Reads(file, l)
      BY <1>1, <2>2, <2>4, FramedReads
    <2>6. QED BY <1>1, <1>4, <2>2, <2>5, ReadsIs
  <1>5. ASSUME mode = "down", NEW f \in {disk, file}, disk' = f
        PROVE  Records(disk') = Records(disk)
    <2>1. PICK l \in Seq(Rec) : Reads(disk, l) /\ Reads(file, l)
      BY <1>5 DEF FileInv, DownInv
    <2>2. Records(disk) = l /\ Records(file) = l
      BY <1>1, <2>1, ReadsIs
    <2>3. QED BY <1>5, <2>2
  <1>6. ASSUME CrashLog
        PROVE  \/ Records(disk') = Records(disk)
               \/ mode = "up" /\ Records(disk') \in Promised
    <2>1. PICK f \in CrashContents : disk' = f
      BY <1>6 DEF CrashLog
    <2>2. CASE mode = "up"
      <3>1. PICK l \in Promised : f \in Seq(Piece) /\ l \in Seq(Rec) /\ Reads(f, l)
        BY <2>2, CrashFindsPromised
      <3>2. Records(f) = l
        BY <3>1, ReadsIs
      <3>3. QED BY <2>1, <2>2, <3>1, <3>2
    <2>3. CASE mode = "down"
      BY <1>5, <2>1, <2>3, CrashFindsSame
    <2>4. QED BY <1>1, <2>2, <2>3
  <1>7. ASSUME LogStep
        PROVE  \/ disk' = disk
               \/ disk' = file /\ logOp.step \in {"written", "truncated"}
    BY <1>7 DEF LogStep, SkipDuplicate, Truncate, Write, LogFails, LogReturns, SyncTruncate,
                SyncWrite
  <1>8. ASSUME RecoverLog PROVE mode = "down" /\ disk' \in {disk, file}
    BY <1>8 DEF RecoverLog, RepairTail, SyncRepair
  <1>9. ASSUME Start PROVE disk' = disk
    BY <1>9 DEF Start, OpenLog
  <1>10. ASSUME ProposeHere PROVE disk' = disk
    BY <1>10 DEF ProposeHere, CallLog
  <1>11. ASSUME NEW prevIndex \in 0..Len(leader), NEW n \in 1..(Len(leader) - prevIndex),
                AppendRequest(prevIndex, n)
         PROVE  disk' = disk
    BY <1>11 DEF AppendRequest, CallLog
  <1>12. ASSUME UNCHANGED logVars PROVE disk' = disk
    BY <1>12 DEF logVars
  <1>13. CASE UNCHANGED vars
    BY <1>12, <1>13 DEF vars
  <1>14. ASSUME NEW t \in 1..MaxTerm, NEW v \in BOOLEAN, ChangeState([term |-> t, vote |-> v])
         PROVE  disk' = disk
    BY <1>12, <1>14 DEF ChangeState
  <1>15. CASE LogStep
    BY <1>3, <1>4, <1>7, <1>15, LogStepsUp
  <1>16. CASE RecoverLog
    BY <1>5, <1>8, <1>16
  <1>17. CASE Crash \/ CrashAgain
    BY <1>6, <1>17 DEF Crash, CrashAgain
  <1>18. QED
    BY <1>2, <1>9, <1>10, <1>11, <1>12, <1>13, <1>14, <1>15, <1>16, <1>17 DEF Next

\* If every prefix that a shares with c is in b, then b shares no less.
LEMMA SharesMore ==
    ASSUME NEW S, NEW a \in Seq(S), NEW b \in Seq(S), NEW c \in Seq(S),
           ASSUME NEW n \in Nat, n <= Len(a), n <= Len(c), \A k \in 1..n : a[k] = c[k]
           PROVE  n <= Len(b) /\ \A k \in 1..n : b[k] = a[k]
    PROVE  Len(LongestCommonPrefix({b, c})) >= Len(LongestCommonPrefix({a, c}))
  <1>1. PICK n : n = Len(LongestCommonPrefix({a, c}))
    OBVIOUS
  <1>2. PICK m : m = Len(LongestCommonPrefix({b, c}))
    OBVIOUS
  <1>3. n \in Nat /\ n <= Len(a) /\ n <= Len(c) /\ \A k \in 1..n : a[k] = c[k]
    <2>1. n \in Nat /\ n <= Len(a) /\ n <= Len(c)
      BY <1>1, SharedIs
    <2>2. \A k \in 1..n : a[k] = c[k]
      <3>1. \A k \in 1..Len(LongestCommonPrefix({a, c})) : a[k] = c[k]
        BY SharedIs
      <3>2. QED BY <1>1, <3>1
    <2>3. QED BY <2>1, <2>2
  <1>4. n <= Len(b) /\ \A k \in 1..n : b[k] = a[k]
    BY <1>3
  <1>5. n \in 0..Len(b) /\ \A k \in 1..n : b[k] = c[k]
    BY <1>3, <1>4
  <1>6. m \in Nat /\ n <= m
    BY <1>2, <1>3, <1>5, SharedIs
  <1>7. QED BY <1>1, <1>2, <1>3, <1>6

\* Every promised log has as much in common with the leader's as the one in
\* memory: what AppendAfter cuts off differs from the leader's.
LEMMA PromisedShares ==
    ASSUME FileInv, CallInv, mode = "up", NEW l \in Promised
    PROVE  /\ l \in Seq(Rec)
           /\ Len(LongestCommonPrefix({l, leader})) >= Len(LongestCommonPrefix({entries, leader}))
  <1>1. /\ entries \in Seq(Rec) /\ leader \in Seq(Rec) /\ Len(entries) \in Nat
        /\ Len(leader) \in Nat /\ logOp \in CallType
    BY DEF FileInv, LogTypes
  <1>2. CASE l = entries
    <2>1. Len(LongestCommonPrefix({entries, leader})) \in Nat
      BY <1>1, SharedIs
    <2>2. QED BY <1>1, <1>2, <2>1
  <1>3. CASE logOp.step = "written" /\ l = Append(entries, Head(logOp.todo))
    <2>1. PICK e \in Rec : l = Append(entries, e)
      BY <1>3, WrittenIs
    <2>2. /\ l \in Seq(Rec) /\ Len(l) = Len(entries) + 1
          /\ \A k \in 1..Len(entries) : l[k] = entries[k]
      BY <1>1, <2>1, AppendProperties
    <2>3. ASSUME NEW n \in Nat, n <= Len(entries)
          PROVE  n <= Len(l) /\ \A k \in 1..n : l[k] = entries[k]
      BY <1>1, <2>2, <2>3
    <2>4. QED BY <1>1, <2>2, <2>3, SharesMore
  <1>4. CASE logOp.step = "truncated" /\ l = SubSeq(entries, 1, Head(logOp.todo).index - 1)
    <2>1. PICK h : h = Head(logOp.todo)
      OBVIOUS
    <2>2. /\ h \in Rec /\ h.index \in 1..Len(entries) /\ logOp.todo # <<>>
          /\ entries[h.index].term # h.term /\ logOp.kind # "append"
      BY <1>4, <2>1, TruncatedIs
    <2>3. logOp.kind = "after"
      <3>1. logOp.kind # "none"
        BY <2>2, NoCallIs DEF FileInv, UpInv
      <3>2. QED BY <1>1, <2>2, <3>1 DEF CallType
    <2>4. h.index \in 1..Len(leader) /\ h = leader[h.index]
      BY <2>1, <2>2, <2>3, AfterFacts
    <2>5. PICK m : m = h.index - 1
      OBVIOUS
    <2>6. m \in 0..Len(entries) /\ m \in Nat /\ h.index = m + 1 /\ l = SubSeq(entries, 1, m)
      BY <1>1, <1>4, <2>1, <2>2, <2>5
    <2>7. l \in Seq(Rec) /\ Len(l) = m /\ \A k \in 1..m : l[k] = entries[k]
      BY <1>1, <2>6, FirstIs
    <2>8. ASSUME NEW n \in Nat, n <= Len(entries), n <= Len(leader),
                 \A k \in 1..n : entries[k] = leader[k]
          PROVE  n <= Len(l) /\ \A k \in 1..n : l[k] = entries[k]
      <3>1. n <= m
        <4>1. SUFFICES ASSUME m < n PROVE FALSE
          BY <2>6
        <4>2. h.index \in 1..n
          BY <2>6, <4>1
        <4>3. QED BY <2>2, <2>4, <2>8, <4>2
      <3>2. QED BY <2>6, <2>7, <3>1
    <2>9. QED BY <1>1, <2>7, <2>8, SharesMore
  <1>5. QED BY <1>2, <1>3, <1>4 DEF Promised

\* SharedStaysShared (log.go, AppendAfter: "a delayed duplicate would
\* otherwise chop off newer entries"): what the disk has in common with the
\* leader's log is not lost again, by no request however old, by no error and
\* by no crash.
THEOREM SharedIsNeverLost == Spec => SharedStaysShared
  <1> DEFINE Shared(f) == Len(LongestCommonPrefix({Records(f), leader}))
  <1>1. ASSUME FileInv, CallInv, [Next]_vars PROVE Shared(disk') >= Shared(disk)
    <2>1. Records(disk) \in Seq(Rec) /\ leader \in Seq(Rec)
      BY <1>1, DiskIs DEF FileInv, LogTypes
    <2>2. CASE Records(disk') = Records(disk)
      <3>1. Shared(disk) \in Nat
        BY <2>1, SharedIs
      <3>2. QED BY <2>2, <3>1
    <2>3. CASE mode = "up" /\ Records(disk') \in Promised
      <3>1. Records(disk) = entries
        BY <1>1, <2>3, DiskIs
      <3>2. QED BY <1>1, <2>3, <3>1, PromisedShares
    <2>4. QED BY <1>1, <2>2, <2>3, DiskMoves
  <1>2. (FileInv /\ SaveInv) /\ CallInv /\ [Next]_vars => [Shared(disk') >= Shared(disk)]_vars
    BY <1>1
  <1>3. QED BY <1>2, BothAlways, CallAlways, PTL DEF Spec, SharedStaysShared

-----------------------------------------------------------------------------
(* The log and the term together *)

Bounded(l, t) == \A k \in 1..Len(l) : l[k].term <= t

\* Nothing in the log file, or on its way there, is newer than a state that a
\* crash may bring back.
SavedInv ==
    ~failed =>
       /\ Bounded(Records(disk), named.data.term) /\ Bounded(Records(disk), onDisk.data.term)
       /\ Bounded(logOp.todo, named.data.term) /\ Bounded(logOp.todo, onDisk.data.term)
       /\ mode = "up" => named.data.term <= state.term /\ onDisk.data.term <= state.term

\* Every promised log has only terms that are there, or on their way.
LEMMA PromisedBounded ==
    ASSUME FileInv, mode = "up", NEW t \in Nat, Bounded(entries, t), Bounded(logOp.todo, t),
           NEW l \in Promised
    PROVE  Bounded(l, t)
  <1>1. entries \in Seq(Rec) /\ Len(entries) \in Nat
    BY DEF FileInv, LogTypes
  <1>2. CASE l = entries
    BY <1>2
  <1>3. CASE logOp.step = "written" /\ l = Append(entries, Head(logOp.todo))
    <2>1. PICK e \in Rec : e = Head(logOp.todo) /\ logOp.todo # <<>> /\ l = Append(entries, e)
      BY <1>3, WrittenIs
    <2>2. e = logOp.todo[1] /\ 1 \in 1..Len(logOp.todo)
      BY <2>1, TodoFacts
    <2>3. e.term <= t
      BY <2>2 DEF Bounded
    <2>4. /\ Len(l) = Len(entries) + 1 /\ l[Len(entries) + 1] = e
          /\ \A k \in 1..Len(entries) : l[k] = entries[k]
      BY <1>1, <2>1, AppendProperties
    <2>5. \A k \in 1..Len(l) : k \in 1..Len(entries) \/ k = Len(entries) + 1
      BY <1>1, <2>4
    <2>6. QED BY <2>3, <2>4, <2>5 DEF Bounded
  <1>4. CASE logOp.step = "truncated" /\ l = SubSeq(entries, 1, Head(logOp.todo).index - 1)
    <2>1. PICK m : m = Head(logOp.todo).index - 1
      OBVIOUS
    <2>2. m \in 0..Len(entries) /\ l = SubSeq(entries, 1, m)
      <3>1. PICK i : i = Head(logOp.todo).index
        OBVIOUS
      <3>2. i \in 1..Len(entries)
        BY <1>4, <3>1, TruncatedIs
      <3>3. m = i - 1 /\ i - 1 \in 0..Len(entries)
        BY <1>1, <2>1, <3>1, <3>2
      <3>4. QED BY <1>4, <2>1, <3>3
    <2>3. Len(l) = m /\ \A k \in 1..m : l[k] = entries[k]
      BY <1>1, <2>2, FirstIs
    <2>4. \A k \in 1..m : k \in 1..Len(entries)
      BY <1>1, <2>2
    <2>5. QED BY <2>3, <2>4 DEF Bounded
  <1>5. QED BY <1>2, <1>3, <1>4 DEF Promised

\* The log on disk stays within a bound on what is there and on its way.
LEMMA DiskBounded ==
    ASSUME FileInv, [Next]_vars, NEW t \in Nat, Bounded(Records(disk), t), Bounded(logOp.todo, t)
    PROVE  Bounded(Records(disk'), t)
  <1>1. CASE Records(disk') = Records(disk)
    BY <1>1
  <1>2. CASE mode = "up" /\ Records(disk') \in Promised
    BY <1>2, DiskIs, PromisedBounded
  <1>3. QED BY <1>1, <1>2, DiskMoves

\* What is on its way only becomes less, until the next call.
LEMMA TodoBounded ==
    ASSUME FileInv, [Next]_vars, NEW t \in Nat, Bounded(logOp.todo, t)
    PROVE  \/ Bounded(logOp'.todo, t)
           \/ ProposeHere
           \/ \E prevIndex \in 0..Len(leader) :
                 \E n \in 1..(Len(leader) - prevIndex) : AppendRequest(prevIndex, n)
  <1>1. CASE logOp'.todo = logOp.todo
    BY <1>1
  <1>2. ASSUME logOp' = NoCall PROVE Bounded(logOp'.todo, t)
    BY <1>2, NoCallIs DEF Bounded
  <1>3. ASSUME LogStep PROVE Bounded(logOp'.todo, t)
    <2>1. mode = "up" /\ logOp \in CallType
      BY <1>3, LogStepsUp DEF FileInv, LogTypes
    <2>2. ASSUME logOp.todo # <<>>, logOp'.todo = Tail(logOp.todo)
          PROVE  Bounded(logOp'.todo, t)
      <3>1. PICK s : s = Tail(logOp.todo)
        OBVIOUS
      <3>2. /\ Len(logOp.todo) \in Nat /\ Len(s) = Len(logOp.todo) - 1
            /\ \A j \in 1..Len(s) : s[j] = logOp.todo[j + 1]
        BY <2>1, <2>2, <3>1, TodoFacts
      <3>3. \A j \in 1..Len(s) : j + 1 \in 1..Len(logOp.todo)
        BY <3>2
      <3>4. Bounded(s, t)
        BY <3>2, <3>3 DEF Bounded
      <3>5. QED BY <2>2, <3>1, <3>4
    <2>3. ASSUME NEW e, SkipDuplicate(e) PROVE Bounded(logOp'.todo, t)
      BY <2>1, <2>2, <2>3 DEF SkipDuplicate, Looks, CallType
    <2>4. ASSUME NEW e, Truncate(e) \/ Write(e) PROVE Bounded(logOp'.todo, t)
      BY <1>1, <2>1, <2>4 DEF Truncate, Write, CallType
    <2>5. ASSUME NEW e, LogFails(e) PROVE Bounded(logOp'.todo, t)
      BY <1>2, <2>5 DEF LogFails
    <2>6. ASSUME SyncTruncate PROVE Bounded(logOp'.todo, t)
      BY <1>1, <2>1, <2>6 DEF SyncTruncate, CallType
    <2>7. ASSUME SyncWrite PROVE Bounded(logOp'.todo, t)
      <3>1. logOp.todo # <<>>
        BY <2>1, <2>7, WrittenIs DEF SyncWrite
      <3>2. logOp'.todo = Tail(logOp.todo)
        BY <2>1, <2>7 DEF SyncWrite, CallType
      <3>3. QED BY <2>2, <3>1, <3>2
    <2>8. ASSUME LogReturns PROVE Bounded(logOp'.todo, t)
      BY <1>2, <2>8 DEF LogReturns
    <2>9. QED BY <1>3, <2>3, <2>4, <2>5, <2>6, <2>7, <2>8 DEF LogStep
  <1>4. ASSUME Crash \/ CrashAgain PROVE Bounded(logOp'.todo, t)
    BY <1>2, <1>4 DEF Crash, CrashAgain, CrashLog
  <1>5. ASSUME RecoverLog \/ Start PROVE Bounded(logOp'.todo, t)
    BY <1>1, <1>5 DEF RecoverLog, RepairTail, SyncRepair, Start, OpenLog
  <1>6. ASSUME UNCHANGED logVars PROVE Bounded(logOp'.todo, t)
    BY <1>1, <1>6 DEF logVars
  <1>7. CASE UNCHANGED vars
    BY <1>6, <1>7 DEF vars
  <1>8. ASSUME NEW u \in 1..MaxTerm, NEW v \in BOOLEAN, ChangeState([term |-> u, vote |-> v])
        PROVE  Bounded(logOp'.todo, t)
    BY <1>6, <1>8 DEF ChangeState
  <1>9. QED
    BY <1>3, <1>4, <1>5, <1>6, <1>7, <1>8 DEF Next

\* What the state file may come to hold in one step.
MayHold(st) ==
    \/ st = named.data
    \/ st = onDisk.data
    \/ mode = "up" /\ st = state

\* The state file holds what it did, or what is in memory, and never more than
\* that.
LEMMA StateMoves ==
    ASSUME SaveInv, SavedInv, ~failed, mode' # "refused", [Next]_vars, ~failed'
    PROVE  /\ MayHold(named'.data) /\ MayHold(onDisk'.data)
           /\ mode' = "up" => /\ named'.data.term <= state'.term
                              /\ onDisk'.data.term <= state'.term
  <1> DEFINE Rest == mode' = "up" => /\ named'.data.term <= state'.term
                                     /\ onDisk'.data.term <= state'.term
             P == MayHold(named'.data) /\ MayHold(onDisk'.data) /\ Rest
  <1>1. /\ named.data.term \in Nat /\ onDisk.data.term \in Nat /\ state.term \in Nat
        /\ mode \in {"up", "down"}
        /\ mode = "up" => named.data.term <= state.term /\ onDisk.data.term <= state.term
    <2>1. \A st \in StateType : st.term \in Nat
      BY StorageAssumption DEF StateType
    <2>2. QED BY <2>1 DEF SaveInv, SavedInv
  <1>2. CASE mode' = mode /\ UNCHANGED stateVars
    <2>1. named' = named /\ onDisk' = onDisk /\ state' = state
      BY <1>2 DEF stateVars
    <2>2. Rest
      BY <1>1, <1>2, <2>1
    <2>3. QED BY <2>1, <2>2 DEF MayHold
  <1>3. ASSUME NEW t \in 1..MaxTerm, NEW v \in BOOLEAN, ChangeState([term |-> t, vote |-> v]),
               mode' = mode
        PROVE  P
    <2>1. /\ mode = "up" /\ named' = named /\ onDisk' = onDisk
          /\ state' = [term |-> t, vote |-> v]
          /\ t > state.term \/ t = state.term
      BY <1>3 DEF ChangeState, Save
    <2>2. state'.term = t /\ t \in Nat
      BY <2>1, StorageAssumption
    <2>3. state.term <= t
      BY <1>1, <2>1, <2>2
    <2>4. named.data.term <= t /\ onDisk.data.term <= t
      BY <1>1, <2>1, <2>2, <2>3
    <2>5. QED BY <2>1, <2>2, <2>4 DEF MayHold
  <1>4. ASSUME StateStep, mode' = mode PROVE P
    <2>1. state' = state
      BY <1>4 DEF StateStep, SaveSync, SaveRename, SaveSyncDir, SaveFails
    <2>2. mode = "up"
      BY <1>1, <1>4 DEF StateStep, SaveSync, SaveRename, SaveSyncDir, SaveFails, SaveInv
    <2>3. \/ named' = named /\ onDisk' = onDisk
          \/ named'.data = state /\ onDisk' = onDisk
          \/ named' = named /\ onDisk' = named
      <3>1. ASSUME SaveSync \/ SaveFails PROVE named' = named /\ onDisk' = onDisk
        BY <3>1 DEF SaveSync, SaveFails
      <3>2. ASSUME SaveRename PROVE named'.data = state /\ onDisk' = onDisk
        BY <3>2 DEF SaveRename, SaveInv, File
      <3>3. ASSUME SaveSyncDir PROVE named' = named /\ onDisk' = named
        BY <3>3 DEF SaveSyncDir
      <3>4. QED BY <1>4, <3>1, <3>2, <3>3 DEF StateStep
    <2>4. /\ named'.data = named.data \/ named'.data = state
          /\ onDisk'.data = onDisk.data \/ onDisk'.data = named.data
      BY <2>3
    <2>5. Rest
      BY <1>1, <2>1, <2>2, <2>4
    <2>6. QED BY <2>2, <2>4, <2>5 DEF MayHold
  <1>5. ASSUME Crash PROVE P
    <2>1. CrashState /\ mode' = "down"
      BY <1>5 DEF Crash, CrashLog
    <2>2. PICK st \in {named.data, onDisk.data} : named' = File(st, TRUE) /\ onDisk' = File(st, TRUE)
      BY <2>1, CrashStates DEF CrashState
    <2>3. named'.data = st /\ onDisk'.data = st
      BY <2>2 DEF File
    <2>4. QED BY <2>1, <2>3 DEF MayHold
  <1>6. ASSUME CrashAgain PROVE P
    <2>1. named' = named /\ onDisk' = onDisk /\ mode' = "down"
      BY <1>6 DEF CrashAgain, CrashLog, stateVars
    <2>2. QED BY <2>1 DEF MayHold
  <1>7. ASSUME Start PROVE P
    <2>1. mode = "down" /\ mode' = "up"
      BY <1>7 DEF Start, OpenLog
    <2>2. OpenStateStore
      BY <1>7, <2>1 DEF Start
    <2>3. named' = named /\ onDisk' = onDisk /\ state' = named.data
      BY <2>2 DEF OpenStateStore
    <2>4. named = onDisk
      BY <2>1 DEF SaveInv
    <2>5. Rest
      BY <1>1, <2>3, <2>4
    <2>6. QED BY <2>3, <2>5 DEF MayHold
  <1>8. QED
    BY <1>2, <1>3, <1>4, <1>5, <1>6, <1>7, ModeMoves

\* A Save that has failed stays one that has failed.
LEMMA FailedStays == failed /\ [Next]_vars => failed'
  <1> SUFFICES ASSUME failed, [Next]_vars PROVE failed'
    OBVIOUS
  <1>1. ASSUME UNCHANGED stateVars PROVE failed'
    BY <1>1 DEF stateVars
  <1>2. ASSUME NEW t \in 1..MaxTerm, NEW v \in BOOLEAN, ChangeState([term |-> t, vote |-> v])
        PROVE  failed'
    BY <1>2 DEF ChangeState, Save
  <1>3. ASSUME StateStep PROVE failed'
    BY <1>3 DEF StateStep, SaveSync, SaveRename, SaveSyncDir, SaveFails
  <1>4. ASSUME Crash PROVE failed'
    BY <1>4 DEF Crash, CrashState
  <1>5. ASSUME CrashAgain PROVE failed'
    BY <1>1, <1>5 DEF CrashAgain
  <1>6. ASSUME Start PROVE failed'
    BY <1>1, <1>6 DEF Start, OpenStateStore
  <1>7. QED
    BY <1>1, <1>2, <1>3, <1>4, <1>5, <1>6, ModeMoves

\* A call begins with entries no newer than the state that is saved.
LEMMA CallsAreSaved ==
    ASSUME FileInv, SaveInv, ~failed,
           \/ ProposeHere
           \/ \E prevIndex \in 0..Len(leader) :
                 \E n \in 1..(Len(leader) - prevIndex) : AppendRequest(prevIndex, n)
    PROVE  Bounded(logOp'.todo, named'.data.term) /\ Bounded(logOp'.todo, onDisk'.data.term)
  <1>1. CASE ProposeHere
    <2>1. /\ mode = "up" /\ saving = "no" /\ UNCHANGED <<named, onDisk>>
          /\ logOp'.todo = <<[term |-> state.term, index |-> Len(entries) + 1]>>
      BY <1>1 DEF ProposeHere, CallLog, NodeLocked, stateVars
    <2>2. named'.data = state /\ onDisk'.data = state
      BY <2>1 DEF SaveInv
    <2>3. state.term \in Nat
      BY StorageAssumption DEF SaveInv, StateType
    <2>4. Bounded(logOp'.todo, state.term)
      <3>1. PICK e : e = [term |-> state.term, index |-> Len(entries) + 1]
        OBVIOUS
      <3>2. logOp'.todo = <<e>> /\ e.term = state.term
        BY <2>1, <3>1
      <3>3. Len(logOp'.todo) = 1 /\ logOp'.todo[1] = e
        BY <3>2
      <3>4. QED BY <2>3, <3>2, <3>3 DEF Bounded
    <2>5. QED BY <2>2, <2>4
  <1>2. ASSUME NEW prevIndex \in 0..Len(leader), NEW n \in 1..(Len(leader) - prevIndex),
               AppendRequest(prevIndex, n)
        PROVE  Bounded(logOp'.todo, named'.data.term) /\ Bounded(logOp'.todo, onDisk'.data.term)
    <2>1. PICK new : new = SubSeq(leader, prevIndex + 1, prevIndex + n)
      OBVIOUS
    <2>2. new \in Seq(Rec)
      BY <2>1, RequestIs
    <2>3. /\ mode = "up" /\ saving = "no" /\ UNCHANGED <<named, onDisk>>
          /\ logOp'.todo = new /\ state.term = MaxTerm
      BY <1>2, <2>1 DEF AppendRequest, CallLog, NodeLocked, stateVars, InTerm
    <2>4. named'.data = state /\ onDisk'.data = state
      BY <2>3 DEF SaveInv
    <2>5. ASSUME NEW k \in 1..Len(new) PROVE new[k].term <= MaxTerm
      <3>1. new[k] \in Rec
        BY <2>2
      <3>2. new[k].term \in 0..MaxTerm
        BY <3>1 DEF Rec
      <3>3. QED BY <3>2, StorageAssumption
    <2>6. Bounded(logOp'.todo, state.term)
      BY <2>3, <2>5 DEF Bounded
    <2>7. QED BY <2>4, <2>6
  <1>3. QED BY <1>1, <1>2

\* No step brings an entry to the disk before its term.
LEMMA NextSavedInv ==
    ASSUME FileInv, SaveInv, SavedInv, mode' # "refused", SaveInv', [Next]_vars
    PROVE  SavedInv'
  <1>1. SUFFICES ASSUME ~failed' PROVE SavedInv'
    BY DEF SavedInv
  <1>2. ~failed
    BY <1>1, FailedStays
  <1>3. /\ Bounded(Records(disk), named.data.term) /\ Bounded(Records(disk), onDisk.data.term)
        /\ Bounded(logOp.todo, named.data.term) /\ Bounded(logOp.todo, onDisk.data.term)
        /\ mode = "up" => named.data.term <= state.term
    BY <1>2 DEF SavedInv
  <1>4. /\ \A st \in StateType : st.term \in Nat
        /\ state \in StateType /\ named.data \in StateType /\ named'.data \in StateType
        /\ onDisk'.data \in StateType
    BY StorageAssumption DEF StateType, SaveInv
  <1>5. ASSUME mode = "up"
        PROVE  Bounded(Records(disk), state.term) /\ Bounded(logOp.todo, state.term)
    <2>1. /\ Records(disk) \in Seq(Rec) /\ logOp.todo \in Seq(Rec)
          /\ named.data.term \in Nat /\ state.term \in Nat /\ named.data.term <= state.term
      BY <1>3, <1>4, <1>5, DiskIs DEF FileInv, LogTypes, CallType
    <2>2. ASSUME NEW s \in Seq(Rec), Bounded(s, named.data.term) PROVE Bounded(s, state.term)
      <3>1. ASSUME NEW k \in 1..Len(s) PROVE s[k].term <= state.term
        <4>1. s[k].term \in Nat /\ s[k].term <= named.data.term
          <5>1. s[k] \in Rec
            BY <2>2
          <5>2. s[k].term \in 0..MaxTerm
            BY <5>1 DEF Rec
          <5>3. s[k].term \in Nat
            BY <5>2, StorageAssumption
          <5>4. QED BY <2>2, <5>3 DEF Bounded
        <4>2. QED BY <2>1, <4>1
      <3>2. QED BY <3>1 DEF Bounded
    <2>3. QED BY <1>3, <2>1, <2>2
  <1>6. /\ Bounded(Records(disk), named'.data.term) /\ Bounded(Records(disk), onDisk'.data.term)
        /\ Bounded(logOp.todo, named'.data.term) /\ Bounded(logOp.todo, onDisk'.data.term)
    BY <1>1, <1>2, <1>3, <1>5, StateMoves DEF MayHold
  <1>7. named'.data.term \in Nat /\ onDisk'.data.term \in Nat
    BY <1>4
  <1>8. Bounded(Records(disk'), named'.data.term) /\ Bounded(Records(disk'), onDisk'.data.term)
    BY <1>6, <1>7, DiskBounded
  <1>9. Bounded(logOp'.todo, named'.data.term) /\ Bounded(logOp'.todo, onDisk'.data.term)
    <2>1. CASE ProposeHere \/ \E prevIndex \in 0..Len(leader) :
                    \E n \in 1..(Len(leader) - prevIndex) : AppendRequest(prevIndex, n)
      BY <1>2, <2>1, CallsAreSaved
    <2>2. QED BY <1>6, <1>7, <2>1, TodoBounded
  <1>10. mode' = "up" => named'.data.term <= state'.term /\ onDisk'.data.term <= state'.term
    BY <1>1, <1>2, StateMoves
  <1>11. QED BY <1>8, <1>9, <1>10 DEF SavedInv

\* LogTermIsSaved (node.go and state.go): as long as no Save has failed,
\* whatever a crash leaves, the term that is read back is not older than the
\* last entry that is.
THEOREM LogTermsAreSaved == Spec => []LogTermIsSaved
  <1>1. Init => SavedInv
    <2>1. SUFFICES ASSUME Init PROVE SavedInv
      OBVIOUS
    <2>2. /\ mode = "up" /\ entries = <<>> /\ logOp.todo = <<>> /\ FileInv
          /\ named.data = state /\ onDisk.data = state /\ state = NewState
      BY <2>1, InitFileInv, NoCallIs DEF Init, LogInit, StateInit, File
    <2>3. Records(disk) = <<>>
      BY <2>2, DiskIs
    <2>4. \A t : Bounded(<<>>, t)
      BY DEF Bounded
    <2>5. state.term = 0
      BY <2>2 DEF NewState
    <2>6. QED BY <2>2, <2>3, <2>4, <2>5 DEF SavedInv
  <1>2. (FileInv /\ SaveInv) /\ (FileInv /\ SaveInv)' /\ SavedInv /\ [Next]_vars => SavedInv'
    <2>1. FileInv' => mode' # "refused"
      BY DEF FileInv, LogTypes
    <2>2. QED BY <2>1, NextSavedInv
  <1>3. ASSUME FileInv, SaveInv, SavedInv, ~failed,
               NEW f \in CrashContents, NEW st \in StatesAfterCrash
        PROVE  LastTerm(Records(f)) <= st.term
    <2>1. st \in StateType /\ st \in {named.data, onDisk.data}
      <3>1. st \in {named.data, onDisk.data}
        BY <1>3, CrashStates
      <3>2. named.data \in StateType /\ onDisk.data \in StateType
        BY <1>3 DEF SaveInv
      <3>3. QED BY <3>1, <3>2
    <2>2. st.term \in Nat
      BY <2>1, StorageAssumption DEF StateType
    <2>3. Bounded(Records(disk), st.term) /\ Bounded(logOp.todo, st.term)
      BY <1>3, <2>1 DEF SavedInv
    <2>4. PICK l \in Seq(Rec) : Records(f) = l /\ Bounded(l, st.term)
      <3>1. CASE mode = "up"
        <4>1. PICK l \in Promised : f \in Seq(Piece) /\ l \in Seq(Rec) /\ Reads(f, l)
          BY <1>3, <3>1, CrashFindsPromised
        <4>2. Records(f) = l
          BY <4>1, ReadsIs
        <4>3. Bounded(l, st.term)
          BY <1>3, <2>2, <2>3, <3>1, DiskIs, PromisedBounded
        <4>4. QED BY <4>1, <4>2, <4>3
      <3>2. CASE mode = "down"
        <4>1. file \in Seq(Piece) /\ disk \in Seq(Piece) /\ f \in {disk, file}
          BY <1>3, <3>2, CrashFindsSame DEF FileInv, LogTypes
        <4>2. PICK l \in Seq(Rec) : Reads(disk, l) /\ Reads(file, l)
          BY <1>3, <3>2, CrashFindsSame
        <4>3. Records(f) = l /\ Records(disk) = l
          BY <4>1, <4>2, ReadsIs
        <4>4. QED BY <2>3, <4>3
      <3>3. QED BY <1>3, <3>1, <3>2 DEF FileInv, LogTypes
    <2>5. Len(l) \in DOMAIN l => l[Len(l)].term <= st.term
      BY <2>4 DEF Bounded
    <2>6. QED BY <2>2, <2>4, <2>5 DEF LastTerm, TermAt
  <1>4. (FileInv /\ SaveInv) /\ SavedInv => LogTermIsSaved
    BY <1>3 DEF LogTermIsSaved
  <1>5. QED BY <1>1, <1>2, <1>4, BothAlways, PTL DEF Spec
====
