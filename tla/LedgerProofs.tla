---------------------------- MODULE LedgerProofs ----------------------------
(***************************************************************************)
(* The ledger's safety for every set of runners and keys, every matrix,    *)
(* and any number of crashes and starts.  What an append does to the file  *)
(* is stated once, for each part of a line.                                *)
(***************************************************************************)
EXTENDS ExperimentLedger, FiniteSetTheorems, TLAPS

(* An append keeps what is there and adds its part at the end.             *)
LEMMA AppendFacts ==
  ASSUME file \in Seq(Parts \X Key), NEW p \in Parts, NEW k \in Key,
         file' = Append(file, <<p, k>>)
  PROVE  /\ file' \in Seq(Parts \X Key)
         /\ Len(file) \in Nat /\ Len(file') = Len(file) + 1
         /\ \A i \in 1 .. Len(file) : file'[i] = file[i]
         /\ file'[Len(file')][1] = p /\ file'[Len(file')][2] = k
         /\ Begins \subseteq 1 .. Len(file)
         /\ Begins' = IF p = "begin" THEN Begins \cup {Len(file')} ELSE Begins
         /\ Recorded' = IF p = "begin" THEN Recorded \cup {k} ELSE Recorded
<1>1. file' \in Seq(Parts \X Key) /\ Len(file) \in Nat /\ Len(file') = Len(file) + 1
  BY DEF Parts
<1>2. \A i \in 1 .. Len(file) : file'[i] = file[i]
  OBVIOUS
<1>3. file'[Len(file')][1] = p /\ file'[Len(file')][2] = k
  BY <1>1
<1>4. Begins' = IF p = "begin" THEN Begins \cup {Len(file')} ELSE Begins
  BY <1>1, <1>2, <1>3 DEF Begins
<1>5. Begins \subseteq 1 .. Len(file)
  BY DEF Begins
<1>6. Recorded' = IF p = "begin" THEN Recorded \cup {k} ELSE Recorded
  BY <1>1, <1>2, <1>3, <1>4, <1>5 DEF Recorded
<1> QED BY <1>1, <1>2, <1>3, <1>4, <1>5, <1>6

(* What a record that is not damaged has around it.                        *)
LEMMA Undamaged ==
  ASSUME file \in Seq(Parts \X Key), NEW i \in Begins, i \notin Damaged
  PROVE  /\ i \in 1 .. Len(file)
         /\ i = 1 \/ file[i - 1][1] = "newline"
         /\ i < Len(file) /\ file[i + 1][1] = "end"
         /\ i + 2 <= Len(file) => file[i + 2][1] = "newline"
<1>1. i \in 1 .. Len(file) /\ Len(file) \in Nat
  BY DEF Begins
<1> QED BY <1>1 DEF Damaged

(* The last line grows with a part that is put behind no newline.          *)
LEMMA SameLine ==
  ASSUME file \in Seq(Parts \X Key), NEW p \in Parts, NEW k \in Key,
         file' = Append(file, <<p, k>>),
         file # <<>>, file[Len(file)][1] # "newline"
  PROVE  LastLine \subseteq LastLine'
<1> DEFINE n == Len(file)
<1>1. /\ n \in Nat \ {0} /\ Len(file') = n + 1
      /\ \A i \in 1 .. n : file'[i] = file[i]
  BY AppendFacts
<1>2. SUFFICES ASSUME NEW i \in LastLine PROVE i \in LastLine'
  OBVIOUS
<1>3. i \in 1 .. n /\ \A j \in i .. n - 1 : file[j][1] # "newline"
  BY DEF LastLine
<1> HIDE DEF n
<1>4. file[n][1] # "newline"
  BY DEF n
<1>5. \A j \in i .. n : file'[j][1] # "newline"
  BY <1>1, <1>3, <1>4
<1> QED BY <1>1, <1>3, <1>5 DEF LastLine

(* The beginning of a record, put into a readable ledger that lacks it:    *)
(* when the newline of the record in front is missing, that one does not   *)
(* read either.                                                            *)
LEMMA BeginFacts ==
  ASSUME file \in Seq(Parts \X Key), NEW k \in Key,
         file' = Append(file, <<"begin", k>>),
         Readable, RecordedOnce, k \notin Recorded
  PROVE  /\ RecordedOnce'
         /\ EndsWith("begin")'
         /\ Damaged' \subseteq {Len(file) - 1, Len(file) + 1}
         /\ Damaged' \subseteq LastLine'
         /\ OnFreshLine =>
              /\ Damaged' = {Len(file')}
              /\ Len(file') > 1 => file'[Len(file') - 1][1] = "newline"
<1> DEFINE n == Len(file)
<1>1. /\ file' \in Seq(Parts \X Key) /\ n \in Nat /\ Len(file') = n + 1
      /\ \A i \in 1 .. n : file'[i] = file[i]
      /\ file'[n + 1][1] = "begin" /\ file'[n + 1][2] = k
      /\ Begins \subseteq 1 .. n
      /\ Begins' = Begins \cup {n + 1}
      /\ Recorded' = Recorded \cup {k}
  BY AppendFacts DEF Parts
<1>2. RecordedOnce'
  <2>1. \A i \in Begins : file[i][2] \in Recorded
    BY DEF Recorded
  <2>2. \A i \in Begins : file'[i] # file'[n + 1]
    BY <1>1, <2>1
  <2>3. \A i, j \in Begins : i # j => file'[i] # file'[j]
    BY <1>1 DEF RecordedOnce, Duplicated
  <2> HIDE DEF n
  <2> QED BY <1>1, <2>2, <2>3 DEF RecordedOnce, Duplicated
<1>3. EndsWith("begin")'
  BY <1>1 DEF EndsWith
<1>4. \A i \in Begins : /\ i = 1 \/ file[i - 1][1] = "newline"
                        /\ i < n /\ file[i + 1][1] = "end"
                        /\ i + 2 <= n => file[i + 2][1] = "newline"
  BY Undamaged DEF Readable
<1>5. \A i \in Begins : i \in Damaged' => i = n - 1
  <2> SUFFICES ASSUME NEW i \in Begins, i # n - 1 PROVE i \notin Damaged'
    OBVIOUS
  <2>1. i \in 1 .. n /\ i < n /\ i + 2 <= n
    BY <1>1, <1>4
  <2>2. /\ i > 1 => file'[i - 1][1] = "newline"
        /\ i # n + 1 /\ file'[i + 1][1] = "end"
        /\ file'[i + 2][1] = "newline"
    BY <1>1, <1>4, <2>1
  <2> QED BY <1>1, <2>1, <2>2 DEF Damaged
<1>6. n + 1 \in Damaged'
  BY <1>1 DEF Damaged
<1>7. Damaged' \subseteq Begins'
  BY DEF Damaged
<1>8. Damaged' \subseteq {n - 1, n + 1}
  BY <1>1, <1>5, <1>7
<1>9. n + 1 \in LastLine'
  BY <1>1 DEF LastLine
<1>10. n - 1 \in Begins => n - 1 \in LastLine'
  <2> SUFFICES ASSUME n - 1 \in Begins PROVE n - 1 \in LastLine'
    OBVIOUS
  <2>1. n - 1 \in 1 .. n /\ file[n - 1][1] = "begin" /\ file[n][1] = "end"
    BY <1>1, <1>4 DEF Begins
  <2>2. \A j \in n - 1 .. n : file'[j][1] # "newline"
    BY <1>1, <2>1
  <2> QED BY <1>1, <2>1, <2>2 DEF LastLine
<1>11. Damaged' \subseteq LastLine'
  BY <1>1, <1>7, <1>8, <1>9, <1>10
<1>12. ASSUME OnFreshLine PROVE n - 1 \notin Begins
  BY <1>1, <1>4, <1>12 DEF OnFreshLine, EndsWith
<1>13. OnFreshLine => Damaged' = {Len(file')}
  BY <1>1, <1>6, <1>7, <1>8, <1>12
<1>14. OnFreshLine /\ Len(file') > 1 => file'[Len(file') - 1][1] = "newline"
  BY <1>1 DEF OnFreshLine, EndsWith
<1> QED BY <1>1, <1>2, <1>3, <1>8, <1>11, <1>13, <1>14

(* Parts that do not begin a record leave the records as they are.         *)
LEMMA SameRecords ==
  ASSUME file \in Seq(Parts \X Key), NEW p \in Parts \ {"begin"}, NEW k \in Key,
         file' = Append(file, <<p, k>>), RecordedOnce
  PROVE  RecordedOnce' /\ Recorded' = Recorded
<1>1. /\ Begins \subseteq 1 .. Len(file) /\ Begins' = Begins
      /\ \A i \in 1 .. Len(file) : file'[i] = file[i]
      /\ Recorded' = Recorded
  BY AppendFacts
<1> QED BY <1>1 DEF RecordedOnce, Duplicated

(* The end of the record whose beginning is the last thing in the file     *)
(* damages nothing, and makes a record on a line of its own readable.      *)
LEMMA EndFacts ==
  ASSUME file \in Seq(Parts \X Key), NEW k \in Key,
         file' = Append(file, <<"end", k>>), EndsWith("begin")
  PROVE  /\ EndsWith("end")'
         /\ Damaged' \subseteq Damaged
         /\ Len(file) \in Nat /\ Len(file') = Len(file) + 1
         /\ /\ Damaged = {Len(file)}
            /\ Len(file) > 1 => file[Len(file) - 1][1] = "newline"
            => Readable'
<1> DEFINE n == Len(file)
<1>1. /\ file' \in Seq(Parts \X Key) /\ n \in Nat \ {0} /\ Len(file') = n + 1
      /\ \A i \in 1 .. n : file'[i] = file[i]
      /\ file'[n + 1][1] = "end"
      /\ Begins \subseteq 1 .. n
      /\ Begins' = Begins
  <2>1. n # 0
    BY DEF EndsWith
  <2> QED BY <2>1, AppendFacts DEF Parts
<1>2. EndsWith("end")'
  BY <1>1 DEF EndsWith
<1>3. file[n][1] = "begin" /\ n \in Begins
  BY <1>1 DEF EndsWith, Begins
<1>4. n \in Damaged
  BY <1>3 DEF Damaged
<1>5. \A i \in Begins : i \notin Damaged => i \notin Damaged'
  <2> SUFFICES ASSUME NEW i \in Begins, i \notin Damaged PROVE i \notin Damaged'
    OBVIOUS
  <2>1. /\ i \in 1 .. n /\ i < n /\ file[i + 1][1] = "end"
        /\ i = 1 \/ file[i - 1][1] = "newline"
        /\ i + 2 <= n => file[i + 2][1] = "newline"
    BY Undamaged
  <2>2. i + 2 <= n
    BY <1>1, <1>3, <2>1
  <2>3. /\ i > 1 => file'[i - 1][1] = "newline"
        /\ i # n + 1 /\ file'[i + 1][1] = "end"
        /\ file'[i + 2][1] = "newline"
    BY <1>1, <2>1, <2>2
  <2> QED BY <1>1, <2>3 DEF Damaged
<1>6. Damaged' \subseteq Damaged
  <2>1. Damaged' \subseteq Begins'
    BY DEF Damaged
  <2> QED BY <1>1, <1>5, <2>1
<1>7. ASSUME Damaged = {n}, n > 1 => file[n - 1][1] = "newline"
      PROVE  Readable'
  <2>1. n \in 1 .. n /\ n # n + 1 /\ ~ (n + 2 <= n + 1)
    BY <1>1
  <2>2. n > 1 => file'[n - 1][1] = "newline"
    BY <1>1, <1>7
  <2>3. n \notin Damaged'
    BY <1>1, <2>1, <2>2 DEF Damaged
  <2> QED BY <1>6, <1>7, <2>3 DEF Readable
<1> QED BY <1>1, <1>2, <1>6, <1>7

(* The newline after a record's end damages nothing.                       *)
LEMMA NewlineFacts ==
  ASSUME file \in Seq(Parts \X Key), NEW k \in Key,
         file' = Append(file, <<"newline", k>>), EndsWith("end")
  PROVE  /\ OnFreshLine'
         /\ Damaged' \subseteq Damaged
         /\ Len(file) \in Nat \ {0} /\ Len(file') = Len(file) + 1
<1> DEFINE n == Len(file)
<1>1. /\ file' \in Seq(Parts \X Key) /\ n \in Nat \ {0} /\ Len(file') = n + 1
      /\ \A i \in 1 .. n : file'[i] = file[i]
      /\ file'[n + 1][1] = "newline"
      /\ Begins \subseteq 1 .. n
      /\ Begins' = Begins
  <2>1. n # 0
    BY DEF EndsWith
  <2> QED BY <2>1, AppendFacts DEF Parts
<1>2. OnFreshLine'
  BY <1>1 DEF OnFreshLine, EndsWith
<1>3. n \notin Begins
  BY DEF EndsWith, Begins
<1>4. \A i \in Begins : i \notin Damaged => i \notin Damaged'
  <2> SUFFICES ASSUME NEW i \in Begins, i \notin Damaged PROVE i \notin Damaged'
    OBVIOUS
  <2>1. /\ i \in 1 .. n /\ i < n /\ file[i + 1][1] = "end"
        /\ i = 1 \/ file[i - 1][1] = "newline"
        /\ i + 2 <= n => file[i + 2][1] = "newline"
    BY Undamaged
  <2>2. /\ i > 1 => file'[i - 1][1] = "newline"
        /\ i # n + 1 /\ file'[i + 1][1] = "end"
        /\ file'[i + 2][1] = "newline"
    BY <1>1, <2>1
  <2> QED BY <1>1, <2>2 DEF Damaged
<1>5. Damaged' \subseteq Begins
  BY <1>1 DEF Damaged
<1> QED BY <1>1, <1>2, <1>4, <1>5
-----------------------------------------------------------------------------

LEMMA KeyType ==
  ASSUME NEW r \in Runner, next[r] \in Nat \ {0}, next[r] <= Len(Work[r])
  PROVE  key(r) \in Key
BY WorkAssumption DEF key

LEMMA InitInd == Init => IndInv
<1> SUFFICES ASSUME Init PROVE IndInv
  OBVIOUS
<1> USE DEF Init
<1>1. TypeOK
  BY BoundAssumption DEF TypeOK, Parts
<1>2. LockInv
  BY WorkAssumption DEF LockInv, Writing
<1>3. Begins = {} /\ Recorded = {}
  BY DEF Begins, Recorded
<1>4. Damaged = {}
  BY <1>3 DEF Damaged
<1>5. FileInv
  <2>1. Damaged \subseteq {0 - 1, 0 + 1} /\ 0 \in 0 .. Len(file)
    BY <1>4
  <2> QED BY <1>3, <1>4, <2>1
          DEF FileInv, RecordedOnce, Duplicated, Readable, OnFreshLine, Writing
<1>6. CountInv
  <2> SUFFICES ASSUME NEW r \in Runner PROVE Len(Work[r]) \in Nat
    BY DEF CountInv, Writing
  <2> QED BY WorkAssumption
<1> QED BY <1>1, <1>2, <1>5, <1>6 DEF IndInv

LEMMA TypeStep == IndInv /\ [Next]_vars => TypeOK'
<1> SUFFICES ASSUME IndInv, [Next]_vars PROVE TypeOK'
  OBVIOUS
<1> USE DEF IndInv, TypeOK, loop
<1>1. ASSUME NEW r \in Runner, Load(r) PROVE TypeOK'
  <2>1. Recorded \subseteq Key
    BY DEF Recorded, Begins, Parts
  <2> QED BY <1>1, <2>1 DEF Load, Ended
<1>2. ASSUME NEW r \in Runner, SkipCompleted(r) PROVE TypeOK'
  <2>1. next' \in [Runner -> Nat \ {0}] /\ skipped' \in [Runner -> Nat]
    BY <1>2 DEF SkipCompleted
  <2> QED BY <1>2, <2>1 DEF SkipCompleted
<1>3. ASSUME NEW r \in Runner, RunSystem(r) PROVE TypeOK'
  BY <1>3 DEF RunSystem
<1>4. ASSUME NEW r \in Runner, Return(r) PROVE TypeOK'
  BY <1>4 DEF Return, Ended
<1>5. ASSUME NEW r \in Runner, AppendNothing(r) PROVE TypeOK'
  <2>1. key(r) \in Key
    BY <1>5, KeyType DEF AppendNothing, CountInv
  <2>2. next' \in [Runner -> Nat \ {0}] /\ skipped' \in [Runner -> Nat]
    BY <1>5 DEF AppendNothing
  <2>3. completed' \in [Runner -> SUBSET Key]
    BY <1>5, <2>1 DEF AppendNothing
  <2>4. pc' \in [Runner -> Ended \cup {"load", "loop", "append", "write",
                                     "write_end", "write_newline"}]
    BY <1>5 DEF AppendNothing
  <2> QED BY <1>5, <2>2, <2>3, <2>4 DEF AppendNothing
<1>6. ASSUME NEW r \in Runner, AppendRefused(r) PROVE TypeOK'
  BY <1>6 DEF AppendRefused, Ended
<1>7. ASSUME NEW r \in Runner, BeginAppend(r) PROVE TypeOK'
  BY <1>7 DEF BeginAppend
<1>8. ASSUME NEW r \in Runner, WritePart(r) PROVE TypeOK'
  <2>1. key(r) \in Key /\ PartWritten(r) \in Parts
    BY <1>8, KeyType DEF WritePart, CountInv, Writing, PartWritten, Parts
  <2> QED BY <1>8, <2>1 DEF WritePart
<1>9. ASSUME NEW r \in Runner, FinishAppend(r) PROVE TypeOK'
  <2>1. key(r) \in Key /\ PartWritten(r) \in Parts
    BY <1>9, KeyType DEF FinishAppend, CountInv, Writing, PartWritten, Parts
  <2>2. next' \in [Runner -> Nat \ {0}] /\ written' \in [Runner -> Nat]
    BY <1>9 DEF FinishAppend
  <2>3. completed' \in [Runner -> SUBSET Key]
    BY <1>9, <2>1 DEF FinishAppend
  <2>4. pc' \in [Runner -> Ended \cup {"load", "loop", "append", "write",
                                     "write_end", "write_newline"}]
    BY <1>9 DEF FinishAppend
  <2>5. file' \in Seq(Parts \X Key)
    BY <1>9, <2>1 DEF FinishAppend
  <2> QED BY <1>9, <2>2, <2>3, <2>4, <2>5 DEF FinishAppend
<1>10. ASSUME NEW r \in Runner, Crash(r) PROVE TypeOK'
  BY <1>10, BoundAssumption DEF Crash, Ended
<1>11. ASSUME NEW r \in Runner, Rerun(r) PROVE TypeOK'
  BY <1>11, BoundAssumption DEF Rerun
<1>12. CASE UNCHANGED vars
  BY <1>12 DEF vars
<1> QED BY <1>1, <1>2, <1>3, <1>4, <1>5, <1>6, <1>7, <1>8, <1>9, <1>10, <1>11,
           <1>12 DEF Next, Step

LEMMA LockStep == IndInv /\ [Next]_vars => LockInv'
<1> SUFFICES ASSUME IndInv, [Next]_vars PROVE LockInv'
  OBVIOUS
<1> USE WorkAssumption DEF IndInv, TypeOK, LockInv, Writing, Ended, loop
<1>1. ASSUME NEW r \in Runner, Load(r) PROVE LockInv'
  BY <1>1 DEF Load
<1>2. ASSUME NEW r \in Runner, SkipCompleted(r) PROVE LockInv'
  BY <1>2 DEF SkipCompleted
<1>3. ASSUME NEW r \in Runner, RunSystem(r) PROVE LockInv'
  BY <1>3 DEF RunSystem
<1>4. ASSUME NEW r \in Runner, Return(r) PROVE LockInv'
  BY <1>4 DEF Return
<1>5. ASSUME NEW r \in Runner, AppendNothing(r) PROVE LockInv'
  BY <1>5 DEF AppendNothing
<1>6. ASSUME NEW r \in Runner, AppendRefused(r) PROVE LockInv'
  BY <1>6 DEF AppendRefused
<1>7. ASSUME NEW r \in Runner, BeginAppend(r) PROVE LockInv'
  BY <1>7 DEF BeginAppend
<1>8. ASSUME NEW r \in Runner, WritePart(r) PROVE LockInv'
  BY <1>8 DEF WritePart
<1>9. ASSUME NEW r \in Runner, FinishAppend(r) PROVE LockInv'
  BY <1>9 DEF FinishAppend
<1>10. ASSUME NEW r \in Runner, Crash(r) PROVE LockInv'
  BY <1>10 DEF Crash
<1>11. ASSUME NEW r \in Runner, Rerun(r) PROVE LockInv'
  BY <1>11 DEF Rerun
<1>12. CASE UNCHANGED vars
  BY <1>12 DEF vars
<1> QED BY <1>1, <1>2, <1>3, <1>4, <1>5, <1>6, <1>7, <1>8, <1>9, <1>10, <1>11,
           <1>12 DEF Next, Step

(* How the file is when nobody writes, and when one runner does.           *)
LEMMA FileStep == IndInv /\ [Next]_vars => FileInv'
<1> SUFFICES ASSUME IndInv, [Next]_vars PROVE FileInv'
  OBVIOUS
<1> USE WorkAssumption DEF IndInv, TypeOK, LockInv, Writing, Ended, loop
<1>0. ASSUME UNCHANGED <<file, lock, crashes>>,
             \A r \in Runner : pc'[r] \in Writing =>
                pc'[r] = pc[r] /\ next'[r] = next[r]
      PROVE  FileInv'
  <2>1. /\ Recorded' = Recorded /\ Damaged' = Damaged /\ LastLine' = LastLine
        /\ Readable' <=> Readable
        /\ RecordedOnce' <=> RecordedOnce
        /\ OnFreshLine' <=> OnFreshLine
        /\ EndsWith("begin")' <=> EndsWith("begin")
        /\ EndsWith("end")' <=> EndsWith("end")
    BY <1>0 DEF Recorded, Begins, Readable, Damaged, LastLine, RecordedOnce,
                Duplicated, OnFreshLine, EndsWith
  <2>2. \A r \in Runner : pc'[r] \in Writing => key(r)' = key(r)
    BY <1>0 DEF key
  <2> QED BY <1>0, <2>1, <2>2 DEF FileInv
<1>1. ASSUME NEW r \in Runner, Load(r) PROVE FileInv'
  BY <1>0, <1>1 DEF Load
<1>2. ASSUME NEW r \in Runner, SkipCompleted(r) PROVE FileInv'
  BY <1>0, <1>2 DEF SkipCompleted
<1>3. ASSUME NEW r \in Runner, RunSystem(r) PROVE FileInv'
  BY <1>0, <1>3 DEF RunSystem
<1>4. ASSUME NEW r \in Runner, Return(r) PROVE FileInv'
  BY <1>0, <1>4 DEF Return
<1>5. ASSUME NEW r \in Runner, AppendNothing(r) PROVE FileInv'
  BY <1>0, <1>5 DEF AppendNothing
<1>6. ASSUME NEW r \in Runner, AppendRefused(r) PROVE FileInv'
  BY <1>0, <1>6 DEF AppendRefused
<1>11. ASSUME NEW r \in Runner, Rerun(r) PROVE FileInv'
  BY <1>0, <1>11 DEF Rerun
<1>12. CASE UNCHANGED vars
  BY <1>0, <1>12 DEF vars
<1>7. ASSUME NEW r \in Runner, BeginAppend(r) PROVE FileInv'
  <2>1. /\ UNCHANGED <<file, crashes>> /\ lock = Nobody /\ lock' = r
        /\ Readable /\ key(r) \notin Recorded /\ key(r)' = key(r)
        /\ pc'[r] = "write" /\ \A q \in Runner \ {r} : pc'[q] = pc[q]
    BY <1>7 DEF BeginAppend, key
  <2>2. \A q \in Runner \ {r} : pc'[q] \notin Writing
    BY <2>1
  <2>3. /\ Recorded' = Recorded /\ Damaged' = Damaged /\ LastLine' = LastLine
        /\ (Readable <=> Readable') /\ (RecordedOnce <=> RecordedOnce')
        /\ (OnFreshLine <=> OnFreshLine')
    BY <2>1 DEF Recorded, Begins, Readable, Damaged, LastLine, RecordedOnce,
                Duplicated, OnFreshLine, EndsWith
  <2> QED BY <2>1, <2>2, <2>3 DEF FileInv
<1>8. ASSUME NEW r \in Runner, WritePart(r) PROVE FileInv'
  <2>1. /\ lock = r /\ lock' = r /\ crashes' = crashes
        /\ key(r) \in Key /\ key(r)' = key(r)
        /\ \A q \in Runner \ {r} : pc'[q] \notin Writing
    BY <1>8, KeyType DEF WritePart, CountInv, key
  <2>2. CASE pc[r] = "write"
    <3>1. file' = Append(file, <<"begin", key(r)>>) /\ pc'[r] = "write_end"
      BY <1>8, <2>2 DEF WritePart, PartWritten
    <3>2. /\ Readable /\ RecordedOnce /\ key(r) \notin Recorded
          /\ crashes = 0 => OnFreshLine
      BY <2>2 DEF FileInv
    <3>3. /\ RecordedOnce' /\ EndsWith("begin")' /\ Damaged' \subseteq LastLine'
          /\ Damaged' \subseteq {Len(file) - 1, Len(file) + 1}
          /\ OnFreshLine =>
               /\ Damaged' = {Len(file')}
               /\ Len(file') > 1 => file'[Len(file') - 1][1] = "newline"
      BY <2>1, <3>1, <3>2, BeginFacts
    <3>4. Len(file) \in 0 .. Len(file')
      BY <2>1, <3>1
    <3> QED BY <2>1, <3>1, <3>2, <3>3, <3>4 DEF FileInv
  <2>3. CASE pc[r] = "write_end"
    <3>1. file' = Append(file, <<"end", key(r)>>) /\ pc'[r] = "write_newline"
      BY <1>8, <2>3 DEF WritePart, PartWritten
    <3>2. /\ EndsWith("begin") /\ RecordedOnce /\ Damaged \subseteq LastLine
          /\ crashes = 0 =>
               /\ Damaged = {Len(file)}
               /\ Len(file) > 1 => file[Len(file) - 1][1] = "newline"
      BY <2>3 DEF FileInv
    <3>3. /\ EndsWith("end")' /\ Damaged' \subseteq Damaged
          /\ Len(file) \in Nat /\ Len(file') = Len(file) + 1
          /\ crashes = 0 => Readable'
      BY <2>1, <3>1, <3>2, EndFacts
    <3>4. RecordedOnce' /\ LastLine \subseteq LastLine'
      BY <2>1, <3>1, <3>2, SameRecords, SameLine DEF Parts, EndsWith
    <3>5. \E i \in 0 .. Len(file') : Damaged' \subseteq {i - 1, i + 1}
      <4>1. PICK i \in 0 .. Len(file) : Damaged \subseteq {i - 1, i + 1}
        BY DEF FileInv
      <4>2. i \in 0 .. Len(file') /\ Damaged' \subseteq {i - 1, i + 1}
        BY <3>3, <4>1
      <4> QED BY <4>2
    <3>6. Damaged' \subseteq LastLine'
      BY <3>2, <3>3, <3>4
    <3> QED BY <2>1, <3>1, <3>3, <3>4, <3>5, <3>6 DEF FileInv
  <2> QED BY <1>8, <2>2, <2>3 DEF WritePart
<1>9. ASSUME NEW r \in Runner, FinishAppend(r) PROVE FileInv'
  <2>1. /\ lock = r /\ lock' = Nobody /\ crashes' = crashes
        /\ key(r) \in Key
        /\ \A q \in Runner : pc'[q] \notin Writing
    BY <1>9, KeyType DEF FinishAppend, CountInv
  <2>2. file' = Append(file, <<"newline", key(r)>>)
    BY <1>9 DEF FinishAppend, PartWritten
  <2>3. /\ EndsWith("end") /\ Damaged \subseteq LastLine /\ RecordedOnce
        /\ crashes = 0 => Readable
    BY <1>9 DEF FinishAppend, FileInv
  <2>4. /\ OnFreshLine' /\ Damaged' \subseteq Damaged
        /\ Len(file) \in Nat \ {0} /\ Len(file') = Len(file) + 1
    BY <2>1, <2>2, <2>3, NewlineFacts
  <2>5. RecordedOnce' /\ LastLine \subseteq LastLine'
    BY <2>1, <2>2, <2>3, SameRecords, SameLine DEF Parts, EndsWith
  <2>6. \E i \in 0 .. Len(file') : Damaged' \subseteq {i - 1, i + 1}
    <3>1. PICK i \in 0 .. Len(file) : Damaged \subseteq {i - 1, i + 1}
      BY DEF FileInv
    <3>2. i \in 0 .. Len(file') /\ Damaged' \subseteq {i - 1, i + 1}
      BY <2>4, <3>1
    <3> QED BY <3>2
  <2>7. Damaged' \subseteq LastLine' /\ (crashes = 0 => Readable')
    BY <2>3, <2>4, <2>5 DEF Readable
  <2> QED BY <2>1, <2>4, <2>5, <2>6, <2>7 DEF FileInv
<1>10. ASSUME NEW r \in Runner, Crash(r) PROVE FileInv'
  <2>1. /\ UNCHANGED file /\ crashes' # 0
        /\ pc'[r] = "crashed" /\ \A q \in Runner \ {r} : pc'[q] = pc[q]
        /\ lock' = IF lock = r THEN Nobody ELSE lock
        /\ \A q \in Runner : key(q)' = key(q)
    BY <1>10, BoundAssumption DEF Crash, key
  <2>2. /\ Recorded' = Recorded /\ Damaged' = Damaged /\ LastLine' = LastLine
        /\ Readable' <=> Readable
        /\ RecordedOnce' <=> RecordedOnce
        /\ EndsWith("begin")' <=> EndsWith("begin")
        /\ EndsWith("end")' <=> EndsWith("end")
    BY <2>1 DEF Recorded, Begins, Readable, Damaged, LastLine, RecordedOnce,
                Duplicated, EndsWith
  <2>3. \A q \in Runner : pc'[q] \in Writing => pc'[q] = pc[q]
    BY <2>1
  <2>4. \E i \in 0 .. Len(file') : Damaged' \subseteq {i - 1, i + 1}
    BY <2>1, <2>2 DEF FileInv
  <2>5. RecordedOnce' /\ Damaged' \subseteq LastLine'
    BY <2>2 DEF FileInv
  <2>6. ASSUME NEW q \in Runner, pc'[q] \in Writing
        PROVE  /\ pc'[q] = "write" => Readable' /\ key(q)' \notin Recorded'
               /\ pc'[q] = "write_end" => EndsWith("begin")'
               /\ pc'[q] = "write_newline" => EndsWith("end")'
    BY <2>1, <2>2, <2>3, <2>6 DEF FileInv
  <2> QED BY <2>1, <2>4, <2>5, <2>6 DEF FileInv
<1> QED BY <1>1, <1>2, <1>3, <1>4, <1>5, <1>6, <1>7, <1>8, <1>9, <1>10, <1>11,
           <1>12 DEF Next, Step

(* One more key accounted for, written or skipped.                         *)
LEMMA OneMore ==
  ASSUME NEW w \in Nat, NEW s \in Nat, NEW n \in Nat \ {0}, NEW l \in Nat,
         w + s = n - 1, n <= l
  PROVE  /\ (w + 1) + s = (n + 1) - 1
         /\ w + (s + 1) = (n + 1) - 1
         /\ n + 1 <= l + 1
         /\ \A i \in 1 .. (n + 1) - 1 : i = n \/ i \in 1 .. n - 1
OBVIOUS

(* The counters of a runner are those of the keys behind its loop index.   *)
LEMMA CountStep == IndInv /\ [Next]_vars => CountInv'
<1> SUFFICES ASSUME TypeOK, CountInv, [Next]_vars PROVE CountInv'
  BY DEF IndInv
<1> USE DEF TypeOK, Writing, Ended, loop
<1>0. Recorded \subseteq Recorded'
  <2>1. CASE UNCHANGED file
    BY <2>1 DEF Recorded, Begins
  <2>2. ASSUME NEW r \in Runner, WritePart(r) PROVE Recorded \subseteq Recorded'
    <3>1. key(r) \in Key /\ PartWritten(r) \in Parts
      BY <2>2, KeyType DEF WritePart, CountInv, PartWritten, Parts
    <3>2. file' = Append(file, <<PartWritten(r), key(r)>>)
      BY <2>2 DEF WritePart
    <3> QED BY <3>1, <3>2, AppendFacts
  <2>3. ASSUME NEW r \in Runner, FinishAppend(r) PROVE Recorded \subseteq Recorded'
    <3>1. key(r) \in Key /\ PartWritten(r) \in Parts
      BY <2>3, KeyType DEF FinishAppend, CountInv, PartWritten, Parts
    <3>2. file' = Append(file, <<PartWritten(r), key(r)>>)
      BY <2>3 DEF FinishAppend
    <3> QED BY <3>1, <3>2, AppendFacts
  <2> QED BY <2>1, <2>2, <2>3
          DEF Next, Step, vars, Load, SkipCompleted, RunSystem, Return,
              AppendNothing, AppendRefused, BeginAppend, Crash, Rerun
<1> DEFINE Counts(q) ==
      /\ next[q] <= Len(Work[q]) + 1
      /\ pc[q] \in Writing \cup {"append"} => next[q] <= Len(Work[q])
      /\ pc[q] = "returned" => next[q] = Len(Work[q]) + 1
      /\ written[q] + skipped[q] = next[q] - 1
      /\ completed[q] \subseteq Recorded
      /\ \A i \in 1 .. next[q] - 1 : Work[q][i] \in completed[q]
      /\ pc[q] \in {"write_end", "write_newline"} => key(q) \in Recorded
<1>a. \A q \in Runner : Counts(q) /\ Len(Work[q]) \in Nat
  <2>1. \A q \in Runner : Len(Work[q]) \in Nat
    BY WorkAssumption
  <2> HIDE DEF TypeOK
  <2>2. \A q \in Runner : Counts(q)
    BY DEF CountInv
  <2> QED BY <2>1, <2>2
<1>b. ASSUME NEW q \in Runner,
             /\ pc'[q] = pc[q] /\ next'[q] = next[q] /\ completed'[q] = completed[q]
             /\ written'[q] = written[q] /\ skipped'[q] = skipped[q]
      PROVE  Counts(q)'
  BY <1>0, <1>a, <1>b DEF key
<1>c. ASSUME NEW r \in Runner, Counts(r)',
             \A q \in Runner \ {r} :
               /\ pc'[q] = pc[q] /\ next'[q] = next[q]
               /\ completed'[q] = completed[q]
               /\ written'[q] = written[q] /\ skipped'[q] = skipped[q]
      PROVE  CountInv'
  <2>1. \A q \in Runner : Counts(q)'
    BY <1>b, <1>c
  <2> QED BY <2>1 DEF CountInv
<1>d. ASSUME NEW r \in Runner,
             next[r] <= Len(Work[r]), next'[r] = next[r] + 1, pc'[r] = "loop",
             \/ written'[r] = written[r] + 1 /\ skipped'[r] = skipped[r]
             \/ written'[r] = written[r] /\ skipped'[r] = skipped[r] + 1,
             key(r) \in completed'[r], completed[r] \subseteq completed'[r],
             completed'[r] \subseteq Recorded'
      PROVE  Counts(r)'
  <2>1. /\ written[r] \in Nat /\ skipped[r] \in Nat /\ next[r] \in Nat \ {0}
        /\ Len(Work[r]) \in Nat /\ written[r] + skipped[r] = next[r] - 1
        /\ \A i \in 1 .. next[r] - 1 : Work[r][i] \in completed[r]
    BY <1>a
  <2> HIDE DEF TypeOK
  <2>2. /\ (written[r] + 1) + skipped[r] = (next[r] + 1) - 1
        /\ written[r] + (skipped[r] + 1) = (next[r] + 1) - 1
        /\ next[r] + 1 <= Len(Work[r]) + 1
        /\ \A i \in 1 .. (next[r] + 1) - 1 : i = next[r] \/ i \in 1 .. next[r] - 1
    BY <1>d, <2>1, OneMore
  <2>3. \A i \in 1 .. next'[r] - 1 : Work[r][i] \in completed'[r]
    BY <1>d, <2>1, <2>2 DEF key
  <2>4. pc'[r] \notin Writing \cup {"append", "returned"}
    BY <1>d
  <2>5. written'[r] + skipped'[r] = next'[r] - 1 /\ next'[r] <= Len(Work[r]) + 1
    BY <1>d, <2>2
  <2> QED BY <1>d, <2>3, <2>4, <2>5
<1>e. ASSUME NEW r \in Runner,
             next'[r] = next[r], completed'[r] = completed[r],
             written'[r] = written[r], skipped'[r] = skipped[r],
             pc'[r] \in Writing \cup {"append"} => next[r] <= Len(Work[r]),
             pc'[r] = "returned" => next[r] = Len(Work[r]) + 1,
             pc'[r] \in {"write_end", "write_newline"} => key(r) \in Recorded'
      PROVE  Counts(r)'
  <2> HIDE DEF TypeOK, Writing
  <2>1. key(r)' = key(r)
    BY <1>e DEF key
  <2> QED BY <1>0, <1>a, <1>e, <2>1
<1>1. ASSUME NEW r \in Runner, Load(r) PROVE CountInv'
  <2>1. Counts(r)'
    <3>1. /\ next'[r] = next[r] /\ written'[r] = written[r]
          /\ skipped'[r] = skipped[r] /\ pc'[r] \in {"loop", "refused"}
          /\ completed'[r] \in {completed[r], Recorded}
      BY <1>1 DEF Load
    <3> QED BY <1>0, <1>a, <3>1
  <2> QED BY <1>1, <1>c, <2>1 DEF Load
<1>2. ASSUME NEW r \in Runner, SkipCompleted(r) PROVE CountInv'
  <2>1. /\ next[r] <= Len(Work[r]) /\ next'[r] = next[r] + 1 /\ pc'[r] = "loop"
        /\ written'[r] = written[r] /\ skipped'[r] = skipped[r] + 1
        /\ completed'[r] = completed[r] /\ key(r) \in completed[r]
    BY <1>2 DEF SkipCompleted
  <2>2. completed[r] \subseteq Recorded'
    BY <1>0, <1>a
  <2>3. Counts(r)'
    BY <1>d, <2>1, <2>2
  <2> QED BY <1>2, <1>c, <2>3 DEF SkipCompleted
<1>3. ASSUME NEW r \in Runner, RunSystem(r) PROVE CountInv'
  <2>1. /\ next'[r] = next[r] /\ completed'[r] = completed[r]
        /\ written'[r] = written[r] /\ skipped'[r] = skipped[r]
        /\ pc'[r] = "append" /\ next[r] <= Len(Work[r])
    BY <1>3 DEF RunSystem
  <2>2. Counts(r)'
    BY <1>e, <2>1
  <2> QED BY <1>3, <1>c, <2>2 DEF RunSystem
<1>4. ASSUME NEW r \in Runner, Return(r) PROVE CountInv'
  <2>1. /\ next'[r] = next[r] /\ completed'[r] = completed[r]
        /\ written'[r] = written[r] /\ skipped'[r] = skipped[r]
        /\ pc'[r] = "returned" /\ next[r] > Len(Work[r])
    BY <1>4 DEF Return
  <2>2. next[r] = Len(Work[r]) + 1
    <3>1. /\ next[r] \in Nat /\ Len(Work[r]) \in Nat
          /\ next[r] <= Len(Work[r]) + 1
      BY <1>a
    <3> HIDE DEF TypeOK
    <3> QED BY <2>1, <3>1
  <2>3. Counts(r)'
    BY <1>e, <2>1, <2>2
  <2> QED BY <1>4, <1>c, <2>3 DEF Return
<1>5. ASSUME NEW r \in Runner, AppendNothing(r) PROVE CountInv'
  <2>1. /\ next[r] <= Len(Work[r]) /\ next'[r] = next[r] + 1 /\ pc'[r] = "loop"
        /\ written'[r] = written[r] /\ skipped'[r] = skipped[r] + 1
        /\ completed'[r] = completed[r] \cup {key(r)} /\ key(r) \in Recorded
    BY <1>5, <1>a DEF AppendNothing
  <2>2. completed'[r] \subseteq Recorded'
    BY <1>0, <1>a, <2>1
  <2>3. Counts(r)'
    BY <1>d, <2>1, <2>2
  <2> QED BY <1>5, <1>c, <2>3 DEF AppendNothing
<1>6. ASSUME NEW r \in Runner, AppendRefused(r) PROVE CountInv'
  <2>1. /\ next'[r] = next[r] /\ completed'[r] = completed[r]
        /\ written'[r] = written[r] /\ skipped'[r] = skipped[r]
        /\ pc'[r] = "refused"
    BY <1>6 DEF AppendRefused
  <2>2. Counts(r)'
    BY <1>e, <2>1
  <2> QED BY <1>6, <1>c, <2>2 DEF AppendRefused
<1>7. ASSUME NEW r \in Runner, BeginAppend(r) PROVE CountInv'
  <2>1. /\ next'[r] = next[r] /\ completed'[r] = completed[r]
        /\ written'[r] = written[r] /\ skipped'[r] = skipped[r]
        /\ pc'[r] = "write" /\ next[r] <= Len(Work[r])
    BY <1>7, <1>a DEF BeginAppend
  <2>2. Counts(r)'
    BY <1>e, <2>1
  <2> QED BY <1>7, <1>c, <2>2 DEF BeginAppend
<1>8. ASSUME NEW r \in Runner, WritePart(r) PROVE CountInv'
  <2>1. key(r) \in Recorded'
    <3>1. key(r) \in Key
      BY <1>8, KeyType DEF WritePart, CountInv
    <3>2. CASE pc[r] = "write"
      <4>1. file' = Append(file, <<"begin", key(r)>>)
        BY <1>8, <3>2 DEF WritePart, PartWritten
      <4> QED BY <3>1, <4>1, AppendFacts DEF Parts
    <3>3. CASE pc[r] = "write_end"
      BY <1>0, <1>a, <3>3
    <3> QED BY <1>8, <3>2, <3>3 DEF WritePart
  <2>2. /\ next'[r] = next[r] /\ completed'[r] = completed[r]
        /\ written'[r] = written[r] /\ skipped'[r] = skipped[r]
        /\ pc'[r] # "returned" /\ next[r] <= Len(Work[r])
    BY <1>8, <1>a DEF WritePart
  <2>3. Counts(r)'
    BY <1>e, <2>1, <2>2
  <2> QED BY <1>8, <1>c, <2>3 DEF WritePart
<1>9. ASSUME NEW r \in Runner, FinishAppend(r) PROVE CountInv'
  <2>1. /\ next[r] <= Len(Work[r]) /\ next'[r] = next[r] + 1 /\ pc'[r] = "loop"
        /\ written'[r] = written[r] + 1 /\ skipped'[r] = skipped[r]
        /\ completed'[r] = completed[r] \cup {key(r)} /\ key(r) \in Recorded
    BY <1>9, <1>a DEF FinishAppend
  <2>2. completed'[r] \subseteq Recorded'
    BY <1>0, <1>a, <2>1
  <2>3. Counts(r)'
    BY <1>d, <2>1, <2>2
  <2> QED BY <1>9, <1>c, <2>3 DEF FinishAppend
<1>10. ASSUME NEW r \in Runner, Crash(r) PROVE CountInv'
  <2>1. /\ next'[r] = next[r] /\ completed'[r] = completed[r]
        /\ written'[r] = written[r] /\ skipped'[r] = skipped[r]
        /\ pc'[r] = "crashed"
    BY <1>10 DEF Crash
  <2>2. Counts(r)'
    BY <1>e, <2>1
  <2> QED BY <1>10, <1>c, <2>2 DEF Crash
<1>11. ASSUME NEW r \in Runner, Rerun(r) PROVE CountInv'
  <2>1. Counts(r)'
    BY <1>11, <1>0, <1>a DEF Rerun
  <2> QED BY <1>11, <1>c, <2>1 DEF Rerun
<1>12. CASE UNCHANGED vars
  <2>1. \A q \in Runner : Counts(q)'
    BY <1>b, <1>12 DEF vars
  <2> QED BY <2>1 DEF CountInv
<1> QED BY <1>1, <1>2, <1>3, <1>4, <1>5, <1>6, <1>7, <1>8, <1>9, <1>10, <1>11,
           <1>12 DEF Next, Step

-----------------------------------------------------------------------------

(* The phase of the writer determines the end of the file, and the loop    *)
(* index of a runner what it has accounted for, in every reachable state.  *)
THEOREM Inductive == Spec => []IndInv
<1>1. IndInv /\ [Next]_vars => IndInv'
  BY TypeStep, LockStep, FileStep, CountStep DEF IndInv
<1> QED BY InitInd, <1>1, PTL DEF Spec

(* No key is recorded twice, however many runners work on the ledger and   *)
(* wherever they crash.                                                    *)
THEOREM RecordedOnceCorrect == Spec => []RecordedOnce
<1>1. IndInv => RecordedOnce
  BY DEF IndInv, FileInv
<1> QED BY Inductive, <1>1, PTL

(* Without a crash the ledger is readable whenever the lock is free.       *)
THEOREM OnlyCrashesDamageCorrect == Spec => []OnlyCrashesDamage
<1>1. IndInv => OnlyCrashesDamage
  BY DEF IndInv, FileInv, OnlyCrashesDamage
<1> QED BY Inductive, <1>1, PTL

(* Any number of crashes damages at most the last line, with at most two   *)
(* records on it: the next append is refused, so that nothing is built on  *)
(* what cannot be read.                                                    *)
THEOREM OneLineDamagedCorrect == Spec => []OneLineDamaged
<1>1. ASSUME IndInv PROVE OneLineDamaged
  <2>1. PICK i \in 0 .. Len(file) : Damaged \subseteq {i - 1, i + 1}
    BY <1>1 DEF IndInv, FileInv
  <2>2. IsFiniteSet({i + 1}) /\ Cardinality({i + 1}) = 1
    BY FS_Singleton
  <2>3. /\ IsFiniteSet({i - 1, i + 1})
        /\ Cardinality({i - 1, i + 1}) \in {1, 2}
    <3>1. {i - 1, i + 1} = {i + 1} \cup {i - 1}
      OBVIOUS
    <3> QED BY <2>2, <3>1, FS_AddElement
  <2>4. Cardinality(Damaged) <= Cardinality({i - 1, i + 1})
    BY <2>1, <2>3, FS_Subset
  <2>5. Cardinality(Damaged) \in Nat
    BY <2>1, <2>3, FS_Subset, FS_CardinalityType
  <2>6. Damaged \subseteq LastLine
    BY <1>1 DEF IndInv, FileInv
  <2> QED BY <2>3, <2>4, <2>5, <2>6 DEF OneLineDamaged
<1>2. IndInv => OneLineDamaged
  BY <1>1
<1> QED BY Inductive, <1>2, PTL

(* A runner that returns has accounted for each key of its matrix, and     *)
(* every one of them is in the ledger.                                     *)
THEOREM ReturnedAllRecordedCorrect == Spec => []ReturnedAllRecorded
<1>1. ASSUME IndInv PROVE ReturnedAllRecorded
  <2> SUFFICES ASSUME NEW r \in Runner, pc[r] = "returned"
               PROVE  /\ written[r] + skipped[r] = Len(Work[r])
                      /\ \A i \in 1 .. Len(Work[r]) :
                            Work[r][i] \in completed[r] \cap Recorded
    BY DEF ReturnedAllRecorded
  <2>1. /\ next[r] = Len(Work[r]) + 1 /\ Len(Work[r]) \in Nat
        /\ written[r] + skipped[r] = next[r] - 1
        /\ completed[r] \subseteq Recorded
        /\ \A i \in 1 .. next[r] - 1 : Work[r][i] \in completed[r]
    BY <1>1, WorkAssumption DEF IndInv, CountInv
  <2>2. next[r] - 1 = Len(Work[r])
    BY <2>1
  <2> QED BY <2>1, <2>2
<1>2. IndInv => ReturnedAllRecorded
  BY <1>1
<1> QED BY Inductive, <1>2, PTL
=============================================================================
