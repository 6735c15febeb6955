------------------------- MODULE StoreForwardProofs -------------------------
(***************************************************************************)
(* Proofs about StoreForward, for any sensors, channel, spool and number   *)
(* of failures.                                                            *)
(***************************************************************************)
EXTENDS StoreForward, SequenceTheorems, FiniteSetTheorems, TLAPS

\* Of one sensor, r was measured before s.
Older(r, s) == r[1] = s[1] => r[2] < s[2]

\* A file's readings are in the order of measurement.
Sorted(lines) == \A i, j \in Whole(lines) : i < j => Older(lines[i], lines[j])

Queued == UNION {Elems(chan[i]) : i \in DOMAIN chan}

Budget == [net : 0 .. MaxNetErrors, disk : 0 .. MaxDiskErrors, read : 0 .. MaxReadErrors,
           crash : 0 .. MaxCrashes, stop : 0 .. MaxStops]
Requests == [state : {"none", "running", "ok", "error"}, todo : Seq(Readings)]
Files == [lines : Seq(Lines), torn : BOOLEAN]

\* Types, and what deliver has where it is.
Types ==
    /\ TypeOK
    /\ spool \in Files /\ (spool.torn => spool.lines # <<>>)
    /\ req \in Requests /\ budget \in Budget /\ IsFiniteSet(orphans)
    /\ \A i \in DOMAIN chan : chan[i] # <<>>
    /\ dpc = "recv" => batch = <<>> /\ backlog = <<>>
    /\ dpc \in {"recv", "spool"} => req = NoRequest
    /\ dpc = "wait" => req.state # "none"
    /\ dpc = "clear" => req.state = "ok"

\* All there is comes from the sampler, which emits ever newer readings.
Emitted ==
    /\ InFlight \subseteq emitted /\ Spooled \subseteq emitted
    /\ Elems(backlog) \subseteq Spooled
    /\ Elems(req.todo) \subseteq Elems(backlog) \cup Elems(batch)
    /\ \A todo \in orphans : Elems(todo) \subseteq emitted
    /\ \A r \in Readings : stored[r] > 0 => r \in emitted
    /\ \A r \in emitted : r[2] <= obs /\ (latest[r[1]] # 0 => r[2] < latest[r[1]])

\* From the spool over batch and channel, readings are in the order of measurement.
Ordered ==
    /\ Sorted(spool.lines) /\ Sorted(batch) /\ Sorted(req.todo)
    /\ \A i \in DOMAIN chan : Sorted(chan[i])
    /\ \A todo \in orphans : Sorted(todo)
    /\ \A r \in Spooled, s \in InFlight : Older(r, s)
    /\ \A r \in Elems(batch), s \in Queued : Older(r, s)
    /\ \A i, j \in DOMAIN chan : i < j =>
        \A r \in Elems(chan[i]), s \in Elems(chan[j]) : Older(r, s)

\* What is in the spool has been posted before it is cleared, and what was posted is in
\* the database before the answer comes.
Delivered ==
    SpoolWasReadable =>
        /\ NothingDropped
        /\ dpc \in {"wait", "clear"} => Spooled \subseteq Elems(backlog)
        /\ dpc = "wait" /\ req.state = "running" =>
            Elems(backlog) \cup Elems(batch) \subseteq InDatabase \cup Elems(req.todo)
        /\ dpc \in {"wait", "clear"} /\ req.state = "ok" =>
            Elems(backlog) \cup Elems(batch) \subseteq InDatabase

\* Before s comes r, unless it is there.
Fits(r, s, there) == r[1] = s[1] /\ r[2] < s[2] => r \in there

\* Before a reading, or with it in the same request, those before it are stored.
NoGapIn(todo) ==
    \A r \in emitted \ lost, s \in Elems(todo) : Fits(r, s, InDatabase \cup Elems(todo))
Gapless ==
    SpoolWasReadable =>
        /\ \A r, s \in emitted \ lost : stored[s] > 0 => Fits(r, s, InDatabase)
        /\ req.state = "running" => NoGapIn(req.todo)
        /\ \A todo \in orphans : NoGapIn(todo)

\* Reading r will be posted, or what is posted has it.
Alive(r) ==
    \/ r \notin emitted \/ r \in Queued
    \/ dpc \in {"recv", "spool"} /\ r \in Spooled \cup Elems(batch)
    \/ dpc = "wait" /\ req.state = "error" /\ r \in Spooled \cup Elems(batch)
    \/ dpc = "wait" /\ req.state = "running" /\ r \in Elems(req.todo)
    \/ dpc \in {"wait", "clear"} /\ r \in Spooled \ Elems(backlog)
Held(r) == {todo \in orphans : r \in Elems(todo)}

\* Only a failure makes another copy.
CopiesCounted ==
    \A r \in Readings :
        stored[r] + Cardinality(Held(r)) + (IF Alive(r) THEN 1 ELSE 0) <= 1 + Failures

-----------------------------------------------------------------------------
(* Ranks, and the records of a file.                                       *)

\* The members of a finite set of numbers are counted in their order.
LEMMA Ranks ==
  ASSUME NEW S, IsFiniteSet(S), S \subseteq Nat
  PROVE  /\ Cardinality(S) \in Nat
         /\ \A i \in S : Rank(S, i) \in 1 .. Cardinality(S)
         /\ \A i, j \in S : i < j => Rank(S, i) < Rank(S, j)
         /\ \A n \in 1 .. Cardinality(S) : Nth(S, n) \in S /\ Rank(S, Nth(S, n)) = n
         /\ \A i \in S : Nth(S, Rank(S, i)) = i
<1> DEFINE Upto(i) == {j \in S : j <= i}
<1>1. Cardinality(S) \in Nat
  BY FS_CardinalityType
<1>2. \A i \in S : /\ IsFiniteSet(Upto(i)) /\ Cardinality(Upto(i)) \in Nat
                   /\ Cardinality(Upto(i)) <= Cardinality(S) /\ Cardinality(Upto(i)) # 0
  <2> SUFFICES ASSUME NEW i \in S
               PROVE  /\ IsFiniteSet(Upto(i)) /\ Cardinality(Upto(i)) \in Nat
                      /\ Cardinality(Upto(i)) <= Cardinality(S) /\ Cardinality(Upto(i)) # 0
    OBVIOUS
  <2>1. Upto(i) \in SUBSET S /\ i \in Upto(i)
    OBVIOUS
  <2> HIDE DEF Upto
  <2>2. IsFiniteSet(Upto(i)) /\ Cardinality(Upto(i)) <= Cardinality(S)
    BY <2>1, FS_Subset
  <2> QED
    BY <2>1, <2>2, FS_CardinalityType, FS_EmptySet
<1>3. \A i \in S : Rank(S, i) = Cardinality(Upto(i))
  BY DEF Rank
<1>4. \A i \in S : Rank(S, i) \in 1 .. Cardinality(S)
  <2> HIDE DEF Upto
  <2> QED
    BY <1>1, <1>2, <1>3
<1>5. ASSUME NEW i \in S, NEW j \in S, i < j PROVE Rank(S, i) < Rank(S, j)
  <2>1. Upto(i) \in SUBSET Upto(j) /\ j \in Upto(j) /\ j \notin Upto(i)
    <3>1. \A k \in S : k <= i => k <= j
      BY <1>5
    <3>2. j <= j /\ ~(j <= i)
      BY <1>5
    <3> QED
      BY <3>1, <3>2
  <2>2. IsFiniteSet(Upto(j)) /\ Cardinality(Upto(i)) \in Nat /\ Cardinality(Upto(j)) \in Nat
    BY <1>2
  <2> HIDE DEF Upto
  <2>3. /\ Cardinality(Upto(i)) <= Cardinality(Upto(j))
        /\ Cardinality(Upto(j)) = Cardinality(Upto(i)) => Upto(j) = Upto(i)
    BY <2>1, <2>2, FS_Subset
  <2> QED
    BY <1>3, <2>1, <2>2, <2>3
<1>6. \A i, j \in S : Rank(S, i) = Rank(S, j) => i = j
  <2> SUFFICES ASSUME NEW i \in S, NEW j \in S, Rank(S, i) = Rank(S, j), i # j PROVE FALSE
    OBVIOUS
  <2>1. i \in Nat /\ j \in Nat /\ Rank(S, i) \in Nat
    BY <1>4
  <2>2. i < j \/ j < i
    BY <2>1
  <2> QED
    BY <1>5, <2>1, <2>2
<1>7. \A n \in 1 .. Cardinality(S) : \E i \in S : Rank(S, i) = n
  <2> DEFINE T == 1 .. Cardinality(S)
             f == [i \in S |-> Rank(S, i)]
  <2>1. f \in [S -> T] /\ \A i, j \in S : f[i] = f[j] => i = j
    BY <1>4, <1>6
  <2>2. IsFiniteSet(T) /\ Cardinality(T) = Cardinality(S)
    BY <1>1, FS_Interval
  <2> HIDE DEF T, f
  <2>3. f \in Injection(S, T)
    BY <2>1 DEF Injection, IsInjective
  <2>4. f \in Surjection(S, T)
    BY <2>2, <2>3, FS_Injection
  <2>5. \A n \in T : \E i \in S : f[i] = n
    BY <2>4 DEF Surjection
  <2> QED
    BY <2>5 DEF T, f
<1>8. \A n \in 1 .. Cardinality(S) : Nth(S, n) \in S /\ Rank(S, Nth(S, n)) = n
  BY <1>7 DEF Nth
<1>9. \A i \in S : Nth(S, Rank(S, i)) = i
  BY <1>4, <1>6, <1>8
<1> QED
  BY <1>1, <1>4, <1>5, <1>8, <1>9

\* No reading is garbage.
LEMMA GarbageIsNone == Garbage \notin Readings
  BY DEF Garbage, Readings

\* What reading a file gives: its whole lines, in their order.
LEMMA RecordsAre ==
  ASSUME NEW lines \in Seq(Lines)
  PROVE  /\ Records(lines) \in Seq(Readings)
         /\ Len(Records(lines)) = Cardinality(Whole(lines))
         /\ Elems(Records(lines)) = Elems(lines) \ {Garbage}
         /\ Sorted(lines) => Sorted(Records(lines))
         /\ IsFiniteSet(Whole(lines)) /\ Cardinality(Whole(lines)) \in Nat
         /\ Whole(Records(lines)) = DOMAIN Records(lines)
<1> DEFINE S == Whole(lines)
           n == Cardinality(S)
           recs == Records(lines)
<1>1. DOMAIN lines = 1 .. Len(lines) /\ Len(lines) \in Nat
  BY LenProperties
<1>2. IsFiniteSet(S) /\ S \subseteq Nat
  <2>1. IsFiniteSet(1 .. Len(lines)) /\ S \in SUBSET (1 .. Len(lines))
    BY <1>1, FS_Interval DEF Whole
  <2> QED
    BY <2>1, FS_Subset
<1>3. /\ n \in Nat
      /\ \A i \in S : Rank(S, i) \in 1 .. n /\ Nth(S, Rank(S, i)) = i
      /\ \A i, j \in S : i < j => Rank(S, i) < Rank(S, j)
      /\ \A k \in 1 .. n : Nth(S, k) \in S /\ Rank(S, Nth(S, k)) = k
  BY <1>2, Ranks
<1>4. \A i \in S : i \in DOMAIN lines /\ lines[i] \in Readings /\ lines[i] # Garbage
  <2>1. \A i \in S : i \in 1 .. Len(lines) /\ lines[i] # Garbage
    BY <1>1 DEF Whole
  <2>2. \A i \in S : lines[i] \in Lines
    BY <2>1, ElementOfSeq
  <2> QED
    BY <1>1, <2>1, <2>2 DEF Lines
<1>5. recs = [k \in 1 .. n |-> lines[Nth(S, k)]]
  BY DEF Records
<1> HIDE DEF S, n, recs
<1>6. recs \in [1 .. n -> Readings]
  BY <1>3, <1>4, <1>5
<1>7. recs \in Seq(Readings) /\ Len(recs) = n /\ DOMAIN recs = 1 .. n
  BY <1>3, <1>6, SeqDef, LenProperties
<1>8. Elems(recs) = Elems(lines) \ {Garbage}
  <2>1. ASSUME NEW x \in Elems(recs) PROVE x \in Elems(lines) \ {Garbage}
    BY <1>3, <1>4, <1>5, <1>7, <2>1 DEF Elems
  <2>2. ASSUME NEW x \in Elems(lines) \ {Garbage} PROVE x \in Elems(recs)
    <3>1. PICK i \in DOMAIN lines : x = lines[i] /\ lines[i] # Garbage
      BY <2>2 DEF Elems
    <3>2. i \in S
      BY <3>1 DEF S, Whole
    <3>3. recs[Rank(S, i)] = x /\ Rank(S, i) \in DOMAIN recs
      BY <1>3, <1>5, <1>7, <3>1, <3>2
    <3> QED
      BY <3>3 DEF Elems
  <2> QED
    BY <2>1, <2>2
<1>9. Whole(recs) = DOMAIN recs
  BY <1>6, <1>7, GarbageIsNone DEF Whole
<1>10. ASSUME Sorted(lines) PROVE Sorted(recs)
  <2> SUFFICES ASSUME NEW k \in 1 .. n, NEW l \in 1 .. n, k < l
               PROVE  Older(recs[k], recs[l])
    BY <1>7, <1>9 DEF Sorted
  <2> DEFINE i == Nth(S, k)
             j == Nth(S, l)
  <2>1. /\ i \in S /\ j \in S /\ Rank(S, i) = k /\ Rank(S, j) = l
        /\ recs[k] = lines[i] /\ recs[l] = lines[j]
    BY <1>3, <1>5
  <2>2. i \in Nat /\ j \in Nat
    BY <1>2, <2>1
  <2> HIDE DEF i, j
  <2>3. i < j
    <3>1. i # j
      BY <2>1, <1>3
    <3>2. ~(j < i)
      BY <1>3, <2>1
    <3> QED
      BY <2>2, <3>1, <3>2
  <2> QED
    BY <1>10, <2>1, <2>3 DEF Sorted, S
<1> QED
  BY <1>2, <1>3, <1>7, <1>8, <1>9, <1>10 DEF S, n, recs

-----------------------------------------------------------------------------
(* What writing to the spool leaves.                                       *)

Good(file) == file \in Files /\ (file.torn => file.lines # <<>>) /\ Sorted(file.lines)

\* The whole lines of a file are readings.
LEMMA WholeLines ==
  ASSUME NEW lines \in Seq(Lines)
  PROVE  /\ \A i \in Whole(lines) : i \in 1 .. Len(lines) /\ i \in Nat /\ lines[i] \in Readings
         /\ \A i \in DOMAIN lines : lines[i] # Garbage => i \in Whole(lines)
         /\ Elems(lines) \ {Garbage} = {lines[i] : i \in Whole(lines)}
         /\ Elems(Records(lines)) = Elems(lines) \ {Garbage}
         /\ Len(lines) \in Nat /\ DOMAIN lines = 1 .. Len(lines)
<1>1. DOMAIN lines = 1 .. Len(lines) /\ Len(lines) \in Nat
  BY LenProperties
<1>2. \A i \in DOMAIN lines : lines[i] \in Lines
  BY <1>1, ElementOfSeq
<1>3. \A i \in Whole(lines) : i \in 1 .. Len(lines) /\ i \in Nat /\ lines[i] \in Readings
  BY <1>1, <1>2 DEF Whole, Lines
<1>4. Elems(lines) \ {Garbage} = {lines[i] : i \in Whole(lines)}
  BY DEF Elems, Whole
<1>5. Elems(Records(lines)) = Elems(lines) \ {Garbage}
  BY RecordsAre
<1> QED
  BY <1>1, <1>3, <1>4, <1>5 DEF Whole

\* What has whole lines of one file and, after them, of another one that is later.
LEMMA Joined ==
  ASSUME NEW lines \in Seq(Lines), NEW rs \in Seq(Lines), NEW w \in Seq(Lines), NEW d \in Nat,
         \A i \in Whole(w) :
            \/ i \in Whole(lines) /\ w[i] = lines[i]
            \/ /\ i > Len(lines) /\ i - Len(lines) + d \in Whole(rs)
               /\ w[i] = rs[i - Len(lines) + d],
         Sorted(lines), Sorted(rs),
         \A r \in Elems(lines) \ {Garbage}, s \in Elems(rs) \ {Garbage} : Older(r, s)
  PROVE  /\ Sorted(w)
         /\ Elems(w) \ {Garbage} \subseteq (Elems(lines) \cup Elems(rs)) \ {Garbage}
<1>1. /\ \A i \in Whole(lines) : i \in 1 .. Len(lines) /\ i \in Nat /\ lines[i] \in Elems(lines) \ {Garbage}
      /\ \A i \in Whole(rs) : rs[i] \in Elems(rs) \ {Garbage} /\ i \in Nat
      /\ \A i \in Whole(w) : i \in Nat
      /\ Len(lines) \in Nat
  BY WholeLines
<1>2. ASSUME NEW i \in Whole(w), NEW j \in Whole(w), i < j PROVE Older(w[i], w[j])
  <2>1. CASE i \in Whole(lines) /\ w[i] = lines[i] /\ j \in Whole(lines) /\ w[j] = lines[j]
    BY <1>2, <2>1 DEF Sorted
  <2>2. CASE /\ i \in Whole(lines) /\ w[i] = lines[i]
             /\ j - Len(lines) + d \in Whole(rs) /\ w[j] = rs[j - Len(lines) + d]
    BY <1>1, <2>2
  <2>3. CASE /\ i - Len(lines) + d \in Whole(rs) /\ w[i] = rs[i - Len(lines) + d]
             /\ j - Len(lines) + d \in Whole(rs) /\ w[j] = rs[j - Len(lines) + d]
    <3>1. i - Len(lines) + d < j - Len(lines) + d
      BY <1>1, <1>2
    <3> QED
      BY <2>3, <3>1 DEF Sorted
  <2>4. ~(i > Len(lines) /\ j \in Whole(lines))
    BY <1>1, <1>2
  <2> QED
    BY <2>1, <2>2, <2>3, <2>4
<1>3. \A i \in Whole(w) : w[i] \in (Elems(lines) \cup Elems(rs)) \ {Garbage}
  BY <1>1
<1>4. Elems(w) \ {Garbage} = {w[i] : i \in Whole(w)}
  BY WholeLines
<1> QED
  BY <1>2, <1>3, <1>4 DEF Sorted

\* Written keeps the order, and adds nothing but what is written.
LEMMA WrittenIs ==
  ASSUME NEW file, Good(file), NEW rs \in Seq(Lines), Sorted(rs),
         \A r \in Elems(file.lines) \ {Garbage}, s \in Elems(rs) \ {Garbage} : Older(r, s)
  PROVE  /\ Good(Written(file, rs))
         /\ Elems(Written(file, rs).lines) \ {Garbage}
                \subseteq (Elems(file.lines) \cup Elems(rs)) \ {Garbage}
         /\ rs # <<>> => Written(file, rs).lines # <<>>
<1> DEFINE lines == file.lines
           n == Len(lines)
<1>1. /\ lines \in Seq(Lines) /\ file.torn \in BOOLEAN /\ n \in Nat
      /\ DOMAIN lines = 1 .. n /\ Garbage \in Lines /\ Sorted(lines)
      /\ Len(rs) \in Nat /\ DOMAIN rs = 1 .. Len(rs)
      /\ file.torn => lines # <<>>
  BY LenProperties DEF Good, Files, Lines
<1>2. CASE file.torn /\ rs # <<>>
  <2> DEFINE cut == [lines EXCEPT ![n] = Garbage]
             w == cut \o Tail(rs)
  <2>1. n \in 1 .. n /\ n # 0
    BY <1>1, <1>2, EmptySeq
  <2>2. /\ cut \in Seq(Lines) /\ Len(cut) = n
        /\ \A i \in 1 .. n : cut[i] = IF i = n THEN Garbage ELSE lines[i]
    BY <1>1, <2>1, ExceptSeq
  <2>3. /\ Tail(rs) \in Seq(Lines) /\ Len(Tail(rs)) = Len(rs) - 1 /\ Len(rs) # 0
        /\ \A i \in 1 .. Len(Tail(rs)) : Tail(rs)[i] = rs[i + 1]
    BY <1>2, HeadTailProperties, EmptySeq
  <2> HIDE DEF cut, n
  <2>4. /\ w \in Seq(Lines) /\ Len(w) = n + Len(Tail(rs))
        /\ \A i \in 1 .. n + Len(Tail(rs)) : w[i] = IF i <= n THEN cut[i] ELSE Tail(rs)[i - n]
    BY <2>2, <2>3, ConcatProperties
  <2>5. Written(file, rs) = [lines |-> w, torn |-> FALSE]
    BY <1>2 DEF Written, cut, n
  <2> HIDE DEF w
  <2>6. ASSUME NEW i \in Whole(w)
        PROVE  \/ i \in Whole(lines) /\ w[i] = lines[i]
               \/ i > n /\ i - n + 1 \in Whole(rs) /\ w[i] = rs[i - n + 1]
    <3>1. i \in 1 .. n + Len(Tail(rs)) /\ w[i] # Garbage /\ i \in Nat
      BY <2>4, WholeLines DEF Whole
    <3>2. CASE i <= n
      BY <1>1, <2>2, <2>4, <3>1, <3>2 DEF Whole
    <3>3. CASE i > n
      <4>1. i - n \in 1 .. Len(Tail(rs)) /\ i - n + 1 \in 1 .. Len(rs)
        BY <1>1, <2>3, <3>1, <3>3
      <4>2. w[i] = rs[i - n + 1]
        BY <1>1, <2>3, <2>4, <3>1, <3>3, <4>1
      <4> QED
        BY <1>1, <3>1, <3>3, <4>1, <4>2 DEF Whole
    <3> QED
      BY <1>1, <3>1, <3>2, <3>3
  <2>7. /\ Sorted(w) /\ Elems(w) \ {Garbage} \subseteq (Elems(lines) \cup Elems(rs)) \ {Garbage}
    BY <1>1, <2>4, <2>6, Joined DEF n
  <2>8. w # <<>>
    <3>1. Len(w) # 0
      BY <1>1, <2>1, <2>3, <2>4
    <3> QED
      BY <3>1, EmptySeq
  <2> QED
    BY <2>4, <2>5, <2>7, <2>8 DEF Good, Files
<1>3. CASE ~(file.torn /\ rs # <<>>)
  <2> DEFINE w == lines \o rs
  <2> HIDE DEF n
  <2>1. /\ w \in Seq(Lines) /\ Len(w) = n + Len(rs)
        /\ \A i \in 1 .. n + Len(rs) : w[i] = IF i <= n THEN lines[i] ELSE rs[i - n]
    BY <1>1, ConcatProperties DEF n
  <2>2. Written(file, rs) = [lines |-> w, torn |-> file.torn]
    BY <1>3 DEF Written
  <2>3. file.torn \/ rs # <<>> => w # <<>>
    <3>1. lines # <<>> \/ rs # <<>> => Len(w) # 0
      BY <1>1, <2>1, EmptySeq DEF n
    <3> QED
      BY <1>1, <3>1, EmptySeq
  <2> HIDE DEF w
  <2>4. ASSUME NEW i \in Whole(w)
        PROVE  \/ i \in Whole(lines) /\ w[i] = lines[i]
               \/ i > n /\ i - n + 0 \in Whole(rs) /\ w[i] = rs[i - n + 0]
    <3>1. i \in 1 .. n + Len(rs) /\ w[i] # Garbage /\ i \in Nat
      BY <2>1, WholeLines DEF Whole
    <3>2. CASE i <= n
      BY <1>1, <2>1, <3>1, <3>2 DEF Whole
    <3>3. CASE i > n
      <4>1. i - n \in 1 .. Len(rs) /\ i - n + 0 = i - n
        BY <1>1, <3>1, <3>3
      <4>2. w[i] = rs[i - n]
        BY <1>1, <2>1, <3>1, <3>3
      <4> QED
        BY <1>1, <3>1, <3>3, <4>1, <4>2 DEF Whole
    <3> QED
      BY <1>1, <3>1, <3>2, <3>3
  <2>5. /\ Sorted(w) /\ Elems(w) \ {Garbage} \subseteq (Elems(lines) \cup Elems(rs)) \ {Garbage}
    BY <1>1, <2>1, <2>4, Joined DEF n
  <2> QED
    BY <1>1, <2>1, <2>2, <2>3, <2>5 DEF Good, Files
<1> QED
  BY <1>2, <1>3

\* A sequence of readings is a file without garbage.
LEMMA ReadingsAreLines ==
  ASSUME NEW rs \in Seq(Readings)
  PROVE  /\ rs \in Seq(Lines) /\ Whole(rs) = DOMAIN rs /\ DOMAIN rs = 1 .. Len(rs)
         /\ Len(rs) \in Nat /\ Elems(rs) \subseteq Readings /\ Elems(rs) \ {Garbage} = Elems(rs)
         /\ \A i \in DOMAIN rs : rs[i] \in Readings /\ rs[i] \in Elems(rs)
         /\ rs = <<>> <=> Elems(rs) = {}
<1>1. DOMAIN rs = 1 .. Len(rs) /\ Len(rs) \in Nat
  BY LenProperties
<1>2. \A i \in DOMAIN rs : rs[i] \in Readings
  BY <1>1, ElementOfSeq
<1>3. rs \in Seq(Lines)
  BY SeqMonotonic DEF Lines
<1>4. Elems(rs) \subseteq Readings /\ \A i \in DOMAIN rs : rs[i] \in Elems(rs)
  BY <1>2 DEF Elems
<1>5. Whole(rs) = DOMAIN rs /\ Elems(rs) \ {Garbage} = Elems(rs)
  BY <1>2, <1>4, GarbageIsNone DEF Whole
<1>6. rs = <<>> <=> Elems(rs) = {}
  <2>1. CASE rs = <<>>
    <3>1. Len(rs) = 0
      BY <2>1
    <3> QED
      BY <1>1, <2>1, <3>1 DEF Elems
  <2>2. CASE rs # <<>>
    <3>1. 1 \in DOMAIN rs
      BY <1>1, <2>2, EmptySeq
    <3> QED
      BY <1>4, <2>2, <3>1
  <2> QED
    BY <2>1, <2>2
<1> QED
  BY <1>1, <1>2, <1>3, <1>4, <1>5, <1>6

\* A stretch of a sequence of readings that are in order.
LEMMA Stretch ==
  ASSUME NEW rs \in Seq(Readings), Sorted(rs), NEW m \in 1 .. Len(rs) + 1, NEW n \in 0 .. Len(rs)
  PROVE  /\ SubSeq(rs, m, n) \in Seq(Readings) /\ Sorted(SubSeq(rs, m, n))
         /\ Elems(SubSeq(rs, m, n)) = {rs[i] : i \in m .. n}
         /\ Elems(SubSeq(rs, m, n)) \subseteq Elems(rs)
         /\ Len(SubSeq(rs, m, n)) = IF m <= n THEN n - m + 1 ELSE 0
<1> DEFINE w == SubSeq(rs, m, n)
<1>1. /\ Len(rs) \in Nat /\ DOMAIN rs = 1 .. Len(rs) /\ Whole(rs) = DOMAIN rs
      /\ \A i \in DOMAIN rs : rs[i] \in Readings /\ rs[i] \in Elems(rs)
  BY ReadingsAreLines
<1>2. m \in Nat /\ n \in Nat /\ m .. n \subseteq DOMAIN rs
  BY <1>1
<1>3. \A i \in m .. n : rs[i] \in Readings
  BY <1>1, <1>2
<1>4. /\ w \in Seq(Readings) /\ Len(w) = IF m <= n THEN n - m + 1 ELSE 0
      /\ \A i \in 1 .. n - m + 1 : w[i] = rs[m + i - 1]
  BY <1>2, <1>3, SubSeqProperties
<1> HIDE DEF w
<1>5. DOMAIN w = 1 .. n - m + 1 /\ Whole(w) = DOMAIN w
  BY <1>2, <1>4, ReadingsAreLines
<1>6. Sorted(w)
  <2> SUFFICES ASSUME NEW i \in 1 .. n - m + 1, NEW j \in 1 .. n - m + 1, i < j
               PROVE  Older(w[i], w[j])
    BY <1>5 DEF Sorted
  <2>1. m + i - 1 \in DOMAIN rs /\ m + j - 1 \in DOMAIN rs /\ m + i - 1 < m + j - 1
    BY <1>2
  <2> QED
    BY <1>1, <1>4, <2>1 DEF Sorted
<1>7. Elems(w) = {rs[i] : i \in m .. n}
  <2>1. ASSUME NEW x \in Elems(w) PROVE x \in {rs[i] : i \in m .. n}
    <3>1. PICK i \in 1 .. n - m + 1 : x = w[i]
      BY <1>5, <2>1 DEF Elems
    <3>2. m + i - 1 \in m .. n
      BY <1>2
    <3> QED
      BY <1>4, <3>1, <3>2
  <2>2. ASSUME NEW i \in m .. n PROVE rs[i] \in Elems(w)
    <3>1. i - m + 1 \in 1 .. n - m + 1 /\ m + (i - m + 1) - 1 = i
      BY <1>2
    <3> QED
      BY <1>4, <1>5, <3>1 DEF Elems
  <2> QED
    BY <2>1, <2>2
<1>8. Elems(w) \subseteq Elems(rs)
  BY <1>1, <1>2, <1>7
<1> QED
  BY <1>4, <1>6, <1>7, <1>8 DEF w

\* A line that was cut short is no reading.
LEMMA CutShort ==
  ASSUME NEW rs \in Seq(Readings), Sorted(rs)
  PROVE  /\ Append(rs, Garbage) \in Seq(Lines) /\ Sorted(Append(rs, Garbage))
         /\ Elems(Append(rs, Garbage)) \ {Garbage} = Elems(rs)
         /\ Append(rs, Garbage) # <<>>
<1> DEFINE w == Append(rs, Garbage)
<1>1. /\ rs \in Seq(Lines) /\ Garbage \in Lines /\ Len(rs) \in Nat /\ DOMAIN rs = 1 .. Len(rs)
      /\ Whole(rs) = DOMAIN rs /\ \A i \in DOMAIN rs : rs[i] \in Readings
      /\ Elems(rs) = {rs[i] : i \in DOMAIN rs}
  BY ReadingsAreLines DEF Lines, Elems
<1>2. /\ w \in Seq(Lines) /\ w # <<>> /\ Len(w) = Len(rs) + 1
      /\ \A i \in 1 .. Len(rs) : w[i] = rs[i]
      /\ w[Len(rs) + 1] = Garbage
  BY <1>1, AppendProperties
<1>3. DOMAIN w = DOMAIN rs \cup {Len(rs) + 1}
  BY <1>1, <1>2, LenProperties
<1> HIDE DEF w
<1>4. Whole(w) = DOMAIN rs
  BY <1>1, <1>2, <1>3, GarbageIsNone DEF Whole
<1>5. Sorted(w)
  BY <1>1, <1>2, <1>4 DEF Sorted
<1>6. Elems(w) \ {Garbage} = Elems(rs)
  <2>1. Elems(w) \ {Garbage} = {w[i] : i \in DOMAIN rs}
    BY <1>2, <1>4, WholeLines
  <2> QED
    BY <1>1, <1>2, <2>1
<1> QED
  BY <1>2, <1>5, <1>6 DEF w

\* What left is good, and has nothing but what the file had and what was to be written.
Leaves(file, rs, left) ==
    /\ Good(left)
    /\ Elems(left.lines) \ {Garbage} \subseteq (Elems(file.lines) \ {Garbage}) \cup Elems(rs)

\* So it is of a write that succeeds, the trim included.
LEMMA TrimmedLeaves ==
  ASSUME NEW file, Good(file), NEW rs \in Seq(Readings), Sorted(rs),
         \A r \in Elems(file.lines) \ {Garbage}, s \in Elems(rs) : Older(r, s)
  PROVE  Leaves(file, rs, Trimmed(Written(file, rs)))
<1> DEFINE w == Written(file, rs)
           all == Records(w.lines)
           n == Len(all)
<1>1. rs \in Seq(Lines) /\ Elems(rs) \ {Garbage} = Elems(rs)
  BY ReadingsAreLines
<1>2. Good(w) /\ Elems(w.lines) \ {Garbage} \subseteq (Elems(file.lines) \ {Garbage}) \cup Elems(rs)
  BY <1>1, WrittenIs
<1>3. CASE n <= SpoolMax
  BY <1>2, <1>3 DEF Trimmed, Leaves
<1>4. CASE ~(n <= SpoolMax)
  <2> DEFINE kept == SubSeq(all, n - SpoolMax + 1, n)
  <2>1. w.lines \in Seq(Lines) /\ Sorted(w.lines)
    BY <1>2 DEF Good, Files
  <2>2. /\ all \in Seq(Readings) /\ Sorted(all) /\ n \in Nat
        /\ Elems(all) = Elems(w.lines) \ {Garbage}
    BY <2>1, RecordsAre
  <2>3. Trimmed(w) = [lines |-> kept, torn |-> FALSE]
    BY <1>4 DEF Trimmed
  <2>4. n - SpoolMax + 1 \in 1 .. n + 1 /\ n \in 0 .. n
    BY <1>4, <2>2, ConstantsOK DEF ConstantsOK
  <2> HIDE DEF w, all
  <2>5. kept \in Seq(Readings) /\ Sorted(kept) /\ Elems(kept) \subseteq Elems(all)
    BY <2>2, <2>4, Stretch
  <2> HIDE DEF kept
  <2>6. kept \in Seq(Lines) /\ Elems(kept) \ {Garbage} = Elems(kept)
    BY <2>5, ReadingsAreLines
  <2>7. Good(Trimmed(w)) /\ Trimmed(w).lines = kept
    BY <2>3, <2>5, <2>6 DEF Good, Files
  <2> QED
    BY <1>2, <2>2, <2>5, <2>6, <2>7 DEF Leaves, w
<1> QED
  BY <1>3, <1>4

\* And of a write that breaks off.
LEMMA PartLeaves ==
  ASSUME NEW file, Good(file), NEW rs \in Seq(Readings), Sorted(rs),
         \A r \in Elems(file.lines) \ {Garbage}, s \in Elems(rs) : Older(r, s),
         NEW left \in PartlyWritten(file, rs)
  PROVE  Leaves(file, rs, left)
<1>1. ASSUME NEW part \in Seq(Lines), Sorted(part), Elems(part) \ {Garbage} \subseteq Elems(rs)
      PROVE  /\ Leaves(file, rs, Written(file, part))
             /\ part # <<>> => Leaves(file, rs, [Written(file, part) EXCEPT !.torn = TRUE])
  <2> DEFINE w == Written(file, part)
  <2>1. /\ Good(w) /\ (part # <<>> => w.lines # <<>>)
        /\ Elems(w.lines) \ {Garbage} \subseteq (Elems(file.lines) \ {Garbage}) \cup Elems(rs)
    BY <1>1, WrittenIs
  <2> HIDE DEF w
  <2>2. [w EXCEPT !.torn = TRUE].lines = w.lines /\ [w EXCEPT !.torn = TRUE] \in Files
    BY <2>1 DEF Good, Files
  <2>3. part # <<>> => Good([w EXCEPT !.torn = TRUE])
    BY <2>1, <2>2 DEF Good
  <2> QED
    BY <2>1, <2>2, <2>3 DEF Leaves, w
<1>2. Len(rs) \in Nat
  BY ReadingsAreLines
<1>3. ASSUME NEW k \in 0 .. Len(rs)
      PROVE  /\ SubSeq(rs, 1, k) \in Seq(Readings) /\ Sorted(SubSeq(rs, 1, k))
             /\ Elems(SubSeq(rs, 1, k)) \subseteq Elems(rs)
             /\ k >= 1 => SubSeq(rs, 1, k) # <<>>
  <2>1. 1 \in 1 .. Len(rs) + 1
    BY <1>2
  <2>2. /\ SubSeq(rs, 1, k) \in Seq(Readings) /\ Sorted(SubSeq(rs, 1, k))
        /\ Elems(SubSeq(rs, 1, k)) \subseteq Elems(rs)
        /\ Len(SubSeq(rs, 1, k)) = IF 1 <= k THEN k - 1 + 1 ELSE 0
    BY <2>1, Stretch
  <2>3. k >= 1 => Len(SubSeq(rs, 1, k)) # 0
    BY <1>2, <2>2
  <2> QED
    BY <2>2, <2>3, EmptySeq
<1>4. ASSUME NEW k \in 0 .. Len(rs)
      PROVE  /\ SubSeq(rs, 1, k) \in Seq(Lines)
             /\ Elems(SubSeq(rs, 1, k)) \ {Garbage} \subseteq Elems(rs)
             /\ Append(SubSeq(rs, 1, k), Garbage) \in Seq(Lines)
             /\ Sorted(Append(SubSeq(rs, 1, k), Garbage))
             /\ Append(SubSeq(rs, 1, k), Garbage) # <<>>
             /\ Elems(Append(SubSeq(rs, 1, k), Garbage)) \ {Garbage} \subseteq Elems(rs)
  BY <1>3, ReadingsAreLines, CutShort
<1>5. CASE \E k \in 0 .. Len(rs) : left = Written(file, SubSeq(rs, 1, k))
  BY <1>1, <1>3, <1>4, <1>5
<1>6. CASE \E k \in 1 .. Len(rs) : left = [Written(file, SubSeq(rs, 1, k)) EXCEPT !.torn = TRUE]
  <2>1. PICK k \in 1 .. Len(rs) : left = [Written(file, SubSeq(rs, 1, k)) EXCEPT !.torn = TRUE]
    BY <1>6
  <2>2. k \in 0 .. Len(rs) /\ k >= 1
    BY <1>2
  <2> QED
    BY <1>1, <1>3, <1>4, <2>1, <2>2
<1>7. CASE \E k \in 0 .. Len(rs) - 1 :
            left = [Written(file, Append(SubSeq(rs, 1, k), Garbage)) EXCEPT !.torn = TRUE]
  <2>1. PICK k \in 0 .. Len(rs) - 1 :
            left = [Written(file, Append(SubSeq(rs, 1, k), Garbage)) EXCEPT !.torn = TRUE]
    BY <1>7
  <2>2. k \in 0 .. Len(rs)
    BY <1>2
  <2> QED
    BY <1>1, <1>4, <2>1, <2>2
<1> QED
  BY <1>5, <1>6, <1>7 DEF PartlyWritten

\* A write to a file that is not torn makes its readings and the new ones its readings.
LEMMA Appended ==
  ASSUME NEW file, Good(file), ~file.torn, NEW rs \in Seq(Readings)
  PROVE  /\ Written(file, rs).lines = file.lines \o rs
         /\ Elems(Records(Written(file, rs).lines)) = Elems(Records(file.lines)) \cup Elems(rs)
<1> DEFINE lines == file.lines
           w == lines \o rs
<1>1. /\ lines \in Seq(Lines) /\ rs \in Seq(Lines) /\ Len(lines) \in Nat /\ Len(rs) \in Nat
      /\ DOMAIN lines = 1 .. Len(lines) /\ DOMAIN rs = 1 .. Len(rs)
      /\ \A i \in DOMAIN rs : rs[i] \in Readings
  BY LenProperties, ReadingsAreLines DEF Good, Files
<1>2. /\ w \in Seq(Lines) /\ Len(w) = Len(lines) + Len(rs)
      /\ \A i \in 1 .. Len(lines) + Len(rs) :
            w[i] = IF i <= Len(lines) THEN lines[i] ELSE rs[i - Len(lines)]
  BY <1>1, ConcatProperties
<1>3. Written(file, rs) = [lines |-> w, torn |-> FALSE]
  BY DEF Written, Good, Files
<1> HIDE DEF w, lines
<1>4. DOMAIN w = 1 .. Len(lines) + Len(rs)
  BY <1>1, <1>2, LenProperties
<1>5. Elems(w) = Elems(lines) \cup Elems(rs)
  <2>1. ASSUME NEW x \in Elems(w) PROVE x \in Elems(lines) \cup Elems(rs)
    <3>1. PICK i \in 1 .. Len(lines) + Len(rs) : x = w[i]
      BY <1>4, <2>1 DEF Elems
    <3>2. i <= Len(lines) => i \in DOMAIN lines
      BY <1>1
    <3>3. ~(i <= Len(lines)) => i - Len(lines) \in DOMAIN rs
      BY <1>1
    <3> QED
      BY <1>2, <3>1, <3>2, <3>3 DEF Elems
  <2>2. ASSUME NEW x \in Elems(lines) PROVE x \in Elems(w)
    <3>1. PICK i \in DOMAIN lines : x = lines[i]
      BY <2>2 DEF Elems
    <3>2. i \in 1 .. Len(lines) + Len(rs) /\ i <= Len(lines)
      BY <1>1
    <3> QED
      BY <1>2, <1>4, <3>1, <3>2 DEF Elems
  <2>3. ASSUME NEW x \in Elems(rs) PROVE x \in Elems(w)
    <3>1. PICK i \in DOMAIN rs : x = rs[i]
      BY <2>3 DEF Elems
    <3>2. /\ Len(lines) + i \in 1 .. Len(lines) + Len(rs) /\ ~(Len(lines) + i <= Len(lines))
          /\ Len(lines) + i - Len(lines) = i
      BY <1>1
    <3> QED
      BY <1>2, <1>4, <3>1, <3>2 DEF Elems
  <2> QED
    BY <2>1, <2>2, <2>3
<1>6. Elems(Records(w)) = Elems(Records(lines)) \cup Elems(rs)
  BY <1>1, <1>2, <1>5, WholeLines, ReadingsAreLines
<1> QED
  BY <1>3, <1>6 DEF lines, w

\* With room for all, a write to a file that is not torn loses nothing.
LEMMA AllWritten ==
  ASSUME NEW file, Good(file), ~file.torn, NEW rs \in Seq(Readings),
         Len(Records(file.lines)) + Len(rs) <= SpoolMax
  PROVE  Elems(Records(Trimmed(Written(file, rs)).lines)) = Elems(Records(file.lines)) \cup Elems(rs)
<1> DEFINE lines == file.lines
           w == lines \o rs
           A == Whole(lines)
           B == {Len(lines) + i : i \in DOMAIN rs}
<1>1. /\ lines \in Seq(Lines) /\ rs \in Seq(Lines) /\ Len(lines) \in Nat /\ Len(rs) \in Nat
      /\ DOMAIN lines = 1 .. Len(lines) /\ DOMAIN rs = 1 .. Len(rs)
      /\ \A i \in DOMAIN rs : rs[i] \in Readings
  BY LenProperties, ReadingsAreLines DEF Good, Files
<1>2. /\ w \in Seq(Lines) /\ Len(w) = Len(lines) + Len(rs)
      /\ \A i \in 1 .. Len(lines) + Len(rs) :
            w[i] = IF i <= Len(lines) THEN lines[i] ELSE rs[i - Len(lines)]
  BY <1>1, ConcatProperties
<1>3. Written(file, rs).lines = w /\ Elems(Records(w)) = Elems(Records(lines)) \cup Elems(rs)
  BY Appended
<1> HIDE DEF w, lines
<1>4. DOMAIN w = 1 .. Len(lines) + Len(rs)
  BY <1>1, <1>2, LenProperties
<1>5. Len(Records(w)) <= Len(Records(lines)) + Len(rs)
  <2>1. IsFiniteSet(A) /\ Cardinality(A) = Len(Records(lines)) /\ Cardinality(A) \in Nat
    BY <1>1, RecordsAre
  <2>2. IsFiniteSet(B) /\ Cardinality(B) = Len(rs)
    <3> DEFINE lo == Len(lines) + 1
               hi == Len(lines) + Len(rs)
    <3>1. B = lo .. hi
      <4>1. ASSUME NEW i \in DOMAIN rs PROVE Len(lines) + i \in lo .. hi
        BY <1>1
      <4>2. ASSUME NEW j \in lo .. hi PROVE j - Len(lines) \in DOMAIN rs /\ j = Len(lines) + (j - Len(lines))
        BY <1>1
      <4> QED
        BY <4>1, <4>2
    <3>2. /\ lo \in Int /\ hi \in Int
          /\ (IF lo > hi THEN 0 ELSE hi - lo + 1) = Len(rs)
      BY <1>1
    <3> HIDE DEF lo, hi, B
    <3> QED
      BY <3>1, <3>2, FS_Interval
  <2>3. Whole(w) \in SUBSET (A \cup B)
    <3> SUFFICES ASSUME NEW i \in Whole(w), i \notin A PROVE i \in B
      OBVIOUS
    <3>1. i \in 1 .. Len(lines) + Len(rs) /\ w[i] # Garbage
      BY <1>4 DEF Whole
    <3>2. ~(i <= Len(lines))
      BY <1>1, <1>2, <3>1 DEF Whole
    <3>3. i - Len(lines) \in DOMAIN rs /\ i = Len(lines) + (i - Len(lines))
      BY <1>1, <3>1, <3>2
    <3> QED
      BY <3>3
  <2> HIDE DEF A, B
  <2>4. /\ IsFiniteSet(A \cup B) /\ IsFiniteSet(A \cap B)
        /\ Cardinality(A \cup B) = Cardinality(A) + Cardinality(B) - Cardinality(A \cap B)
    BY <2>1, <2>2, FS_Union, FS_Intersection
  <2>5. Cardinality(A \cap B) \in Nat
    BY <2>4, FS_CardinalityType
  <2>6. Cardinality(Whole(w)) <= Cardinality(A \cup B)
    BY <2>3, <2>4, FS_Subset
  <2>7. Len(Records(w)) = Cardinality(Whole(w)) /\ Cardinality(Whole(w)) \in Nat
    BY <1>2, RecordsAre
  <2> QED
    BY <1>1, <2>1, <2>2, <2>4, <2>5, <2>6, <2>7
<1>6. Len(Records(w)) <= SpoolMax
  <2>1. Len(Records(w)) \in Nat /\ Len(Records(lines)) \in Nat
    BY <1>1, <1>2, RecordsAre
  <2> QED
    BY <1>1, <1>5, <2>1, ConstantsOK DEF ConstantsOK, lines
<1>7. Trimmed(Written(file, rs)) = Written(file, rs) /\ Written(file, rs).lines = w
  BY <1>3, <1>6 DEF Trimmed
<1> QED
  BY <1>3, <1>7 DEF lines

-----------------------------------------------------------------------------
(* What the steps do, in terms of sets of readings.                        *)

What == {"net", "disk", "read", "crash", "stop"}

\* A failure is one fewer that may follow.
LEMMA Spent ==
  ASSUME budget \in Budget, NEW what \in What, Spend(what)
  PROVE  /\ budget' \in Budget /\ budget'[what] = budget[what] - 1
         /\ \A x \in What : x # what => budget'[x] = budget[x]
<1>1. budget[what] > 0 /\ budget' = [budget EXCEPT ![what] = budget[what] - 1]
  BY DEF Spend
<1>2. CASE what = "net"
  BY <1>1, <1>2, ConstantsOK DEF Budget, What, ConstantsOK
<1>3. CASE what = "disk"
  BY <1>1, <1>3, ConstantsOK DEF Budget, What, ConstantsOK
<1>4. CASE what = "read"
  BY <1>1, <1>4, ConstantsOK DEF Budget, What, ConstantsOK
<1>5. CASE what = "crash"
  BY <1>1, <1>5, ConstantsOK DEF Budget, What, ConstantsOK
<1>6. CASE what = "stop"
  BY <1>1, <1>6, ConstantsOK DEF Budget, What, ConstantsOK
<1> QED
  BY <1>2, <1>3, <1>4, <1>5, <1>6 DEF What

\* Parts of the state by themselves.
LEMMA Parts ==
  ASSUME Types
  PROVE  /\ chan \in Seq(Seq(Readings)) /\ Len(chan) \in Nat /\ DOMAIN chan = 1 .. Len(chan)
         /\ \A i \in DOMAIN chan : chan[i] \in Seq(Readings) /\ chan[i] # <<>>
         /\ batch \in Seq(Readings) /\ backlog \in Seq(Readings)
         /\ req.todo \in Seq(Readings) /\ req.state \in {"none", "running", "ok", "error"}
         /\ orphans \subseteq Seq(Readings) /\ IsFiniteSet(orphans)
         /\ stored \in [Readings -> Nat] /\ budget \in Budget
         /\ spool.lines \in Seq(Lines) /\ Spooled \subseteq Readings
         /\ Spooled = Elems(spool.lines) \ {Garbage}
         /\ Queued \subseteq Readings /\ InFlight = Elems(batch) \cup Queued
         /\ obs \in Nat /\ latest \in [Macs -> Nat] /\ obs <= MaxObs
         /\ \A m \in Macs : latest[m] <= obs
         /\ emitted \subseteq Readings /\ lost \subseteq emitted
<1>1. chan \in Seq(Seq(Readings)) /\ Len(chan) \in Nat /\ DOMAIN chan = 1 .. Len(chan)
  BY LenProperties DEF Types, TypeOK
<1>2. \A i \in DOMAIN chan : chan[i] \in Seq(Readings) /\ chan[i] # <<>>
  BY <1>1, ElementOfSeq DEF Types
<1>3. /\ batch \in Seq(Readings) /\ backlog \in Seq(Readings)
      /\ req.todo \in Seq(Readings) /\ req.state \in {"none", "running", "ok", "error"}
      /\ orphans \subseteq Seq(Readings) /\ IsFiniteSet(orphans)
      /\ stored \in [Readings -> Nat] /\ budget \in Budget /\ spool.lines \in Seq(Lines)
      /\ emitted \subseteq Readings /\ lost \subseteq emitted
  BY DEF Types, TypeOK
<1>4. Spooled = Elems(spool.lines) \ {Garbage} /\ Spooled \subseteq Readings
  BY <1>3, RecordsAre, ReadingsAreLines DEF Spooled
<1>5. Queued \subseteq Readings
  BY <1>2, ReadingsAreLines DEF Queued
<1>6. InFlight = Elems(batch) \cup Queued
  BY DEF InFlight, Queued
<1>7. obs \in Nat /\ latest \in [Macs -> Nat] /\ obs <= MaxObs /\ \A m \in Macs : latest[m] <= obs
  <2>1. obs \in 0 .. MaxObs /\ latest \in [Macs -> 0 .. obs]
    BY DEF Types, TypeOK
  <2> QED
    BY <2>1, ConstantsOK DEF ConstantsOK
<1> QED
  BY <1>1, <1>2, <1>3, <1>4, <1>5, <1>6, <1>7

\* The first of a request's readings is none of the others and older than those of its sensor.
LEMMA TailIs ==
  ASSUME NEW todo \in Seq(Readings), todo # <<>>
  PROVE  /\ Head(todo) \in Readings /\ Tail(todo) \in Seq(Readings)
         /\ Elems(todo) = {Head(todo)} \cup Elems(Tail(todo))
         /\ Sorted(todo) => /\ Sorted(Tail(todo)) /\ Head(todo) \notin Elems(Tail(todo))
                            /\ \A s \in Elems(Tail(todo)) : Older(Head(todo), s)
<1> DEFINE w == Tail(todo)
<1>1. /\ Len(todo) \in Nat /\ DOMAIN todo = 1 .. Len(todo) /\ Len(todo) # 0
      /\ Whole(todo) = DOMAIN todo /\ \A i \in DOMAIN todo : todo[i] \in Readings
  BY ReadingsAreLines, EmptySeq
<1>2. /\ Head(todo) \in Readings /\ Head(todo) = todo[1]
      /\ w \in Seq(Readings) /\ Len(w) = Len(todo) - 1
      /\ \A i \in 1 .. Len(w) : w[i] = todo[i + 1]
  BY HeadTailProperties
<1> HIDE DEF w
<1>3. DOMAIN w = 1 .. Len(todo) - 1 /\ Whole(w) = DOMAIN w
  BY <1>2, ReadingsAreLines
<1>4. \A i \in DOMAIN w : i + 1 \in DOMAIN todo /\ w[i] = todo[i + 1]
  BY <1>1, <1>2, <1>3
<1>5. \A i \in DOMAIN todo : i # 1 => i - 1 \in DOMAIN w /\ w[i - 1] = todo[i]
  BY <1>1, <1>2, <1>3
<1>6. 1 \in DOMAIN todo
  BY <1>1
<1>7. Elems(todo) = {Head(todo)} \cup Elems(w)
  <2>1. \A i \in DOMAIN todo : todo[i] \in {Head(todo)} \cup Elems(w)
    BY <1>2, <1>5 DEF Elems
  <2>2. \A i \in DOMAIN w : w[i] \in Elems(todo)
    BY <1>4 DEF Elems
  <2>3. Head(todo) \in Elems(todo)
    BY <1>2, <1>6 DEF Elems
  <2> QED
    BY <2>1, <2>2, <2>3 DEF Elems
<1>8. ASSUME Sorted(todo)
      PROVE  /\ Sorted(w) /\ Head(todo) \notin Elems(w)
             /\ \A s \in Elems(w) : Older(Head(todo), s)
  <2>1. \A i, j \in DOMAIN w : i < j => Older(w[i], w[j])
    <3> SUFFICES ASSUME NEW i \in DOMAIN w, NEW j \in DOMAIN w, i < j PROVE Older(w[i], w[j])
      OBVIOUS
    <3>1. i + 1 \in DOMAIN todo /\ j + 1 \in DOMAIN todo /\ i + 1 < j + 1
      BY <1>1, <1>3, <1>4
    <3> QED
      BY <1>1, <1>4, <1>8, <3>1 DEF Sorted
  <2>2. \A i \in DOMAIN w : Older(Head(todo), w[i])
    <3> SUFFICES ASSUME NEW i \in DOMAIN w PROVE Older(Head(todo), w[i])
      OBVIOUS
    <3>1. i + 1 \in DOMAIN todo /\ 1 < i + 1
      BY <1>1, <1>3, <1>4
    <3> QED
      BY <1>1, <1>2, <1>4, <1>6, <1>8, <3>1 DEF Sorted
  <2>3. \A i \in DOMAIN w : w[i] # Head(todo)
    <3> SUFFICES ASSUME NEW i \in DOMAIN w, w[i] = Head(todo) PROVE FALSE
      OBVIOUS
    <3>1. Head(todo)[2] < Head(todo)[2]
      BY <2>2 DEF Older
    <3>2. Head(todo)[2] \in Nat
      BY <1>2 DEF Readings
    <3> QED
      BY <3>1, <3>2
  <2> QED
    BY <1>3, <2>1, <2>2, <2>3 DEF Sorted, Elems
<1> QED
  BY <1>2, <1>7, <1>8 DEF w

\* A row more, of a sensor that is bound to a unit.
LEMMA Inserted ==
  ASSUME stored \in [Readings -> Nat], NEW r \in Readings, Insert(r)
  PROVE  /\ stored' \in [Readings -> Nat] /\ InDatabase' = InDatabase \cup {r}
         /\ \A s \in Readings : s # r => stored'[s] = stored[s]
         /\ stored'[r] <= stored[r] + 1
         /\ \A s \in Readings : stored'[s] > 0 => stored[s] > 0 \/ s = r
<1>1. /\ stored' \in [Readings -> Nat]
      /\ \A s \in Readings : s # r => stored'[s] = stored[s]
      /\ stored'[r] = IF r[1] \in BoundMacs THEN stored[r] + 1 ELSE stored[r]
      /\ stored[r] \in Nat
  BY DEF Insert
<1>2. InDatabase' = InDatabase \cup {r}
  <2>1. \A s \in Readings : s \in InDatabase' <=> s \in InDatabase \/ s = r
    BY <1>1 DEF InDatabase
  <2> QED
    BY <2>1 DEF InDatabase
<1> QED
  BY <1>1, <1>2

\* flush, with something to flush: the readings are newer than any emitted before, and
\* the batch is queued or lost.
LEMMA EmitDoes ==
  ASSUME Types, Emitted, Pending # {}, Emit
  PROVE  /\ Pending \subseteq Readings /\ emitted' = emitted \cup Pending
         /\ \A r \in emitted, s \in Pending : Older(r, s) /\ r # s
         /\ \A r \in Pending : r[2] <= obs
         /\ latest' = [m \in Macs |-> 0]
         /\ \/ /\ ~(Len(chan) < ChanCap) /\ chan' = chan /\ lost' = lost \cup Pending
            \/ /\ Len(chan) < ChanCap /\ lost' = lost
               /\ \E b \in Seq(Readings) : /\ b # <<>> /\ Sorted(b) /\ Elems(b) = Pending
                                           /\ chan' = Append(chan, b)
<1>1. /\ latest \in [Macs -> Nat] /\ obs \in Nat /\ obs <= MaxObs /\ MaxObs \in Nat
      /\ \A m \in Macs : latest[m] <= obs
  BY Parts, ConstantsOK DEF ConstantsOK
<1>2. ASSUME NEW r \in Pending
      PROVE  /\ r \in Readings /\ r[1] \in Macs /\ r[2] = latest[r[1]] /\ r[2] # 0 /\ r[2] \in Nat
             /\ r[2] <= obs /\ r = <<r[1], latest[r[1]]>>
  <2>1. PICK m \in Macs : r = <<m, latest[m]>> /\ latest[m] # 0
    BY DEF Pending
  <2>2. latest[m] \in 1 .. MaxObs
    BY <1>1, <2>1
  <2> QED
    BY <1>1, <2>1, <2>2 DEF Readings
<1>3. ASSUME NEW r \in emitted, NEW s \in Pending PROVE Older(r, s) /\ r # s
  <2>1. latest[r[1]] # 0 => r[2] < latest[r[1]]
    BY DEF Emitted
  <2>2. r[1] = s[1] => r[2] < s[2]
    BY <1>2, <2>1
  <2>3. r # s
    <3> SUFFICES ASSUME r = s PROVE FALSE
      OBVIOUS
    <3>1. s[2] < s[2] /\ s[2] \in Nat
      BY <1>2, <2>2
    <3> QED
      BY <3>1
  <2> QED
    BY <2>2, <2>3 DEF Older
<1>4. IsFiniteSet(Pending)
  <2> DEFINE M == {m \in Macs : latest[m] # 0}
             f == [m \in M |-> <<m, latest[m]>>]
  <2>1. IsFiniteSet(M)
    <3>1. M \in SUBSET Macs /\ IsFiniteSet(Macs)
      BY ConstantsOK DEF ConstantsOK
    <3> HIDE DEF M
    <3> QED
      BY <3>1, FS_Subset
  <2>2. Pending = {<<m, latest[m]>> : m \in M}
    BY DEF Pending
  <2> HIDE DEF M
  <2>3. f \in [M -> Pending] /\ \A r \in Pending : \E m \in M : f[m] = r
    BY <2>2
  <2> HIDE DEF f
  <2>4. f \in Surjection(M, Pending)
    BY <2>3 DEF Surjection
  <2> QED
    BY <2>1, <2>4, FS_Surjection
<1>5. PICK b \in Orders(Pending) : Queue(b)
  BY DEF Emit
<1>6. b \in Seq(Readings) /\ b # <<>> /\ Elems(b) = Pending /\ Sorted(b)
  <2> DEFINE n == Cardinality(Pending)
  <2>1. n \in Nat /\ b \in [1 .. n -> Pending] /\ Elems(b) = Pending
    BY <1>4, <1>5, FS_CardinalityType DEF Orders
  <2>2. b \in Seq(Readings)
    BY <1>2, <2>1, SeqDef
  <2>3. b # <<>> /\ Whole(b) = DOMAIN b /\ DOMAIN b = 1 .. n
    BY <2>1, <2>2, ReadingsAreLines
  <2>4. \A i, j \in 1 .. n : b[i] = b[j] => i = j
    <3>1. IsFiniteSet(1 .. n) /\ Cardinality(1 .. n) = n
      BY <2>1, FS_Interval
    <3>2. b \in Surjection(1 .. n, Pending)
      BY <2>1, <2>3 DEF Surjection, Elems
    <3>3. b \in Injection(1 .. n, Pending)
      BY <1>4, <3>1, <3>2, FS_SurjSameCardinalityImpliesInj
    <3> HIDE DEF n
    <3> QED
      BY <3>3 DEF Injection, IsInjective
  <2>5. ASSUME NEW i \in 1 .. n, NEW j \in 1 .. n, i < j PROVE Older(b[i], b[j])
    <3>1. b[i] # b[j]
      <4>1. i # j
        BY <2>5
      <4> QED
        BY <2>4, <4>1
    <3>2. b[i][1] # b[j][1]
      BY <1>2, <2>1, <3>1
    <3> QED
      BY <3>2 DEF Older
  <2> QED
    BY <2>1, <2>2, <2>3, <2>5 DEF Sorted
<1>7. \/ ~(Len(chan) < ChanCap) /\ chan' = chan /\ lost' = lost \cup Pending
      \/ Len(chan) < ChanCap /\ lost' = lost /\ chan' = Append(chan, b)
  BY <1>5, <1>6 DEF Queue
<1>8. emitted' = emitted \cup Pending /\ latest' = [m \in Macs |-> 0]
  BY DEF Emit
<1> QED
  BY <1>2, <1>3, <1>6, <1>7, <1>8

\* A batch more in the channel, or none more.
LEMMA ChanGrows ==
  ASSUME Types, Emitted, Ordered, Pending # {}, Emit
  PROVE  /\ chan' \in Seq(Seq(Readings)) /\ Len(chan') <= ChanCap
         /\ \A i \in DOMAIN chan' : chan'[i] # <<>> /\ Sorted(chan'[i])
         /\ \A i, j \in DOMAIN chan' : i < j =>
              \A r \in Elems(chan'[i]), s \in Elems(chan'[j]) : Older(r, s)
         /\ Queued \subseteq Queued' /\ Queued' \subseteq Queued \cup Pending
         /\ lost \subseteq lost' /\ lost' \subseteq lost \cup Pending
         /\ Pending \subseteq Queued' \cup lost'
<1>1. /\ chan \in Seq(Seq(Readings)) /\ Len(chan) \in Nat /\ DOMAIN chan = 1 .. Len(chan)
      /\ \A i \in DOMAIN chan : chan[i] # <<>> /\ Sorted(chan[i])
      /\ \A i, j \in DOMAIN chan : i < j =>
            \A r \in Elems(chan[i]), s \in Elems(chan[j]) : Older(r, s)
      /\ Len(chan) <= ChanCap /\ ChanCap \in Nat
  BY Parts, ConstantsOK DEF Ordered, Types, TypeOK, ConstantsOK
<1>2. CASE chan' = chan /\ lost' = lost \cup Pending
  BY <1>1, <1>2 DEF Queued
<1>3. ASSUME Len(chan) < ChanCap, lost' = lost, NEW b \in Seq(Readings), b # <<>>, Sorted(b),
             Elems(b) = Pending, chan' = Append(chan, b)
      PROVE  /\ chan' \in Seq(Seq(Readings)) /\ Len(chan') <= ChanCap
             /\ \A i \in DOMAIN chan' : chan'[i] # <<>> /\ Sorted(chan'[i])
             /\ \A i, j \in DOMAIN chan' : i < j =>
                  \A r \in Elems(chan'[i]), s \in Elems(chan'[j]) : Older(r, s)
             /\ Queued' = Queued \cup Pending
  <2> DEFINE n == Len(chan)
             w == Append(chan, b)
  <2>1. /\ w \in Seq(Seq(Readings)) /\ Len(w) = n + 1 /\ n \in Nat
        /\ \A i \in 1 .. n : w[i] = chan[i]
        /\ w[n + 1] = b
    BY <1>1, AppendProperties
  <2>2. DOMAIN w = 1 .. n + 1
    BY <2>1, LenProperties
  <2> HIDE DEF w
  <2>3. \A i \in DOMAIN w : (i = n + 1 /\ w[i] = b) \/ (i \in DOMAIN chan /\ w[i] = chan[i])
    BY <1>1, <2>1, <2>2
  <2>4. \A i \in DOMAIN chan : i \in DOMAIN w /\ w[i] = chan[i]
    BY <1>1, <2>1, <2>2
  <2>5. \A i \in DOMAIN w : w[i] # <<>> /\ Sorted(w[i])
    BY <1>1, <1>3, <2>3
  <2>6. \A i \in DOMAIN chan : Elems(chan[i]) \subseteq emitted
    BY Parts DEF Emitted, Queued
  <2>7. ASSUME NEW i \in DOMAIN w, NEW j \in DOMAIN w, i < j,
               NEW r \in Elems(w[i]), NEW s \in Elems(w[j])
        PROVE  Older(r, s)
    <3>1. i \in DOMAIN chan /\ w[i] = chan[i]
      BY <2>2, <2>3, <2>7
    <3>2. CASE j \in DOMAIN chan /\ w[j] = chan[j]
      BY <1>1, <2>7, <3>1, <3>2
    <3>3. CASE w[j] = b
      <4>1. r \in emitted /\ s \in Pending
        BY <1>3, <2>6, <2>7, <3>1, <3>3
      <4> QED
        BY <4>1, EmitDoes
    <3> QED
      BY <2>3, <3>2, <3>3
  <2>8. UNION {Elems(w[i]) : i \in DOMAIN w} = Queued \cup Pending
    <3>1. n + 1 \in DOMAIN w /\ Elems(w[n + 1]) = Pending
      BY <1>3, <2>1, <2>2
    <3>2. \A i \in DOMAIN w : Elems(w[i]) \subseteq Queued \cup Pending
      BY <1>3, <2>3 DEF Queued
    <3>3. \A i \in DOMAIN chan : Elems(chan[i]) \subseteq UNION {Elems(w[j]) : j \in DOMAIN w}
      BY <2>4
    <3>4. Queued \subseteq UNION {Elems(w[j]) : j \in DOMAIN w}
      BY <3>3 DEF Queued
    <3> QED
      BY <3>1, <3>2, <3>4
  <2>9. chan' = w
    BY <1>3 DEF w
  <2>10. Len(w) <= ChanCap
    BY <1>1, <1>3, <2>1
  <2> QED
    BY <2>1, <2>5, <2>7, <2>8, <2>9, <2>10 DEF Queued
<1> QED
  BY <1>2, <1>3, EmitDoes

\* What deliver has read of the spool: all of it, or the beginning.
Read(recs) ==
    /\ recs \in Seq(Readings) /\ Sorted(recs) /\ Elems(recs) \subseteq Spooled
    /\ SpoolWasReadable' => budget' = budget /\ Elems(recs) = Spooled

\* Receiving a batch is Deliver with what was read of the spool.
LEMMA Receives ==
  ASSUME Types, Ordered, Receive \/ ReceiveWithReadError
  PROVE  /\ \E recs : Read(recs) /\ Deliver(recs)
         /\ gw # "down" /\ budget' \in Budget /\ Failures' = Failures
<1> DEFINE all == Records(spool.lines)
<1>1. /\ all \in Seq(Readings) /\ Sorted(all) /\ Elems(all) = Spooled /\ Len(all) \in Nat
      /\ budget \in Budget
  BY Parts, RecordsAre, ReadingsAreLines DEF Ordered, Spooled
<1> HIDE DEF all
<1>2. CASE Receive
  BY <1>1, <1>2 DEF Receive, Read, Failures, all
<1>3. CASE ReceiveWithReadError
  <2>1. PICK k \in 0 .. Len(all) - 1 : Deliver(SubSeq(all, 1, k))
    BY <1>3 DEF ReceiveWithReadError, all
  <2>2. Spend("read") /\ "read" \in What
    BY <1>3 DEF ReceiveWithReadError, What
  <2>3. /\ budget' \in Budget /\ budget'["read"] = budget["read"] - 1
        /\ \A x \in What : x # "read" => budget'[x] = budget[x]
    BY <1>1, <2>2, Spent
  <2>4. Failures' = Failures
    BY <2>3 DEF Failures, What
  <2>5. ~(SpoolWasReadable')
    <3>1. budget["read"] \in 0 .. MaxReadErrors /\ MaxReadErrors \in Nat
      BY <1>1, ConstantsOK DEF Budget, ConstantsOK
    <3>2. budget'["read"] = budget["read"] - 1 => budget'["read"] # MaxReadErrors
      BY <3>1
    <3> QED
      BY <2>3, <3>2 DEF SpoolWasReadable
  <2>6. 1 \in 1 .. Len(all) + 1 /\ k \in 0 .. Len(all)
    BY <1>1
  <2>7. Read(SubSeq(all, 1, k))
    BY <1>1, <2>5, <2>6, Stretch DEF Read
  <2> QED
    BY <1>3, <2>1, <2>3, <2>4, <2>7 DEF ReceiveWithReadError
<1> QED
  BY <1>2, <1>3

\* Deliver takes the oldest batch out of the channel and posts it after the backlog.
LEMMA DeliverDoes ==
  ASSUME Types, Ordered, NEW recs, Read(recs), Deliver(recs)
  PROVE  /\ batch' \in Seq(Readings) /\ batch' # <<>> /\ Sorted(batch')
         /\ chan' \in Seq(Seq(Readings)) /\ Len(chan') <= ChanCap
         /\ \A i \in DOMAIN chan' : chan'[i] # <<>> /\ Sorted(chan'[i])
         /\ \A i, j \in DOMAIN chan' : i < j =>
              \A r \in Elems(chan'[i]), s \in Elems(chan'[j]) : Older(r, s)
         /\ \A r \in Elems(batch'), s \in Queued' : Older(r, s)
         /\ InFlight' = InFlight /\ batch = <<>> /\ Queued' \subseteq Queued
         /\ Elems(batch') \subseteq Queued
         /\ req'.state = "running" /\ req' \in Requests /\ Sorted(req'.todo)
         /\ Elems(req'.todo) = Elems(recs) \cup Elems(batch')
<1> DEFINE n == Len(chan)
           w == Tail(chan)
           b == Head(chan)
<1>1. /\ chan \in Seq(Seq(Readings)) /\ n \in Nat /\ DOMAIN chan = 1 .. n
      /\ \A i \in DOMAIN chan : chan[i] # <<>> /\ Sorted(chan[i]) /\ chan[i] \in Seq(Readings)
      /\ \A i, j \in DOMAIN chan : i < j =>
            \A r \in Elems(chan[i]), s \in Elems(chan[j]) : Older(r, s)
      /\ n <= ChanCap /\ ChanCap \in Nat
  BY Parts, ConstantsOK DEF Ordered, Types, TypeOK, ConstantsOK
<1>2. /\ chan # <<>> /\ chan' = w /\ batch' = b /\ dpc = "recv"
      /\ req' = [state |-> "running", todo |-> recs \o b]
  BY DEF Deliver, Posted
<1>3. /\ n # 0 /\ b = chan[1] /\ w \in Seq(Seq(Readings)) /\ Len(w) = n - 1
      /\ \A i \in 1 .. Len(w) : w[i] = chan[i + 1]
  BY <1>1, <1>2, HeadTailProperties, EmptySeq
<1>4. DOMAIN w = 1 .. n - 1 /\ 1 \in DOMAIN chan
  BY <1>1, <1>3, LenProperties
<1> HIDE DEF w, b
<1>5. \A i \in DOMAIN w : i + 1 \in DOMAIN chan /\ 1 < i + 1 /\ w[i] = chan[i + 1]
  <2>1. DOMAIN chan = 1 .. n /\ n \in Nat
    BY <1>1
  <2> QED
    BY <2>1, <1>3, <1>4
<1>6. b \in Seq(Readings) /\ b # <<>> /\ Sorted(b)
  BY <1>1, <1>3, <1>4
<1>7. \A i \in DOMAIN w : w[i] # <<>> /\ Sorted(w[i])
  BY <1>1, <1>5
<1>8. ASSUME NEW i \in DOMAIN w, NEW j \in DOMAIN w, i < j,
             NEW r \in Elems(w[i]), NEW s \in Elems(w[j])
      PROVE  Older(r, s)
  <2>1. i + 1 < j + 1
    BY <1>4, <1>8
  <2> QED
    BY <1>1, <1>5, <1>8, <2>1
<1>9. Elems(b) \cup UNION {Elems(w[i]) : i \in DOMAIN w} = Queued
  <2>1. ASSUME NEW i \in DOMAIN chan
        PROVE  Elems(chan[i]) \subseteq Elems(b) \cup UNION {Elems(w[j]) : j \in DOMAIN w}
    <3>1. CASE i = 1
      BY <1>3, <3>1
    <3>2. CASE i # 1
      <4>1. i - 1 \in DOMAIN w /\ (i - 1) + 1 = i
        BY <1>1, <1>4, <3>2
      <4>2. w[i - 1] = chan[i]
        BY <1>5, <4>1
      <4> QED
        BY <4>1, <4>2
    <3> QED
      BY <3>1, <3>2
  <2>2. \A j \in DOMAIN w : Elems(w[j]) \subseteq Queued
    BY <1>5 DEF Queued
  <2>3. Elems(b) \subseteq Queued
    BY <1>3, <1>4 DEF Queued
  <2> QED
    BY <2>1, <2>2, <2>3 DEF Queued
<1>10. \A i \in DOMAIN w : \A r \in Elems(b), s \in Elems(w[i]) : Older(r, s)
  BY <1>1, <1>3, <1>4, <1>5
<1>11. batch = <<>> /\ Elems(batch) = {}
  BY <1>2, Parts, ReadingsAreLines DEF Types
<1>12. Queued' = UNION {Elems(w[i]) : i \in DOMAIN w}
  BY <1>2 DEF Queued
<1>13. InFlight' = InFlight
  BY <1>2, <1>9, <1>11, <1>12 DEF InFlight, Queued
<1>14. Queued' \subseteq Queued /\ Elems(b) \subseteq Queued
  BY <1>9, <1>12
<1>15. Len(w) <= ChanCap
  BY <1>1, <1>3
<1>16. \A r \in Elems(recs), s \in Elems(b) : Older(r, s)
  <2>1. Elems(b) \subseteq InFlight
    BY <1>14, Parts
  <2> QED
    BY <2>1 DEF Ordered, Read
<1>17. /\ recs \o b \in Seq(Readings) /\ Sorted(recs \o b)
       /\ Elems(recs \o b) = Elems(recs) \cup Elems(b)
  <2> DEFINE z == recs \o b
             k == Len(recs)
  <2>1. /\ recs \in Seq(Readings) /\ b \in Seq(Readings) /\ Sorted(recs) /\ Sorted(b)
        /\ Whole(recs) = 1 .. k /\ Whole(b) = 1 .. Len(b) /\ DOMAIN recs = 1 .. k
        /\ DOMAIN b = 1 .. Len(b) /\ k \in Nat /\ Len(b) \in Nat
    BY <1>6, ReadingsAreLines DEF Read
  <2>2. /\ z \in Seq(Readings) /\ Len(z) = k + Len(b)
        /\ \A i \in 1 .. k + Len(b) : z[i] = IF i <= k THEN recs[i] ELSE b[i - k]
    BY <2>1, ConcatProperties
  <2> HIDE DEF z
  <2>3. DOMAIN z = 1 .. k + Len(b) /\ Whole(z) = DOMAIN z
    BY <2>2, ReadingsAreLines
  <2>4. ASSUME NEW i \in DOMAIN z
        PROVE  \/ i <= k /\ i \in DOMAIN recs /\ z[i] = recs[i]
               \/ i > k /\ i - k \in DOMAIN b /\ z[i] = b[i - k]
    BY <2>1, <2>2, <2>3
  <2>5. ASSUME NEW i \in DOMAIN z, NEW j \in DOMAIN z, i < j PROVE Older(z[i], z[j])
    <3>1. CASE i \in DOMAIN recs /\ z[i] = recs[i] /\ j \in DOMAIN recs /\ z[j] = recs[j]
      BY <2>1, <2>5, <3>1 DEF Sorted
    <3>2. CASE i \in DOMAIN recs /\ z[i] = recs[i] /\ j - k \in DOMAIN b /\ z[j] = b[j - k]
      BY <1>16, <3>2 DEF Elems
    <3>3. CASE i - k \in DOMAIN b /\ z[i] = b[i - k] /\ j - k \in DOMAIN b /\ z[j] = b[j - k]
      <4>1. i - k < j - k
        BY <2>1, <2>3, <2>5
      <4> QED
        BY <2>1, <3>3, <4>1 DEF Sorted
    <3>4. ~(i > k /\ j <= k)
      BY <2>1, <2>3, <2>5
    <3> QED
      BY <2>4, <3>1, <3>2, <3>3, <3>4
  <2>6. Elems(z) \subseteq Elems(recs) \cup Elems(b)
    BY <2>4 DEF Elems
  <2>7. ASSUME NEW i \in DOMAIN recs PROVE recs[i] \in Elems(z)
    <3>1. i \in DOMAIN z /\ i <= k
      BY <2>1, <2>3
    <3> QED
      BY <2>2, <2>3, <3>1 DEF Elems
  <2>8. ASSUME NEW i \in DOMAIN b PROVE b[i] \in Elems(z)
    <3>1. k + i \in DOMAIN z /\ ~(k + i <= k) /\ k + i - k = i
      BY <2>1, <2>3
    <3> QED
      BY <2>2, <2>3, <3>1 DEF Elems
  <2>9. Elems(z) = Elems(recs) \cup Elems(b)
    BY <2>6, <2>7, <2>8 DEF Elems
  <2> QED
    BY <2>2, <2>3, <2>5, <2>9 DEF Sorted, z
<1>18. /\ req'.state = "running" /\ req' \in Requests
       /\ req'.todo = recs \o b
  BY <1>2, <1>17 DEF Requests
<1> QED
  BY <1>2, <1>3, <1>6, <1>7, <1>8, <1>10, <1>11, <1>12, <1>13, <1>14, <1>15, <1>17, <1>18

\* What a write to the spool, whole or not, makes of the state.
LEMMA SpoolWritten ==
  ASSUME Types, Ordered,
         \/ spool' = spool
         \/ spool' = Trimmed(Written(spool, batch))
         \/ spool' \in PartlyWritten(spool, batch)
  PROVE  /\ Good(spool') /\ Spooled' \subseteq Spooled \cup Elems(batch)
         /\ Spooled' \subseteq Readings
<1>1. /\ Good(spool) /\ batch \in Seq(Readings) /\ Sorted(batch)
      /\ Elems(spool.lines) \ {Garbage} = Spooled /\ Elems(batch) \subseteq InFlight
  BY Parts DEF Good, Types, Ordered
<1>2. \A r \in Elems(spool.lines) \ {Garbage}, s \in Elems(batch) : Older(r, s)
  BY <1>1 DEF Ordered
<1>3. CASE spool' = spool
  BY <1>1, <1>3, Parts DEF Spooled
<1>4. CASE spool' = Trimmed(Written(spool, batch)) \/ spool' \in PartlyWritten(spool, batch)
  <2>1. Leaves(spool, batch, spool')
    BY <1>1, <1>2, <1>4, TrimmedLeaves, PartLeaves
  <2>2. Good(spool') /\ spool'.lines \in Seq(Lines)
    BY <2>1 DEF Leaves, Good, Files
  <2>3. Spooled' = Elems(spool'.lines) \ {Garbage} /\ Spooled' \subseteq Readings
    BY <2>2, RecordsAre, ReadingsAreLines DEF Spooled
  <2> QED
    BY <1>1, <2>1, <2>2, <2>3 DEF Leaves
<1> QED
  BY <1>3, <1>4

\* Deliver has nothing left in hand.
LEMMA DoneDoes ==
  ASSUME Done
  PROVE  /\ dpc' = "recv" /\ batch' = <<>> /\ backlog' = <<>> /\ req' = NoRequest
         /\ Elems(batch') = {} /\ Elems(backlog') = {} /\ Elems(req'.todo) = {}
         /\ batch' \in Seq(Readings) /\ backlog' \in Seq(Readings) /\ req' \in Requests
         /\ Sorted(batch') /\ Sorted(req'.todo) /\ req'.state = "none"
<1>1. /\ dpc' = "recv" /\ batch' = <<>> /\ backlog' = <<>> /\ req' = NoRequest
      /\ req'.todo = <<>> /\ req'.state = "none"
  BY DEF Done, NoRequest
<1>2. <<>> \in Seq(Readings)
  OBVIOUS
<1>3. Elems(<<>>) = {}
  BY <1>2, ReadingsAreLines
<1>4. Whole(<<>>) = {}
  <2>1. \A i \in DOMAIN <<>> : <<>>[i] \in Elems(<<>>)
    BY DEF Elems
  <2> QED
    BY <1>3, <2>1 DEF Whole
<1>5. Sorted(<<>>)
  BY <1>4 DEF Sorted
<1>6. NoRequest \in Requests
  BY <1>2 DEF NoRequest, Requests
<1> QED
  BY <1>1, <1>2, <1>3, <1>5, <1>6

\* A spool that is cleared has nothing.
LEMMA EmptyIs ==
  /\ EmptySpool \in Files /\ ~EmptySpool.torn /\ EmptySpool.lines = <<>>
  /\ Sorted(EmptySpool.lines) /\ Elems(Records(EmptySpool.lines)) = {}
<1>1. /\ EmptySpool \in Files /\ ~EmptySpool.torn /\ EmptySpool.lines = <<>>
      /\ <<>> \in Seq(Readings) /\ <<>> \in Seq(Lines)
  BY DEF EmptySpool, Files
<1>2. Elems(<<>>) = {} /\ Whole(<<>>) = DOMAIN <<>> /\ DOMAIN <<>> = {}
  <2>1. Len(<<>>) = 0
    OBVIOUS
  <2> QED
    BY <1>1, <2>1, ReadingsAreLines
<1>3. Elems(Records(<<>>)) = {} /\ Sorted(<<>>)
  BY <1>1, <1>2, WholeLines DEF Sorted
<1> QED
  BY <1>1, <1>3

\* The requests still handled though nobody waits for them.
LEMMA OrphanedIs ==
  ASSUME Types
  PROVE  /\ IsFiniteSet(Orphaned) /\ Orphaned \subseteq Seq(Readings) /\ orphans \subseteq Orphaned
         /\ \A todo \in Orphaned : todo \in orphans \/ (req.state = "running" /\ todo = req.todo)
<1>1. IsFiniteSet(orphans) /\ orphans \subseteq Seq(Readings) /\ req.todo \in Seq(Readings)
  BY Parts
<1>2. IsFiniteSet(orphans \cup {req.todo})
  BY <1>1, FS_AddElement
<1> QED
  BY <1>1, <1>2 DEF Orphaned

-----------------------------------------------------------------------------
(* Types.                                                                  *)

\* It starts well typed.
LEMMA TypesInit == Init => Types
<1> SUFFICES ASSUME Init PROVE Types
  OBVIOUS
<1>1. budget \in Budget /\ obs = 0 /\ 0 \in 0 .. MaxObs /\ 0 .. obs = {0}
  BY ConstantsOK DEF Init, Budget, ConstantsOK
<1>2. latest \in [Macs -> 0 .. obs]
  BY <1>1 DEF Init
<1>3. stored \in [Readings -> Nat]
  BY DEF Init
<1>4. chan \in Seq(Seq(Readings)) /\ Len(chan) <= ChanCap /\ DOMAIN chan = {}
  BY ConstantsOK DEF Init, ConstantsOK
<1>5. /\ spool \in Files /\ spool.torn = FALSE /\ spool.lines \in Seq(Lines)
      /\ req \in Requests /\ req.state = "none" /\ req.todo \in Seq(Readings)
  BY DEF Init, EmptySpool, NoRequest, Files, Requests
<1>6. IsFiniteSet(orphans)
  BY FS_EmptySet DEF Init
<1>7. batch = <<>> /\ backlog = <<>> /\ <<>> \in Seq(Readings) /\ dpc = "recv" /\ gw = "up"
  BY DEF Init
<1>8. TypeOK
  BY <1>1, <1>2, <1>3, <1>4, <1>5, <1>7 DEF Init, TypeOK
<1> QED
  BY <1>1, <1>4, <1>5, <1>6, <1>7, <1>8 DEF Init, Types

\* What only the gateway's own steps change.
Quiet ==
    /\ UNCHANGED <<obs, chan, delivery, spool, orphans, stored, history>>
    /\ latest' = latest \/ latest' = [m \in Macs |-> 0]
    /\ budget' \in Budget /\ (\A x \in What : x # "stop" => budget'[x] = budget[x])
    /\ gw' \in {"up", "stopping", "draining", "down"}

\* Those steps, and the ones in which nothing happens.
LEMMA Quiets ==
  ASSUME Types,
         \/ FlushNothing \/ Stop \/ Exit \/ Restart \/ UNCHANGED vars
         \/ FinalFlush /\ Pending = {}
  PROVE  Quiet
<1>1. budget \in Budget /\ gw \in {"up", "stopping", "draining", "down"}
  BY DEF Types, TypeOK
<1>2. CASE Stop
  <2>1. Spend("stop") /\ "stop" \in What
    BY <1>2 DEF Stop, What
  <2>2. budget' \in Budget /\ \A x \in What : x # "stop" => budget'[x] = budget[x]
    BY <1>1, <2>1, Spent
  <2> QED
    BY <1>2, <2>2 DEF Stop, Quiet
<1>3. CASE Exit
  BY <1>1, <1>3 DEF Exit, Quiet
<1>4. CASE Restart
  BY <1>1, <1>4 DEF Restart, Quiet
<1>5. CASE UNCHANGED vars \/ FlushNothing
  BY <1>1, <1>5 DEF FlushNothing, Quiet, vars, gateway
<1>6. CASE FinalFlush /\ Pending = {}
  BY <1>1, <1>6 DEF FinalFlush, Quiet
<1> QED
  BY <1>2, <1>3, <1>4, <1>5, <1>6

\* A flush that emits something.
Emits ==
    /\ Emit /\ Pending # {}
    /\ gw' \in {"up", "stopping", "draining", "down"}
    /\ UNCHANGED <<obs, delivery, spool, orphans, stored, budget>>

\* The steps, with the gateway's own ones put together.
LEMMA Steps ==
  ASSUME Types, [Next]_vars
  PROVE  \/ \E m \in Macs : Observe(m)
         \/ Emits \/ Quiet \/ Receive \/ ReceiveWithReadError \/ Accepted \/ Clear
         \/ SendFails \/ SpoolBatch \/ Crash \/ IngestNext \/ IngestDone \/ IngestFails
         \/ OrphanStep
<1>1. gw \in {"up", "stopping", "draining", "down"}
  BY DEF Types, TypeOK
<1>2. Flush => Emits
  BY <1>1 DEF Flush, Emits
<1>3. FinalFlush /\ Pending # {} => Emits
  BY DEF FinalFlush, Emits
<1> QED
  BY <1>2, <1>3, Quiets DEF Next, DeliverStep, Ingest

\* Every step keeps the types.
LEMMA TypesNext ==
  ASSUME Types, Emitted, Ordered, [Next]_vars
  PROVE  Types'
<1>1. ASSUME NEW m \in Macs, Observe(m) PROVE Types'
  <2>1. obs' = obs + 1 /\ obs < MaxObs /\ latest' = [latest EXCEPT ![m] = obs + 1]
    BY <1>1 DEF Observe
  <2>2. obs \in Nat /\ latest \in [Macs -> Nat] /\ (\A k \in Macs : latest[k] <= obs) /\ MaxObs \in Nat
    BY Parts, ConstantsOK DEF ConstantsOK
  <2>3. obs' \in 0 .. MaxObs
    BY <2>1, <2>2
  <2>4. latest' \in [Macs -> 0 .. obs']
    BY <2>1, <2>2
  <2> QED
    BY <1>1, <2>3, <2>4 DEF Observe, delivery, history, Types, TypeOK
<1>2. CASE Emits
  <2>1. Pending # {} /\ Emit
    BY <1>2 DEF Emits
  <2>2. /\ chan' \in Seq(Seq(Readings)) /\ Len(chan') <= ChanCap
        /\ \A i \in DOMAIN chan' : chan'[i] # <<>>
        /\ lost' \subseteq lost \cup Pending
    BY <2>1, ChanGrows
  <2>3. Pending \subseteq Readings /\ emitted' = emitted \cup Pending /\ latest' = [m \in Macs |-> 0]
    BY <2>1, EmitDoes
  <2>4. latest' \in [Macs -> 0 .. obs]
    BY <2>3, Parts
  <2> QED
    BY <1>2, <2>2, <2>3, <2>4 DEF Emits, delivery, Types, TypeOK
<1>3. CASE Quiet
  <2>1. latest' \in [Macs -> 0 .. obs]
    BY <1>3, Parts DEF Quiet, Types, TypeOK
  <2> QED
    BY <1>3, <2>1 DEF Quiet, delivery, history, Types, TypeOK
<1>4. CASE Receive \/ ReceiveWithReadError
  <2>1. PICK recs : Read(recs) /\ Deliver(recs)
    BY <1>4, Receives
  <2>2. budget' \in Budget
    BY <1>4, Receives
  <2>3. /\ batch' \in Seq(Readings) /\ batch' # <<>>
        /\ chan' \in Seq(Seq(Readings)) /\ Len(chan') <= ChanCap
        /\ \A i \in DOMAIN chan' : chan'[i] # <<>>
        /\ req'.state = "running" /\ req' \in Requests
    BY <2>1, DeliverDoes
  <2>4. req'.todo \in Seq(Readings) /\ backlog' \in Seq(Readings)
    BY <2>1, <2>3 DEF Requests, Read, Deliver
  <2> QED
    BY <2>1, <2>2, <2>3, <2>4 DEF Deliver, history, Types, TypeOK
<1>5. CASE Accepted
  <2>1. CASE NeedsClear
    BY <1>5, <2>1 DEF Accepted, gateway, history, Types, TypeOK
  <2>2. CASE ~NeedsClear
    <3>1. Done
      BY <1>5, <2>2 DEF Accepted
    <3> QED
      BY <1>5, <3>1, DoneDoes DEF Accepted, gateway, history, Types, TypeOK, Requests
  <2> QED
    BY <2>1, <2>2
<1>6. CASE Clear
  <2>1. spool' \in Files /\ (spool'.torn => spool'.lines # <<>>)
    BY <1>6, EmptyIs DEF Clear, Types
  <2>2. budget' \in Budget
    BY <1>6, Spent DEF Clear, Types, What
  <2> QED
    BY <1>6, <2>1, <2>2, DoneDoes DEF Clear, gateway, history, Types, TypeOK, Requests, Files
<1>7. CASE SendFails
  <2>1. budget' \in Budget
    BY <1>7, Spent DEF SendFails, Types, What
  <2>2. IsFiniteSet(orphans') /\ orphans' \subseteq Seq(Readings)
    BY <1>7, OrphanedIs DEF SendFails
  <2>3. req' = NoRequest /\ req' \in Requests
    BY <1>7 DEF SendFails, NoRequest, Requests
  <2> QED
    BY <1>7, <2>1, <2>2, <2>3 DEF SendFails, gateway, history, Types, TypeOK, Requests
<1>8. CASE SpoolBatch
  <2>1. Good(spool') /\ Spooled' \subseteq Spooled \cup Elems(batch)
    BY <1>8, SpoolWritten DEF SpoolBatch
  <2>2. budget' \in Budget
    BY <1>8, Spent DEF SpoolBatch, Types, What
  <2>3. lost' \subseteq emitted
    <3>1. Spooled \cup Elems(batch) \subseteq emitted
      BY Parts DEF Emitted
    <3>2. lost' \subseteq lost \cup Missing
      BY <1>8 DEF SpoolBatch
    <3> QED
      BY <3>1, <3>2, Parts DEF Missing
  <2> QED
    BY <1>8, <2>1, <2>2, <2>3, DoneDoes
    DEF SpoolBatch, gateway, Good, Types, TypeOK, Requests, Files
<1>9. CASE Crash
  <2>1. Good(spool') /\ Spooled' \subseteq Spooled \cup Elems(batch)
    BY <1>9, SpoolWritten DEF Crash
  <2>2. budget' \in Budget
    BY <1>9, Spent DEF Crash, Types, What
  <2>3. lost' \subseteq emitted
    <3>1. Spooled \cup InFlight \subseteq emitted
      BY DEF Emitted
    <3>2. lost' = lost \cup ((Spooled \cup InFlight) \ Spooled')
      BY <1>9 DEF Crash, InFlight
    <3> QED
      BY <3>1, <3>2, Parts
  <2>4. IsFiniteSet(orphans') /\ orphans' \subseteq Seq(Readings)
    BY <1>9, OrphanedIs DEF Crash
  <2>5. latest' \in [Macs -> 0 .. obs]
    BY <1>9, Parts DEF Crash
  <2>6. chan' \in Seq(Seq(Readings)) /\ Len(chan') <= ChanCap /\ DOMAIN chan' = {}
    BY <1>9, ConstantsOK DEF Crash, ConstantsOK
  <2> QED
    BY <1>9, <2>1, <2>2, <2>3, <2>4, <2>5, <2>6, DoneDoes
    DEF Crash, Good, Types, TypeOK, Requests, Files
<1>10. CASE IngestNext
  <2>1. /\ Head(req.todo) \in Readings /\ Tail(req.todo) \in Seq(Readings)
    BY <1>10, TailIs, Parts DEF IngestNext
  <2>2. stored' \in [Readings -> Nat]
    BY <1>10, <2>1, Inserted, Parts DEF IngestNext
  <2>3. req' \in Requests /\ req'.state = "running" /\ req'.todo = Tail(req.todo)
    BY <1>10, <2>1 DEF IngestNext, Types, Requests
  <2>4. req # NoRequest
    BY <1>10 DEF IngestNext, NoRequest
  <2> QED
    BY <1>10, <2>1, <2>2, <2>3, <2>4 DEF IngestNext, gateway, history, Types, TypeOK
<1>11. CASE IngestDone
  <2>1. req' \in Requests /\ req'.state = "ok" /\ req'.todo = req.todo /\ req # NoRequest
    BY <1>11 DEF IngestDone, Types, Requests, NoRequest
  <2> QED
    BY <1>11, <2>1 DEF IngestDone, gateway, history, Types, TypeOK, NoRequest
<1>12. CASE IngestFails
  <2>1. /\ req' \in Requests /\ req'.state = "error" /\ req'.todo = req.todo
        /\ req # NoRequest /\ req.state = "running"
    BY <1>12 DEF IngestFails, Types, Requests, NoRequest
  <2>2. budget' \in Budget
    BY <1>12, Spent DEF IngestFails, Types, What
  <2> QED
    BY <1>12, <2>1, <2>2 DEF IngestFails, gateway, history, Types, TypeOK, NoRequest
<1>13. CASE OrphanStep
  <2>1. PICK todo \in orphans :
            \/ /\ todo # <<>> /\ Insert(Head(todo))
               /\ orphans' = (orphans \ {todo}) \cup {Tail(todo)}
            \/ orphans' = orphans \ {todo} /\ UNCHANGED stored
    BY <1>13 DEF OrphanStep
  <2>2. todo \in Seq(Readings) /\ IsFiniteSet(orphans) /\ stored \in [Readings -> Nat]
        /\ orphans \subseteq Seq(Readings)
    BY Parts
  <2>3. IsFiniteSet(orphans \ {todo})
    BY <2>2, FS_RemoveElement
  <2>4. CASE orphans' = orphans \ {todo} /\ UNCHANGED stored
    BY <1>13, <2>2, <2>3, <2>4 DEF OrphanStep, gateway, delivery, history, Types, TypeOK
  <2>5. CASE /\ todo # <<>> /\ Insert(Head(todo))
             /\ orphans' = (orphans \ {todo}) \cup {Tail(todo)}
    <3>1. Head(todo) \in Readings /\ Tail(todo) \in Seq(Readings)
      BY <2>2, <2>5, TailIs
    <3>2. stored' \in [Readings -> Nat]
      BY <2>2, <2>5, <3>1, Inserted
    <3>3. IsFiniteSet(orphans')
      BY <2>3, <2>5, FS_AddElement
    <3>4. orphans' \subseteq Seq(Readings)
      BY <2>2, <2>5, <3>1
    <3> QED
      BY <1>13, <3>2, <3>3, <3>4 DEF OrphanStep, gateway, delivery, history, Types, TypeOK
  <2> QED
    BY <2>1, <2>4, <2>5
<1> QED
  BY <1>1, <1>2, <1>3, <1>4, <1>5, <1>6, <1>7, <1>8, <1>9, <1>10, <1>11, <1>12, <1>13, Steps

-----------------------------------------------------------------------------
(* Emitted and Ordered.                                                    *)

\* What a step leaves alone.
LEMMA Frames ==
  /\ UNCHANGED chan => Queued' = Queued
  /\ UNCHANGED spool => Spooled' = Spooled
  /\ UNCHANGED stored => InDatabase' = InDatabase
  /\ UNCHANGED <<chan, batch>> => InFlight' = InFlight
  /\ Elems(batch') \cup Queued' = InFlight'
  BY DEF Queued, Spooled, InDatabase, InFlight

\* Nothing has been measured yet, and nothing is anywhere.
LEMMA StartsEmpty ==
  ASSUME Init
  PROVE  /\ InFlight = {} /\ Queued = {} /\ Spooled = {} /\ Elems(backlog) = {} /\ Elems(batch) = {}
         /\ Elems(req.todo) = {} /\ DOMAIN chan = {}
         /\ Sorted(spool.lines) /\ Sorted(batch) /\ Sorted(req.todo)
<1>1. batch = <<>> /\ backlog = <<>> /\ chan = <<>> /\ req.todo = <<>> /\ spool = EmptySpool
  BY DEF Init, NoRequest
<1>2. Elems(<<>>) = {} /\ DOMAIN <<>> = {}
  <2>1. <<>> \in Seq(Readings) /\ Len(<<>>) = 0
    OBVIOUS
  <2> QED
    BY <2>1, ReadingsAreLines
<1>3. Sorted(<<>>)
  BY EmptyIs
<1> QED
  BY <1>1, <1>2, <1>3, EmptyIs DEF Queued, Spooled, InFlight

\* In the beginning nothing is emitted.
LEMMA EmittedInit == Init => Emitted
<1> SUFFICES ASSUME Init PROVE Emitted
  OBVIOUS
<1>1. orphans = {} /\ emitted = {} /\ \A r \in Readings : ~(stored[r] > 0)
  BY DEF Init
<1> QED
  BY <1>1, StartsEmpty DEF Emitted

\* In the beginning there is nothing to be out of order.
LEMMA OrderedInit == Init => Ordered
<1> SUFFICES ASSUME Init PROVE Ordered
  OBVIOUS
<1>1. orphans = {}
  BY DEF Init
<1> QED
  BY <1>1, StartsEmpty DEF Ordered

\* Every step keeps that all comes from the sampler.
LEMMA EmittedNext ==
  ASSUME Types, Emitted, Ordered, [Next]_vars
  PROVE  Emitted'
<1> DEFINE News == \A r \in emitted : r[2] <= obs /\ (latest[r[1]] # 0 => r[2] < latest[r[1]])
           Rows == \A r \in Readings : stored[r] > 0 => r \in emitted
<1>0. /\ emitted \subseteq Readings /\ obs \in Nat /\ latest \in [Macs -> Nat]
      /\ \A r \in emitted : r[1] \in Macs /\ r[2] \in Nat
      /\ InFlight = Elems(batch) \cup Queued
  BY Parts DEF Readings
<1>1. ASSUME NEW m \in Macs, Observe(m) PROVE Emitted'
  <2>1. obs' = obs + 1 /\ latest' = [latest EXCEPT ![m] = obs + 1] /\ emitted' = emitted
    BY <1>1 DEF Observe, history
  <2>2. ASSUME NEW r \in emitted PROVE r[2] <= obs' /\ (latest'[r[1]] # 0 => r[2] < latest'[r[1]])
    <3>1. r[2] <= obs /\ (latest[r[1]] # 0 => r[2] < latest[r[1]]) /\ r[2] \in Nat /\ r[1] \in Macs
      BY <1>0 DEF Emitted
    <3>2. latest'[r[1]] = IF r[1] = m THEN obs + 1 ELSE latest[r[1]]
      BY <1>0, <2>1, <3>1
    <3> QED
      BY <1>0, <2>1, <3>1, <3>2
  <2> QED
    BY <1>1, <2>1, <2>2, Frames DEF Observe, Emitted, delivery
<1>2. CASE Emits
  <2>1. /\ Queued' \subseteq Queued \cup Pending /\ emitted' = emitted \cup Pending
        /\ latest' = [m \in Macs |-> 0] /\ \A r \in Pending : r[2] <= obs
        /\ Pending \subseteq Readings /\ \A r \in Pending : r[1] \in Macs
    BY <1>2, ChanGrows, EmitDoes DEF Emits, Readings
  <2>2. UNCHANGED <<batch, backlog, req, spool, orphans, stored, obs>>
    BY <1>2 DEF Emits, delivery
  <2>3. InFlight' \subseteq emitted'
    BY <1>0, <2>1, <2>2, Frames DEF Emitted
  <2>4. \A r \in emitted' : r[2] <= obs /\ r[1] \in Macs
    BY <1>0, <2>1 DEF Emitted
  <2>5. \A r \in emitted' : latest'[r[1]] = 0
    BY <2>1, <2>4
  <2> QED
    BY <2>1, <2>2, <2>3, <2>4, <2>5, Frames DEF Emitted
<1>3. CASE Quiet
  <2>1. UNCHANGED <<obs, chan, batch, backlog, req, spool, orphans, stored, emitted>>
    BY <1>3 DEF Quiet, delivery, history
  <2>2. \A r \in emitted : latest'[r[1]] = 0 \/ latest'[r[1]] = latest[r[1]]
    BY <1>0, <1>3 DEF Quiet
  <2>3. News'
    BY <2>1, <2>2 DEF Emitted
  <2> QED
    BY <2>1, <2>3, Frames DEF Emitted
<1>4. CASE Receive \/ ReceiveWithReadError
  <2>1. PICK recs : Read(recs) /\ Deliver(recs)
    BY <1>4, Receives
  <2>2. InFlight' = InFlight /\ Elems(req'.todo) = Elems(recs) \cup Elems(batch')
    BY <2>1, DeliverDoes
  <2>3. /\ backlog' = recs /\ Elems(recs) \subseteq Spooled
        /\ UNCHANGED <<obs, latest, spool, orphans, stored, emitted>>
    BY <2>1 DEF Deliver, Read, history
  <2> QED
    BY <2>2, <2>3, Frames DEF Emitted
<1>5. CASE Accepted
  <2>1. UNCHANGED <<obs, latest, chan, spool, orphans, stored, emitted>>
    BY <1>5 DEF Accepted, gateway, history
  <2>2. CASE NeedsClear
    BY <1>5, <2>1, <2>2, Frames DEF Accepted, Emitted
  <2>3. CASE ~NeedsClear
    BY <1>0, <1>5, <2>1, <2>3, Frames, DoneDoes DEF Accepted, Emitted
  <2> QED
    BY <2>2, <2>3
<1>6. CASE Clear
  <2>1. UNCHANGED <<obs, latest, chan, orphans, stored, emitted>> /\ Done
    BY <1>6 DEF Clear, gateway, history
  <2>2. Spooled' = {} \/ Spooled' = Spooled
    BY <1>6, EmptyIs, Frames DEF Clear, Spooled
  <2> QED
    BY <1>0, <2>1, <2>2, Frames, DoneDoes DEF Emitted
<1>7. CASE SendFails
  <2>1. UNCHANGED <<obs, latest, chan, batch, backlog, spool, stored, emitted>>
    BY <1>7 DEF SendFails, gateway, history
  <2>2. \A todo \in orphans' : Elems(todo) \subseteq emitted
    <3>1. Elems(req.todo) \subseteq emitted
      BY <1>0 DEF Emitted
    <3> QED
      BY <1>7, <3>1, OrphanedIs DEF SendFails, Emitted
  <2>3. Elems(req'.todo) = {}
    <3>1. req' = NoRequest /\ req'.todo = <<>> /\ <<>> \in Seq(Readings)
      BY <1>7 DEF SendFails, NoRequest
    <3> QED
      BY <3>1, ReadingsAreLines
  <2> QED
    BY <2>1, <2>2, <2>3, Frames DEF Emitted
<1>8. CASE SpoolBatch
  <2>1. UNCHANGED <<obs, latest, chan, orphans, stored, emitted>> /\ Done
    BY <1>8 DEF SpoolBatch, gateway
  <2>2. Spooled' \subseteq Spooled \cup Elems(batch)
    BY <1>8, SpoolWritten DEF SpoolBatch
  <2> QED
    BY <1>0, <2>1, <2>2, Frames, DoneDoes DEF Emitted
<1>9. CASE Crash
  <2>1. UNCHANGED <<obs, stored, emitted>> /\ Done /\ latest' = [m \in Macs |-> 0] /\ chan' = <<>>
    BY <1>9 DEF Crash
  <2>2. Spooled' \subseteq Spooled \cup Elems(batch)
    BY <1>9, SpoolWritten DEF Crash
  <2>3. \A todo \in orphans' : Elems(todo) \subseteq emitted
    <3>1. Elems(req.todo) \subseteq emitted
      BY <1>0 DEF Emitted
    <3> QED
      BY <1>9, <3>1, OrphanedIs DEF Crash, Emitted
  <2>4. Queued' = {} /\ InFlight' = {}
    BY <2>1, Frames, DoneDoes DEF Queued
  <2>5. News'
    BY <1>0, <2>1 DEF Emitted
  <2> QED
    BY <1>0, <2>1, <2>2, <2>3, <2>4, <2>5, DoneDoes DEF Emitted
<1>10. CASE IngestNext
  <2>1. /\ UNCHANGED <<obs, latest, chan, batch, backlog, spool, orphans, emitted>>
        /\ req.todo \in Seq(Readings) /\ req.todo # <<>> /\ Insert(Head(req.todo))
        /\ req'.todo = Tail(req.todo)
    BY <1>10, Parts DEF IngestNext, gateway, history, Types, Requests
  <2>2. /\ Elems(req.todo) = {Head(req.todo)} \cup Elems(Tail(req.todo)) /\ Head(req.todo) \in Readings
    BY <2>1, TailIs
  <2>3. \A s \in Readings : stored'[s] > 0 => stored[s] > 0 \/ s = Head(req.todo)
    BY <2>1, <2>2, Inserted, Parts
  <2>4. Head(req.todo) \in emitted
    BY <1>0, <2>2 DEF Emitted
  <2>5. Rows'
    BY <2>1, <2>3, <2>4 DEF Emitted
  <2> QED
    BY <2>1, <2>2, <2>5, Frames DEF Emitted
<1>11. CASE IngestDone \/ IngestFails
  <2>1. /\ UNCHANGED <<obs, latest, chan, batch, backlog, spool, orphans, stored, emitted>>
        /\ req'.todo = req.todo
    BY <1>11 DEF IngestDone, IngestFails, gateway, history, Types, Requests
  <2> QED
    BY <2>1, Frames DEF Emitted
<1>12. CASE OrphanStep
  <2>1. PICK todo \in orphans :
            \/ /\ todo # <<>> /\ Insert(Head(todo))
               /\ orphans' = (orphans \ {todo}) \cup {Tail(todo)}
            \/ orphans' = orphans \ {todo} /\ UNCHANGED stored
    BY <1>12 DEF OrphanStep
  <2>2. /\ UNCHANGED <<obs, latest, chan, batch, backlog, req, spool, emitted>>
        /\ todo \in Seq(Readings)
    BY <1>12, Parts DEF OrphanStep, gateway, delivery, history
  <2>3. CASE orphans' = orphans \ {todo} /\ UNCHANGED stored
    BY <2>2, <2>3, Frames DEF Emitted
  <2>4. CASE /\ todo # <<>> /\ Insert(Head(todo))
             /\ orphans' = (orphans \ {todo}) \cup {Tail(todo)}
    <3>1. Elems(todo) = {Head(todo)} \cup Elems(Tail(todo)) /\ Head(todo) \in Readings
      BY <2>2, <2>4, TailIs
    <3>2. \A s \in Readings : stored'[s] > 0 => stored[s] > 0 \/ s = Head(todo)
      BY <2>4, <3>1, Inserted, Parts
    <3>3. Elems(todo) \subseteq emitted
      BY DEF Emitted
    <3>4. Rows'
      BY <2>2, <3>1, <3>2, <3>3 DEF Emitted
    <3>5. \A t \in orphans' : Elems(t) \subseteq emitted
      BY <2>4, <3>1, <3>3 DEF Emitted
    <3> QED
      BY <2>2, <3>4, <3>5, Frames DEF Emitted
  <2> QED
    BY <2>1, <2>3, <2>4
<1> QED
  BY <1>1, <1>2, <1>3, <1>4, <1>5, <1>6, <1>7, <1>8, <1>9, <1>10, <1>11, <1>12, Steps

\* Every step keeps the order from spool to channel.
LEMMA OrderedNext ==
  ASSUME Types, Emitted, Ordered, [Next]_vars
  PROVE  Ordered'
<1>0. InFlight = Elems(batch) \cup Queued /\ orphans \subseteq Seq(Readings)
  BY Parts
<1>1. ASSUME UNCHANGED <<chan, batch, req, spool, orphans>> PROVE Ordered'
  BY <1>1, Frames DEF Ordered
<1>2. CASE (\E m \in Macs : Observe(m)) \/ Quiet
  BY <1>1, <1>2 DEF Observe, Quiet, delivery
<1>3. CASE Emits
  <2>1. /\ \A i \in DOMAIN chan' : Sorted(chan'[i])
        /\ \A i, j \in DOMAIN chan' : i < j =>
              \A r \in Elems(chan'[i]), s \in Elems(chan'[j]) : Older(r, s)
        /\ Queued' \subseteq Queued \cup Pending
        /\ \A r \in emitted, s \in Pending : Older(r, s)
    BY <1>3, ChanGrows, EmitDoes DEF Emits
  <2>2. UNCHANGED <<batch, req, spool, orphans>>
    BY <1>3 DEF Emits, delivery
  <2>3. Elems(batch) \subseteq emitted /\ Spooled \subseteq emitted
    BY <1>0 DEF Emitted
  <2>4. InFlight' \subseteq InFlight \cup Pending
    BY <1>0, <2>1, <2>2, Frames
  <2>5. \A r \in Spooled, s \in InFlight' : Older(r, s)
    BY <2>1, <2>3, <2>4 DEF Ordered
  <2>6. \A r \in Elems(batch), s \in Queued' : Older(r, s)
    BY <2>1, <2>3 DEF Ordered
  <2> QED
    BY <2>1, <2>2, <2>5, <2>6, Frames DEF Ordered
<1>4. CASE Receive \/ ReceiveWithReadError
  <2>1. PICK recs : Read(recs) /\ Deliver(recs)
    BY <1>4, Receives
  <2>2. /\ Sorted(batch') /\ \A i \in DOMAIN chan' : Sorted(chan'[i])
        /\ \A i, j \in DOMAIN chan' : i < j =>
              \A r \in Elems(chan'[i]), s \in Elems(chan'[j]) : Older(r, s)
        /\ \A r \in Elems(batch'), s \in Queued' : Older(r, s)
        /\ InFlight' = InFlight /\ Sorted(req'.todo)
    BY <2>1, DeliverDoes
  <2>3. UNCHANGED <<spool, orphans>>
    BY <2>1 DEF Deliver
  <2> QED
    BY <2>2, <2>3, Frames DEF Ordered
<1>5. ASSUME UNCHANGED <<chan, orphans>>, Done, Good(spool'), Spooled' \subseteq Spooled \cup Elems(batch)
      PROVE  Ordered'
  <2>1. Queued' = Queued /\ InFlight' = Queued
    BY <1>5, Frames, DoneDoes
  <2>2. \A r \in Spooled', s \in Queued : Older(r, s)
    BY <1>0, <1>5 DEF Ordered
  <2> QED
    BY <1>5, <2>1, <2>2, DoneDoes DEF Ordered, Good
<1>6. CASE Accepted
  <2>1. UNCHANGED <<chan, orphans, spool>>
    BY <1>6 DEF Accepted, gateway
  <2>2. Good(spool)
    BY DEF Good, Types, Ordered
  <2>3. CASE NeedsClear
    BY <1>1, <1>6, <2>1, <2>3 DEF Accepted
  <2>4. CASE ~NeedsClear
    BY <1>5, <1>6, <2>1, <2>2, <2>4, Frames DEF Accepted
  <2> QED
    BY <2>3, <2>4
<1>7. CASE Clear
  <2>1. UNCHANGED <<chan, orphans>> /\ Done
    BY <1>7 DEF Clear, gateway
  <2>2. Good(spool') /\ Spooled' \subseteq Spooled
    BY <1>7, EmptyIs DEF Clear, Good, Types, Ordered, Spooled
  <2> QED
    BY <1>5, <2>1, <2>2
<1>8. CASE SpoolBatch
  BY <1>5, <1>8, SpoolWritten DEF SpoolBatch, gateway
<1>9. \A todo \in Orphaned : Sorted(todo)
  BY OrphanedIs DEF Ordered
<1>10. CASE SendFails
  <2>1. UNCHANGED <<chan, batch, spool>> /\ orphans' = Orphaned /\ req'.todo = EmptySpool.lines
    BY <1>10 DEF SendFails, gateway, NoRequest, EmptySpool
  <2> QED
    BY <1>9, <2>1, EmptyIs, Frames DEF Ordered
<1>11. CASE Crash
  <2>1. orphans' = Orphaned /\ Done /\ chan' = <<>> /\ DOMAIN chan' = {}
    BY <1>11 DEF Crash
  <2>2. Good(spool')
    BY <1>11, SpoolWritten DEF Crash
  <2>3. Queued' = {} /\ InFlight' = {}
    BY <2>1, Frames, DoneDoes DEF Queued
  <2> QED
    BY <1>9, <2>1, <2>2, <2>3, DoneDoes DEF Ordered, Good
<1>12. CASE IngestNext
  <2>1. /\ UNCHANGED <<chan, batch, spool, orphans>> /\ req'.todo = Tail(req.todo)
        /\ req.todo \in Seq(Readings) /\ req.todo # <<>>
    BY <1>12, Parts DEF IngestNext, gateway, Types, Requests
  <2>2. Sorted(req'.todo)
    BY <2>1, TailIs DEF Ordered
  <2> QED
    BY <2>1, <2>2, Frames DEF Ordered
<1>13. CASE IngestDone \/ IngestFails
  <2>1. UNCHANGED <<chan, batch, spool, orphans>> /\ req'.todo = req.todo
    BY <1>13 DEF IngestDone, IngestFails, gateway, Types, Requests
  <2> QED
    BY <2>1, Frames DEF Ordered
<1>14. CASE OrphanStep
  <2>1. UNCHANGED <<chan, batch, req, spool>>
    BY <1>14 DEF OrphanStep, gateway, delivery
  <2>2. \A todo \in orphans' : Sorted(todo)
    <3>1. \A t \in orphans' : t \in orphans \/ \E todo \in orphans : todo # <<>> /\ t = Tail(todo)
      BY <1>14 DEF OrphanStep
    <3>2. \A todo \in orphans : todo \in Seq(Readings) /\ Sorted(todo)
      BY <1>0 DEF Ordered
    <3>3. \A t \in orphans : t # <<>> => Sorted(Tail(t))
      BY <3>2, TailIs
    <3> QED
      BY <3>1, <3>2, <3>3
  <2> QED
    BY <2>1, <2>2, Frames DEF Ordered
<1> QED
  BY <1>2, <1>3, <1>4, <1>6, <1>7, <1>8, <1>10, <1>11, <1>12, <1>13, <1>14, Steps

-----------------------------------------------------------------------------
(* Delivered: nothing is dropped while the spool can be read.              *)

\* Which failures a step takes from the budget.
LEMMA Reads ==
  ASSUME Types, [Next]_vars
  PROVE  SpoolWasReadable' => SpoolWasReadable
<1>1. /\ budget \in Budget /\ "read" \in What /\ budget.read <= MaxReadErrors
      /\ budget.read \in Nat /\ MaxReadErrors \in Nat
  BY ConstantsOK DEF Types, Budget, What, ConstantsOK
<1>2. ASSUME NEW what \in What, Spend(what) PROVE budget'.read <= budget.read /\ budget'.read \in Int
  <2>1. /\ budget' \in Budget /\ budget'[what] = budget[what] - 1
        /\ \A x \in What : x # what => budget'[x] = budget[x]
    BY <1>1, <1>2, Spent
  <2>2. CASE what = "read"
    BY <1>1, <2>1, <2>2
  <2>3. CASE what # "read"
    BY <1>1, <2>1, <2>3
  <2> QED
    BY <2>2, <2>3
<1>3. budget' = budget \/ (\E what \in What : Spend(what)) \/ budget'.read = budget.read
  BY Steps DEF Observe, Emits, Quiet, Receive, ReceiveWithReadError, Accepted, Clear, SendFails,
    SpoolBatch, Crash, IngestNext, IngestDone, IngestFails, OrphanStep, What
<1>4. budget'.read <= budget.read /\ budget'.read \in Int
  BY <1>1, <1>2, <1>3
<1> QED
  BY <1>1, <1>4 DEF SpoolWasReadable

\* There is nothing yet that could have been dropped.
LEMMA DeliveredInit == Init => Delivered
<1> SUFFICES ASSUME Init PROVE Delivered
  OBVIOUS
<1>1. emitted = {} /\ dpc = "recv"
  BY DEF Init
<1> QED
  BY <1>1 DEF Delivered, NothingDropped

\* Every step keeps what deliver relies on when it drops what it holds.
LEMMA DeliveredNext ==
  ASSUME Types, Emitted, Ordered, Delivered, [Next]_vars
  PROVE  Delivered'
<1> SUFFICES ASSUME SpoolWasReadable' PROVE
        /\ NothingDropped'
        /\ dpc' \in {"wait", "clear"} => Spooled' \subseteq Elems(backlog')
        /\ dpc' = "wait" /\ req'.state = "running" =>
            Elems(backlog') \cup Elems(batch') \subseteq InDatabase' \cup Elems(req'.todo)
        /\ dpc' \in {"wait", "clear"} /\ req'.state = "ok" =>
            Elems(backlog') \cup Elems(batch') \subseteq InDatabase'
  BY DEF Delivered
<1>0. /\ NothingDropped
      /\ dpc \in {"wait", "clear"} => Spooled \subseteq Elems(backlog)
      /\ dpc = "wait" /\ req.state = "running" =>
            Elems(backlog) \cup Elems(batch) \subseteq InDatabase \cup Elems(req.todo)
      /\ dpc \in {"wait", "clear"} /\ req.state = "ok" =>
            Elems(backlog) \cup Elems(batch) \subseteq InDatabase
      /\ InFlight = Elems(batch) \cup Queued
  BY Reads, Parts DEF Delivered
<1>1. CASE (\E m \in Macs : Observe(m)) \/ Quiet
  <2>1. UNCHANGED <<chan, dpc, batch, backlog, req, spool, stored, emitted, lost>>
    BY <1>1 DEF Observe, Quiet, delivery, history
  <2> QED
    BY <1>0, <2>1, Frames DEF NothingDropped
<1>2. CASE Emits
  <2>1. /\ Queued \subseteq Queued' /\ Pending \subseteq Queued' \cup lost'
        /\ lost \subseteq lost' /\ emitted' = emitted \cup Pending
    BY <1>2, ChanGrows, EmitDoes DEF Emits
  <2>2. UNCHANGED <<dpc, batch, backlog, req, spool, stored>>
    BY <1>2 DEF Emits, delivery
  <2>3. NothingDropped'
    BY <1>0, <2>1, <2>2, Frames DEF NothingDropped
  <2> QED
    BY <1>0, <2>2, <2>3, Frames
<1>3. CASE Receive \/ ReceiveWithReadError
  <2>1. PICK recs : Read(recs) /\ Deliver(recs)
    BY <1>3, Receives
  <2>2. InFlight' = InFlight /\ Elems(req'.todo) = Elems(recs) \cup Elems(batch')
    BY <2>1, DeliverDoes
  <2>3. /\ req'.state = "running" /\ backlog' = recs /\ Elems(recs) = Spooled
        /\ UNCHANGED <<spool, stored, emitted, lost>>
    BY <2>1 DEF Deliver, Read, history
  <2> QED
    BY <1>0, <2>2, <2>3, Frames DEF NothingDropped
<1>4. CASE Accepted
  <2>1. /\ UNCHANGED <<chan, spool, stored, emitted, lost>> /\ dpc = "wait" /\ req.state = "ok"
    BY <1>4 DEF Accepted, gateway, history
  <2>2. CASE NeedsClear
    BY <1>0, <1>4, <2>1, <2>2, Frames DEF Accepted, NothingDropped
  <2>3. CASE ~NeedsClear
    <3>1. Done
      BY <1>4, <2>3 DEF Accepted
    <3>2. InFlight' = Queued
      BY <2>1, <3>1, Frames, DoneDoes
    <3>3. NothingDropped'
      BY <1>0, <2>1, <3>2, Frames DEF NothingDropped
    <3> QED
      BY <3>1, <3>3, DoneDoes
  <2> QED
    BY <2>2, <2>3
<1>5. CASE Clear
  <2>1. UNCHANGED <<chan, stored, emitted, lost>> /\ Done /\ dpc = "clear"
    BY <1>5 DEF Clear, gateway, history
  <2>2. req.state = "ok"
    BY <2>1 DEF Types
  <2>3. Spooled \subseteq InDatabase /\ Elems(batch) \subseteq InDatabase
    BY <1>0, <2>1, <2>2
  <2>4. NothingDropped'
    BY <1>0, <2>1, <2>3, Frames, DoneDoes DEF NothingDropped
  <2> QED
    BY <2>1, <2>4, DoneDoes
<1>6. CASE SendFails
  <2>1. UNCHANGED <<chan, batch, spool, stored, emitted, lost>> /\ dpc' = "spool"
    BY <1>6 DEF SendFails, gateway, history
  <2> QED
    BY <1>0, <2>1, Frames DEF NothingDropped
<1>7. CASE SpoolBatch
  <2>1. UNCHANGED <<chan, stored, emitted>> /\ Done /\ lost \subseteq lost'
    BY <1>7 DEF SpoolBatch, gateway
  <2>2. Spooled \cup Elems(batch) \subseteq Spooled' \cup lost'
    <3>1. CASE lost' = lost \cup Missing
      BY <3>1 DEF Missing
    <3>2. CASE ~MayLose /\ spool' = Trimmed(Written(spool, batch))
      <4>1. Good(spool) /\ batch \in Seq(Readings) /\ Len(Records(spool.lines)) \in Nat
        BY Parts, RecordsAre DEF Good, Types, Ordered
      <4>2. Len(batch) \in Nat /\ SpoolMax \in Nat
        BY <4>1, ReadingsAreLines, ConstantsOK DEF ConstantsOK
      <4>3. ~spool.torn /\ Len(Records(spool.lines)) + Len(batch) <= SpoolMax
        BY <3>2, <4>1, <4>2 DEF MayLose
      <4>4. Elems(Records(spool'.lines)) = Elems(Records(spool.lines)) \cup Elems(batch)
        BY <3>2, <4>1, <4>3, AllWritten
      <4> QED
        BY <4>4 DEF Spooled
    <3> QED
      BY <1>7, <3>1, <3>2 DEF SpoolBatch
  <2>3. NothingDropped'
    BY <1>0, <2>1, <2>2, Frames, DoneDoes DEF NothingDropped
  <2> QED
    BY <2>1, <2>3, DoneDoes
<1>8. CASE Crash
  <2>1. /\ UNCHANGED <<stored, emitted>> /\ Done
        /\ lost' = lost \cup ((Spooled \cup InFlight) \ Spooled')
    BY <1>8 DEF Crash, InFlight
  <2>2. NothingDropped'
    BY <1>0, <2>1, Frames DEF NothingDropped
  <2> QED
    BY <2>1, <2>2, DoneDoes
<1>9. CASE IngestNext
  <2>1. /\ UNCHANGED <<chan, dpc, batch, backlog, spool, emitted, lost>>
        /\ req.todo \in Seq(Readings) /\ req.todo # <<>> /\ Insert(Head(req.todo))
        /\ req'.todo = Tail(req.todo) /\ req.state = "running" /\ req'.state = "running"
    BY <1>9, Parts DEF IngestNext, gateway, history, Types, Requests
  <2>2. /\ Elems(req.todo) = {Head(req.todo)} \cup Elems(Tail(req.todo)) /\ Head(req.todo) \in Readings
    BY <2>1, TailIs
  <2>3. InDatabase' = InDatabase \cup {Head(req.todo)}
    BY <2>1, <2>2, Inserted, Parts
  <2>4. NothingDropped'
    BY <1>0, <2>1, <2>3, Frames DEF NothingDropped
  <2> QED
    BY <1>0, <2>1, <2>2, <2>3, <2>4, Frames
<1>10. CASE IngestDone
  <2>1. /\ UNCHANGED <<chan, dpc, batch, backlog, spool, stored, emitted, lost>>
        /\ req.todo = <<>> /\ req.todo \in Seq(Readings)
        /\ req.state = "running" /\ req'.state = "ok"
    BY <1>10, Parts DEF IngestDone, gateway, history, Types, Requests
  <2>2. Elems(req.todo) = {}
    BY <2>1, ReadingsAreLines
  <2>3. dpc # "clear"
    BY <2>1 DEF Types
  <2> QED
    BY <1>0, <2>1, <2>2, <2>3, Frames DEF NothingDropped
<1>11. CASE IngestFails
  <2>1. /\ UNCHANGED <<chan, dpc, batch, backlog, spool, stored, emitted, lost>>
        /\ req'.state = "error"
    BY <1>11 DEF IngestFails, gateway, history, Types, Requests
  <2> QED
    BY <1>0, <2>1, Frames DEF NothingDropped
<1>12. CASE OrphanStep
  <2>1. UNCHANGED <<chan, dpc, batch, backlog, req, spool, emitted, lost>>
    BY <1>12 DEF OrphanStep, gateway, delivery, history
  <2>2. InDatabase \subseteq InDatabase'
    <3>1. PICK todo \in orphans : (todo # <<>> /\ Insert(Head(todo))) \/ UNCHANGED stored
      BY <1>12 DEF OrphanStep
    <3>2. CASE UNCHANGED stored
      BY <3>2, Frames
    <3>3. CASE todo # <<>> /\ Insert(Head(todo))
      <4>1. Head(todo) \in Readings
        BY <3>3, TailIs, Parts
      <4> QED
        BY <3>3, <4>1, Inserted, Parts
    <3> QED
      BY <3>1, <3>2, <3>3
  <2>3. NothingDropped'
    BY <1>0, <2>1, <2>2, Frames DEF NothingDropped
  <2> QED
    BY <1>0, <2>1, <2>2, <2>3, Frames
<1> QED
  BY <1>1, <1>2, <1>3, <1>4, <1>5, <1>6, <1>7, <1>8, <1>9, <1>10, <1>11, <1>12, Steps

-----------------------------------------------------------------------------
(* Gapless: no gap in the record of a sensor.                              *)

\* In the beginning nothing is emitted that could be missing.
LEMMA GaplessInit == Init => Gapless
<1> SUFFICES ASSUME Init PROVE Gapless
  OBVIOUS
<1>1. emitted = {} /\ orphans = {} /\ req.state = "none"
  BY DEF Init, NoRequest
<1> QED
  BY <1>1 DEF Gapless

\* A reading that was there or is newer than any emitted before leaves no gap.
LEMMA StillFits ==
  ASSUME Types, InDatabase \subseteq InDatabase',
         \A r \in emitted' \ lost' :
            r \in emitted \ lost \/ (r[2] \in Nat /\ \A s \in emitted : Older(s, r))
  PROVE  \A there : \A r \in emitted' \ lost', s \in emitted :
            (r \in emitted \ lost => Fits(r, s, InDatabase \cup there))
                => Fits(r, s, InDatabase' \cup there)
<1> SUFFICES ASSUME NEW there, NEW r \in emitted' \ lost', NEW s \in emitted,
                    r \in emitted \ lost => Fits(r, s, InDatabase \cup there)
             PROVE  Fits(r, s, InDatabase' \cup there)
  OBVIOUS
<1>1. CASE r \in emitted \ lost
  BY <1>1 DEF Fits
<1>2. CASE r[2] \in Nat /\ \A t \in emitted : Older(t, r)
  <2> SUFFICES ASSUME r[1] = s[1], r[2] < s[2] PROVE FALSE
    BY DEF Fits
  <2>1. s[2] < r[2] /\ s[2] \in Nat
    BY <1>2, Parts DEF Older, Readings
  <2> QED
    BY <1>2, <2>1
<1> QED
  BY <1>1, <1>2

\* Storing the first of a request's readings leaves no gap, and none in what follows.
LEMMA StoresInTurn ==
  ASSUME Types, NEW todo \in Seq(Readings), todo # <<>>, Sorted(todo), NoGapIn(todo),
         Insert(Head(todo)), UNCHANGED history,
         \A r, s \in emitted \ lost : stored[s] > 0 => Fits(r, s, InDatabase)
  PROVE  /\ \A r, s \in emitted' \ lost' : stored'[s] > 0 => Fits(r, s, InDatabase')
         /\ \A r \in emitted' \ lost', s \in Elems(Tail(todo)) :
                Fits(r, s, InDatabase' \cup Elems(Tail(todo)))
<1> DEFINE h == Head(todo)
           rest == Elems(Tail(todo))
<1>1. /\ h \in Readings /\ Elems(todo) = {h} \cup rest /\ rest \subseteq Readings
      /\ \A s \in rest : Older(h, s)
  BY TailIs, ReadingsAreLines
<1>2. /\ InDatabase' = InDatabase \cup {h}
      /\ \A s \in Readings : stored'[s] > 0 => stored[s] > 0 \/ s = h
  BY <1>1, Inserted, Parts
<1>3. emitted' = emitted /\ lost' = lost /\ emitted \subseteq Readings
  BY Parts DEF history
<1> HIDE DEF h, rest
<1>4. ASSUME NEW r \in emitted \ lost PROVE Fits(r, h, InDatabase')
  <2>1. Fits(r, h, InDatabase \cup {h} \cup rest)
    BY <1>1 DEF NoGapIn
  <2> SUFFICES ASSUME r[1] = h[1], r[2] < h[2], r \in rest PROVE FALSE
    BY <1>2, <2>1 DEF Fits
  <2>2. h[2] < r[2]
    BY <1>1 DEF Older
  <2>3. r[2] \in Nat /\ h[2] \in Nat
    BY <1>1, <1>3 DEF Readings
  <2> QED
    BY <2>2, <2>3
<1>5. ASSUME NEW r \in emitted \ lost, NEW s \in emitted \ lost, stored'[s] > 0
      PROVE  Fits(r, s, InDatabase')
  <2>1. CASE s = h
    BY <1>4, <2>1
  <2>2. CASE stored[s] > 0
    BY <1>2, <2>2 DEF Fits
  <2> QED
    BY <1>2, <1>3, <1>5, <2>1, <2>2
<1>6. ASSUME NEW r \in emitted \ lost, NEW s \in rest PROVE Fits(r, s, InDatabase' \cup rest)
  BY <1>1, <1>2 DEF NoGapIn, Fits
<1> QED
  BY <1>3, <1>5, <1>6 DEF h, rest

\* Every step keeps the record without gaps.
LEMMA GaplessNext ==
  ASSUME Types, Emitted, Ordered, Delivered, Gapless, [Next]_vars
  PROVE  Gapless'
<1> SUFFICES ASSUME SpoolWasReadable' PROVE
        /\ \A r, s \in emitted' \ lost' : stored'[s] > 0 => Fits(r, s, InDatabase')
        /\ req'.state = "running" =>
            \A r \in emitted' \ lost', s \in Elems(req'.todo) :
                Fits(r, s, InDatabase' \cup Elems(req'.todo))
        /\ \A todo \in orphans' : \A r \in emitted' \ lost', s \in Elems(todo) :
                Fits(r, s, InDatabase' \cup Elems(todo))
  BY DEF Gapless, NoGapIn
<1> DEFINE NoneNow == \A r, s \in emitted' \ lost' : stored'[s] > 0 => Fits(r, s, InDatabase')
           NoneIn(todo) == \A r \in emitted' \ lost', s \in Elems(todo) :
                                Fits(r, s, InDatabase' \cup Elems(todo))
<1>0. /\ \A r, s \in emitted \ lost : stored[s] > 0 => Fits(r, s, InDatabase)
      /\ req.state = "running" => NoGapIn(req.todo)
      /\ \A todo \in orphans : NoGapIn(todo)
      /\ NothingDropped
      /\ \A todo \in orphans : Elems(todo) \subseteq emitted
      /\ Elems(req.todo) \subseteq emitted
      /\ \A r \in Readings : stored[r] > 0 => r \in emitted
      /\ InFlight = Elems(batch) \cup Queued /\ emitted \subseteq Readings
      /\ orphans \subseteq Seq(Readings) /\ req.todo \in Seq(Readings)
  BY Reads, Parts DEF Gapless, Delivered, Emitted
<1>1. ASSUME UNCHANGED stored, emitted' = emitted, lost \subseteq lost'
      PROVE  /\ NoneNow
             /\ \A todo \in orphans : NoneIn(todo)
             /\ req.state = "running" => NoneIn(req.todo)
  <2>1. InDatabase' = InDatabase /\ emitted' \ lost' \subseteq emitted \ lost
    BY <1>1, Frames
  <2>2. NoneNow
    BY <1>0, <1>1, <2>1
  <2>3. ASSUME NEW todo, NoGapIn(todo) PROVE NoneIn(todo)
    BY <2>1, <2>3 DEF NoGapIn
  <2> QED
    BY <1>0, <2>2, <2>3
<1>2. CASE (\E m \in Macs : Observe(m)) \/ Quiet
  <2>1. UNCHANGED <<req, stored, orphans, emitted, lost>>
    BY <1>2 DEF Observe, Quiet, delivery, history
  <2> QED
    BY <1>1, <2>1
<1>3. CASE Emits
  <2>1. /\ emitted' = emitted \cup Pending /\ lost \subseteq lost'
        /\ \A r \in emitted, s \in Pending : Older(r, s)
        /\ \A r \in Pending : r[2] \in Nat
        /\ UNCHANGED <<req, stored, orphans>>
    BY <1>3, ChanGrows, EmitDoes DEF Emits, delivery, Readings
  <2>2. \A r \in emitted' \ lost' :
            r \in emitted \ lost \/ (r[2] \in Nat /\ \A s \in emitted : Older(s, r))
    BY <2>1
  <2>3. InDatabase' = InDatabase
    BY <2>1, Frames
  <2>4. ASSUME NEW there, NEW r \in emitted' \ lost', NEW s \in emitted,
               r \in emitted \ lost => Fits(r, s, InDatabase \cup there)
        PROVE  Fits(r, s, InDatabase' \cup there)
    BY <2>2, <2>3, <2>4, StillFits
  <2>5. ASSUME NEW todo, NoGapIn(todo), Elems(todo) \subseteq emitted PROVE NoneIn(todo)
    BY <2>4, <2>5 DEF NoGapIn
  <2>6. NoneNow
    <3> SUFFICES ASSUME NEW r \in emitted' \ lost', NEW s \in emitted' \ lost', stored'[s] > 0
                 PROVE  Fits(r, s, InDatabase')
      OBVIOUS
    <3>1. Pending \subseteq Readings
      BY <1>3, EmitDoes DEF Emits
    <3>2. s \in emitted /\ stored[s] > 0 /\ s \notin lost
      BY <1>0, <2>1, <3>1
    <3>3. r \in emitted \ lost => Fits(r, s, InDatabase \cup {})
      BY <1>0, <3>2 DEF Fits
    <3>4. Fits(r, s, InDatabase' \cup {})
      BY <2>4, <3>2, <3>3
    <3> QED
      BY <3>4 DEF Fits
  <2> QED
    BY <1>0, <2>1, <2>5, <2>6
<1>4. CASE Receive \/ ReceiveWithReadError
  <2>1. PICK recs : Read(recs) /\ Deliver(recs)
    BY <1>4, Receives
  <2>2. /\ InFlight' = InFlight /\ Elems(req'.todo) = Elems(recs) \cup Elems(batch')
        /\ \A r \in Elems(batch'), s \in Queued' : Older(r, s)
    BY <2>1, DeliverDoes
  <2>3. Elems(recs) = Spooled /\ UNCHANGED <<spool, stored, orphans, emitted, lost>>
    BY <2>1 DEF Deliver, Read, history
  <2>4. NoneIn(req'.todo)
    <3> SUFFICES ASSUME NEW r \in emitted \ lost, NEW s \in Elems(req'.todo), r[1] = s[1], r[2] < s[2],
                        r \notin InDatabase, r \notin Elems(req'.todo)
                 PROVE  FALSE
      BY <2>3, Frames DEF Fits
    <3>1. r \in Queued'
      BY <1>0, <2>2, <2>3, Frames DEF NothingDropped
    <3>2. Older(s, r)
      <4>1. CASE s \in Elems(batch')
        BY <2>2, <3>1, <4>1
      <4>2. CASE s \in Spooled
        BY <2>2, <3>1, <4>2, Frames DEF Ordered
      <4> QED
        BY <2>2, <2>3, <4>1, <4>2
    <3>3. s \in Readings
      <4>1. InFlight \subseteq emitted /\ Spooled \subseteq emitted
        BY DEF Emitted
      <4> QED
        BY <1>0, <2>2, <2>3, <4>1, Frames
    <3>4. s[2] < r[2] /\ s[2] \in Nat /\ r[2] \in Nat
      BY <1>0, <3>2, <3>3 DEF Older, Readings
    <3> QED
      BY <3>4
  <2> QED
    BY <1>1, <2>3, <2>4
<1>5. CASE Accepted \/ Clear
  <2>1. /\ UNCHANGED <<stored, orphans, emitted, lost>>
        /\ req' = req \/ req'.state = "none"
    BY <1>5, DoneDoes DEF Accepted, Clear, history
  <2> QED
    BY <1>1, <2>1
<1>6. ASSUME NEW todo \in Orphaned, UNCHANGED stored, emitted' = emitted, lost \subseteq lost'
      PROVE  NoneIn(todo)
  BY <1>1, <1>6, OrphanedIs
<1>7. CASE SendFails
  <2>1. /\ UNCHANGED <<stored, emitted, lost>> /\ orphans' = Orphaned /\ req'.state = "none"
    BY <1>7 DEF SendFails, history, NoRequest
  <2> QED
    BY <1>1, <1>6, <2>1
<1>8. CASE SpoolBatch
  <2>1. /\ UNCHANGED <<stored, emitted, orphans>> /\ lost \subseteq lost' /\ req'.state = "none"
    BY <1>8, DoneDoes DEF SpoolBatch
  <2> QED
    BY <1>1, <2>1
<1>9. CASE Crash
  <2>1. /\ UNCHANGED <<stored, emitted>> /\ lost \subseteq lost' /\ orphans' = Orphaned
        /\ req'.state = "none"
    BY <1>9, DoneDoes DEF Crash
  <2> QED
    BY <1>1, <1>6, <2>1
<1>10. ASSUME InDatabase \subseteq InDatabase', UNCHANGED history, NEW todo, NoGapIn(todo)
       PROVE  NoneIn(todo)
  BY <1>10 DEF NoGapIn, Fits, history
<1>11. CASE IngestNext
  <2>1. /\ UNCHANGED <<orphans, emitted, lost>>
        /\ req.todo \in Seq(Readings) /\ req.todo # <<>> /\ Insert(Head(req.todo))
        /\ req'.todo = Tail(req.todo) /\ req.state = "running"
    BY <1>11, Parts DEF IngestNext, gateway, history, Types, Requests
  <2>2. NoneNow /\ NoneIn(Tail(req.todo))
    BY <1>0, <2>1, StoresInTurn DEF history, Ordered
  <2>3. InDatabase \subseteq InDatabase'
    BY <2>1, TailIs, Inserted, Parts
  <2> QED
    BY <1>0, <1>10, <2>1, <2>2, <2>3 DEF history
<1>12. CASE IngestDone \/ IngestFails
  <2>1. UNCHANGED <<orphans, stored, emitted, lost>> /\ req'.state # "running"
    BY <1>12 DEF IngestDone, IngestFails, history, Types, Requests
  <2> QED
    BY <1>1, <2>1
<1>13. CASE OrphanStep
  <2>1. PICK todo \in orphans :
            \/ /\ todo # <<>> /\ Insert(Head(todo))
               /\ orphans' = (orphans \ {todo}) \cup {Tail(todo)}
            \/ orphans' = orphans \ {todo} /\ UNCHANGED stored
    BY <1>13 DEF OrphanStep
  <2>2. UNCHANGED <<req, emitted, lost>>
    BY <1>13 DEF OrphanStep, delivery, history
  <2>3. CASE orphans' = orphans \ {todo} /\ UNCHANGED stored
    BY <1>1, <2>2, <2>3
  <2>4. CASE /\ todo # <<>> /\ Insert(Head(todo))
             /\ orphans' = (orphans \ {todo}) \cup {Tail(todo)}
    <3>1. todo \in Seq(Readings) /\ Sorted(todo)
      BY <1>0 DEF Ordered
    <3>2. NoneNow /\ NoneIn(Tail(todo))
      BY <1>0, <2>2, <2>4, <3>1, StoresInTurn DEF history
    <3>3. InDatabase \subseteq InDatabase'
      BY <2>4, <3>1, TailIs, Inserted, Parts
    <3> QED
      BY <1>0, <1>10, <2>2, <2>4, <3>2, <3>3 DEF history
  <2> QED
    BY <2>1, <2>3, <2>4
<1> QED
  BY <1>2, <1>3, <1>4, <1>5, <1>7, <1>8, <1>9, <1>11, <1>12, <1>13, Steps

-----------------------------------------------------------------------------
(* CopiesCounted: a second row takes a failure.                            *)

\* A failed request, file operation or crash counts one.
LEMMA Fails ==
  ASSUME Types
  PROVE  /\ Failures \in Nat /\ (UNCHANGED budget => Failures' = Failures)
         /\ \A what \in {"net", "disk", "crash"} : Spend(what) => Failures' = Failures + 1
<1>1. budget \in Budget
  BY DEF Types
<1>2. Failures \in Nat
  BY <1>1, ConstantsOK DEF Budget, Failures, ConstantsOK
<1>3. ASSUME NEW what \in {"net", "disk", "crash"}, Spend(what) PROVE Failures' = Failures + 1
  <2>1. what \in What /\ "net" \in What /\ "disk" \in What /\ "crash" \in What
    BY DEF What
  <2>2. /\ budget'[what] = budget[what] - 1
        /\ \A x \in What : x # what => budget'[x] = budget[x]
    BY <1>1, <1>3, <2>1, Spent
  <2>3. budget.net \in Nat /\ budget.disk \in Nat /\ budget.crash \in Nat
    BY <1>1, ConstantsOK DEF Budget, ConstantsOK
  <2>4. {MaxNetErrors, MaxDiskErrors, MaxCrashes} \subseteq Nat
    BY ConstantsOK DEF ConstantsOK
  <2>5. CASE what = "net"
    BY <2>1, <2>2, <2>3, <2>4, <2>5 DEF Failures
  <2>6. CASE what = "disk"
    BY <2>1, <2>2, <2>3, <2>4, <2>6 DEF Failures
  <2>7. CASE what = "crash"
    BY <2>1, <2>2, <2>3, <2>4, <2>7 DEF Failures
  <2> QED
    BY <2>5, <2>6, <2>7
<1>4. UNCHANGED budget => Failures' = Failures
  BY DEF Failures
<1> QED
  BY <1>2, <1>3, <1>4

\* The requests that hold a reading can be counted.
LEMMA HeldIs ==
  ASSUME Types
  PROVE  \A r : /\ IsFiniteSet(Held(r)) /\ Cardinality(Held(r)) \in Nat
                /\ \A todo : /\ IsFiniteSet(Held(r) \cup {todo})
                             /\ Cardinality(Held(r) \cup {todo}) <= Cardinality(Held(r)) + 1
                             /\ todo \in Held(r) =>
                                    Cardinality(Held(r) \ {todo}) = Cardinality(Held(r)) - 1
<1> SUFFICES ASSUME NEW r, NEW todo
             PROVE  /\ IsFiniteSet(Held(r)) /\ Cardinality(Held(r)) \in Nat
                    /\ IsFiniteSet(Held(r) \cup {todo})
                    /\ Cardinality(Held(r) \cup {todo}) <= Cardinality(Held(r)) + 1
                    /\ todo \in Held(r) => Cardinality(Held(r) \ {todo}) = Cardinality(Held(r)) - 1
  OBVIOUS
<1>1. IsFiniteSet(Held(r))
  <2>1. IsFiniteSet(orphans) /\ Held(r) \in SUBSET orphans
    BY Parts DEF Held
  <2> QED
    BY <2>1, FS_Subset
<1>2. Cardinality(Held(r)) \in Nat
  BY <1>1, FS_CardinalityType
<1>3. /\ IsFiniteSet(Held(r) \cup {todo})
      /\ Cardinality(Held(r) \cup {todo}) <= Cardinality(Held(r)) + 1
  <2>1. /\ IsFiniteSet(Held(r) \cup {todo})
        /\ Cardinality(Held(r) \cup {todo}) =
              IF todo \in Held(r) THEN Cardinality(Held(r)) ELSE Cardinality(Held(r)) + 1
    BY <1>1, FS_AddElement
  <2> QED
    BY <1>2, <2>1
<1>4. todo \in Held(r) => Cardinality(Held(r) \ {todo}) = Cardinality(Held(r)) - 1
  <2>1. Cardinality(Held(r) \ {todo}) =
            IF todo \in Held(r) THEN Cardinality(Held(r)) - 1 ELSE Cardinality(Held(r))
    BY <1>1, FS_RemoveElement
  <2> QED
    BY <2>1
<1> QED
  BY <1>1, <1>2, <1>3, <1>4

\* Once a reading is stored from a request, nothing else will post it again.
LEMMA StoredIsDone ==
  ASSUME Types, Emitted, Ordered, req.state = "running", NEW r \in Elems(req.todo)
  PROVE  /\ Alive(r) /\ r \in emitted /\ r \notin Queued /\ r \notin Spooled \ Elems(backlog)
         /\ dpc = "wait"
<1>1. /\ InFlight = Elems(batch) \cup Queued /\ emitted \subseteq Readings
      /\ r \in Elems(backlog) \cup Elems(batch) /\ Elems(backlog) \subseteq Spooled
      /\ Spooled \subseteq emitted /\ InFlight \subseteq emitted
  BY Parts DEF Emitted
<1>2. r \in emitted /\ r[2] \in Nat
  BY <1>1 DEF Readings
<1>3. ~Older(r, r)
  BY <1>2 DEF Older
<1>4. dpc = "wait"
  <2>1. req # NoRequest
    BY DEF NoRequest
  <2> QED
    BY <2>1 DEF Types, TypeOK
<1>5. r \notin Queued
  BY <1>1, <1>3 DEF Ordered
<1>6. r \notin Spooled \ Elems(backlog)
  BY <1>1, <1>3 DEF Ordered
<1>7. Alive(r)
  BY <1>4 DEF Alive
<1> QED
  BY <1>2, <1>4, <1>5, <1>6, <1>7

\* No rows yet, and each reading will be posted once.
LEMMA CopiesInit == Init => CopiesCounted
<1> SUFFICES ASSUME Init, NEW r \in Readings
             PROVE  stored[r] + Cardinality(Held(r)) + (IF Alive(r) THEN 1 ELSE 0) <= 1 + Failures
  BY DEF CopiesCounted
<1>1. stored[r] = 0 /\ Held(r) = {}
  BY DEF Init, Held
<1>2. Cardinality(Held(r)) = 0
  BY <1>1, FS_EmptySet
<1>3. Failures \in Nat
  BY TypesInit, Fails
<1> QED
  BY <1>1, <1>2, <1>3

\* Every step keeps the count.
LEMMA CopiesNext ==
  ASSUME Types, Emitted, Ordered, CopiesCounted, [Next]_vars
  PROVE  CopiesCounted'
<1> SUFFICES ASSUME NEW r \in Readings
             PROVE  (stored[r] + Cardinality(Held(r)) + (IF Alive(r) THEN 1 ELSE 0) <= 1 + Failures)'
  BY DEF CopiesCounted
<1> DEFINE Goal == stored[r] + Cardinality(Held(r)) + (IF Alive(r) THEN 1 ELSE 0) <= 1 + Failures
           H == Held(r)
           N == Cardinality(Held(r))
<1>0. /\ Goal /\ stored[r] \in Nat /\ Failures \in Nat /\ N \in Nat
      /\ stored \in [Readings -> Nat]
      /\ InFlight = Elems(batch) \cup Queued
  BY Parts, Fails, HeldIs DEF CopiesCounted
<1>1. ASSUME UNCHANGED <<stored, orphans>>, Failures' = Failures, Alive(r)' => Alive(r)
      PROVE  Goal'
  <2>1. Held(r)' = Held(r)
    BY <1>1 DEF Held
  <2> QED
    BY <1>0, <1>1, <2>1
<1>2. ASSUME UNCHANGED <<stored, orphans>>, Failures' = Failures + 1
      PROVE  Goal'
  <2>1. Held(r)' = Held(r)
    BY <1>2 DEF Held
  <2> QED
    BY <1>0, <1>2, <2>1
<1>3. CASE (\E m \in Macs : Observe(m)) \/ Quiet
  <2>1. UNCHANGED <<chan, dpc, batch, backlog, req, spool, orphans, stored, emitted>>
    BY <1>3 DEF Observe, Quiet, delivery, history
  <2>2. Failures' = Failures
    BY <1>3 DEF Observe, Quiet, Failures, What
  <2>3. Alive(r)' => Alive(r)
    BY <2>1, Frames DEF Alive
  <2> QED
    BY <1>1, <2>1, <2>2, <2>3
<1>4. CASE Emits
  <2>1. /\ UNCHANGED <<dpc, batch, backlog, req, spool, orphans, stored, budget>>
        /\ emitted' = emitted \cup Pending /\ Queued' \subseteq Queued \cup Pending
        /\ \A s \in emitted, t \in Pending : s # t
    BY <1>4, ChanGrows, EmitDoes DEF Emits, delivery
  <2>2. Alive(r)' => Alive(r)
    BY <2>1, Frames DEF Alive
  <2> QED
    BY <1>1, <2>1, <2>2, Fails
<1>5. CASE Receive \/ ReceiveWithReadError
  <2>1. PICK recs : Read(recs) /\ Deliver(recs)
    BY <1>5, Receives
  <2>2. /\ Queued' \subseteq Queued /\ Elems(batch') \subseteq Queued
        /\ Elems(req'.todo) = Elems(recs) \cup Elems(batch') /\ req'.state = "running"
    BY <2>1, DeliverDoes
  <2>3. /\ dpc = "recv" /\ dpc' = "wait" /\ UNCHANGED <<spool, stored, orphans, emitted>>
        /\ Elems(recs) \subseteq Spooled
    BY <2>1 DEF Deliver, Read, history
  <2>4. Alive(r)' => Alive(r)
    BY <2>2, <2>3, Frames DEF Alive
  <2> QED
    BY <1>1, <1>5, <2>3, <2>4, Receives
<1>6. CASE Accepted
  <2>1. /\ UNCHANGED <<chan, spool, stored, orphans, budget, emitted>>
        /\ dpc = "wait" /\ req.state = "ok"
    BY <1>6 DEF Accepted, gateway, history
  <2>2. CASE NeedsClear
    <3>1. dpc' = "clear" /\ UNCHANGED <<batch, backlog, req>>
      BY <1>6, <2>2 DEF Accepted
    <3>2. Alive(r)' => Alive(r)
      BY <2>1, <3>1, Frames DEF Alive
    <3> QED
      BY <1>1, <2>1, <3>2, Fails
  <2>3. CASE ~NeedsClear
    <3>1. Done /\ Elems(backlog) = {}
      BY <1>6, <2>3, Parts, ReadingsAreLines DEF Accepted, NeedsClear
    <3>2. Alive(r)' => Alive(r)
      BY <2>1, <3>1, Frames, DoneDoes DEF Alive
    <3> QED
      BY <1>1, <2>1, <3>2, Fails
  <2> QED
    BY <2>2, <2>3
<1>7. CASE Clear
  <2>1. UNCHANGED <<chan, stored, orphans, emitted>> /\ Done
    BY <1>7 DEF Clear, gateway, history
  <2>2. CASE spool' = EmptySpool /\ UNCHANGED budget
    <3>1. Spooled' = {}
      BY <2>2, EmptyIs DEF Spooled
    <3>2. Alive(r)' => Alive(r)
      BY <2>1, <3>1, Frames, DoneDoes DEF Alive
    <3> QED
      BY <1>1, <2>1, <2>2, <3>2, Fails
  <2>3. CASE Spend("disk")
    BY <1>2, <2>1, <2>3, Fails
  <2> QED
    BY <1>7, <2>2, <2>3 DEF Clear
<1>8. ASSUME UNCHANGED stored, orphans' = Orphaned, Failures' = Failures + 1
      PROVE  Goal'
  <2>1. Held(r)' = {todo \in orphans' : r \in Elems(todo)}
    BY DEF Held
  <2>2. CASE req.state = "running" /\ r \in Elems(req.todo)
    <3>1. Held(r)' = Held(r) \cup {req.todo}
      BY <1>8, <2>1, <2>2 DEF Held, Orphaned
    <3>2. Cardinality(Held(r)') <= N + 1 /\ Cardinality(Held(r)') \in Nat
      <4>1. IsFiniteSet(Held(r)') /\ Cardinality(Held(r)') <= N + 1
        BY <3>1, HeldIs
      <4> QED
        BY <4>1, FS_CardinalityType
    <3>3. Alive(r)
      BY <2>2, StoredIsDone
    <3> QED
      BY <1>0, <1>8, <3>2, <3>3
  <2>3. CASE ~(req.state = "running" /\ r \in Elems(req.todo))
    <3>1. Held(r)' = Held(r)
      BY <1>8, <2>1, <2>3 DEF Held, Orphaned
    <3> QED
      BY <1>0, <1>8, <3>1
  <2> QED
    BY <2>2, <2>3
<1>9. CASE SendFails
  <2>1. /\ UNCHANGED <<chan, batch, spool, stored, emitted>> /\ dpc = "wait" /\ dpc' = "spool"
        /\ orphans' = Orphaned
    BY <1>9 DEF SendFails, gateway, history
  <2>2. CASE req.state = "error"
    <3>1. UNCHANGED <<orphans, budget>>
      BY <1>9, <2>2 DEF SendFails, Orphaned
    <3>2. Alive(r)' => Alive(r)
      BY <2>1, <2>2, Frames DEF Alive
    <3> QED
      BY <1>1, <2>1, <3>1, <3>2, Fails
  <2>3. CASE req.state # "error"
    BY <1>8, <1>9, <2>1, <2>3, Fails DEF SendFails
  <2> QED
    BY <2>2, <2>3
<1>10. CASE SpoolBatch
  <2>1. UNCHANGED <<chan, stored, orphans, emitted>> /\ Done /\ dpc = "spool"
    BY <1>10 DEF SpoolBatch, gateway
  <2>2. CASE UNCHANGED budget
    <3>1. Spooled' \subseteq Spooled \cup Elems(batch)
      BY <1>10, SpoolWritten DEF SpoolBatch
    <3>2. Alive(r)' => Alive(r)
      BY <2>1, <3>1, Frames, DoneDoes DEF Alive
    <3> QED
      BY <1>1, <2>1, <2>2, <3>2, Fails
  <2>3. CASE Spend("disk")
    BY <1>2, <2>1, <2>3, Fails
  <2> QED
    BY <1>10, <2>2, <2>3 DEF SpoolBatch
<1>11. CASE Crash
  BY <1>8, <1>11, Fails DEF Crash
<1>12. CASE IngestNext
  <2> DEFINE h == Head(req.todo)
  <2>1. /\ UNCHANGED <<chan, dpc, batch, backlog, spool, orphans, budget, emitted>>
        /\ req.todo \in Seq(Readings) /\ req.todo # <<>> /\ Insert(h)
        /\ req'.todo = Tail(req.todo) /\ req.state = "running" /\ req'.state = "running"
    BY <1>12, Parts DEF IngestNext, gateway, history, Types, Requests
  <2>2. /\ h \in Readings /\ Elems(req.todo) = {h} \cup Elems(Tail(req.todo))
        /\ h \notin Elems(Tail(req.todo))
    BY <2>1, TailIs DEF Ordered
  <2>3. Held(r)' = Held(r) /\ Failures' = Failures
    BY <2>1, Fails DEF Held
  <2>4. /\ stored' \in [Readings -> Nat] /\ stored'[h] <= stored[h] + 1
        /\ \A s \in Readings : s # h => stored'[s] = stored[s]
    BY <1>0, <2>1, <2>2, Inserted
  <2>5. h \in Elems(req.todo)
    BY <2>2
  <2> HIDE DEF h
  <2>6. CASE r = h
    <3>1. /\ Alive(r) /\ r \in emitted /\ r \notin Queued /\ r \notin Spooled \ Elems(backlog)
          /\ dpc = "wait"
      BY <2>1, <2>5, <2>6, StoredIsDone
    <3>2. ~(Alive(r)')
      BY <2>1, <2>2, <2>6, <3>1, Frames DEF Alive
    <3>3. stored'[r] <= stored[r] + 1 /\ stored'[r] \in Nat
      BY <2>4, <2>6
    <3> QED
      BY <1>0, <2>3, <3>1, <3>2, <3>3
  <2>7. CASE r # h
    <3>1. Alive(r)' => Alive(r)
      BY <2>1, <2>2, <2>7, Frames DEF Alive
    <3> QED
      BY <1>0, <2>3, <2>4, <2>7, <3>1
  <2> QED
    BY <2>6, <2>7
<1>13. CASE IngestDone
  <2>1. /\ UNCHANGED <<chan, dpc, batch, backlog, spool, stored, orphans, budget, emitted>>
        /\ req.state = "running" /\ req'.state = "ok"
    BY <1>13 DEF IngestDone, gateway, history, Types, Requests
  <2>2. Alive(r)' => Alive(r)
    BY <2>1, Frames DEF Alive
  <2> QED
    BY <1>1, <2>1, <2>2, Fails
<1>14. CASE IngestFails
  BY <1>2, <1>14, Fails DEF IngestFails
<1>15. CASE OrphanStep
  <2>1. PICK todo \in orphans :
            \/ /\ todo # <<>> /\ Insert(Head(todo))
               /\ orphans' = (orphans \ {todo}) \cup {Tail(todo)}
            \/ orphans' = orphans \ {todo} /\ UNCHANGED stored
    BY <1>15 DEF OrphanStep
  <2>2. /\ UNCHANGED <<chan, dpc, batch, backlog, req, spool, budget, emitted>>
    BY <1>15 DEF OrphanStep, gateway, delivery, history
  <2>3. Failures' = Failures /\ (Alive(r)' => Alive(r))
    BY <2>2, Frames, Fails DEF Alive
  <2>4. Held(r)' = {t \in orphans' : r \in Elems(t)}
    BY DEF Held
  <2>5. CASE orphans' = orphans \ {todo} /\ UNCHANGED stored
    <3>1. Held(r)' \in SUBSET Held(r) /\ IsFiniteSet(Held(r))
      BY <2>4, <2>5, HeldIs DEF Held
    <3>2. /\ IsFiniteSet(Held(r)') /\ Cardinality(Held(r)') <= N
      BY <3>1, FS_Subset
    <3>3. Cardinality(Held(r)') \in Nat
      BY <3>2, FS_CardinalityType
    <3> QED
      BY <1>0, <2>3, <2>5, <3>2, <3>3
  <2>6. CASE /\ todo # <<>> /\ Insert(Head(todo))
             /\ orphans' = (orphans \ {todo}) \cup {Tail(todo)}
    <3> DEFINE h == Head(todo)
    <3>1. /\ h \in Readings /\ Elems(todo) = {h} \cup Elems(Tail(todo))
          /\ h \notin Elems(Tail(todo))
      BY <2>6, TailIs, Parts DEF Ordered
    <3>2. /\ stored' \in [Readings -> Nat] /\ stored'[h] <= stored[h] + 1
          /\ \A s \in Readings : s # h => stored'[s] = stored[s]
      BY <1>0, <2>6, <3>1, Inserted
    <3> HIDE DEF h
    <3>3. CASE r = h
      <4>1. Held(r)' = Held(r) \ {todo} /\ todo \in Held(r)
        BY <2>4, <2>6, <3>1, <3>3 DEF Held
      <4>2. Cardinality(Held(r)') = N - 1
        BY <4>1, HeldIs
      <4>3. stored'[r] <= stored[r] + 1 /\ stored'[r] \in Nat
        BY <3>2, <3>3
      <4> QED
        BY <1>0, <2>3, <4>2, <4>3
    <3>4. CASE r # h
      <4>1. CASE r \notin Elems(todo)
        <5>1. Held(r)' = Held(r)
          BY <2>4, <2>6, <3>1, <4>1 DEF Held
        <5> QED
          BY <1>0, <2>3, <3>2, <3>4, <5>1
      <4>2. CASE r \in Elems(todo)
        <5> DEFINE rest == Held(r) \ {todo}
        <5>1. Held(r)' = rest \cup {Tail(todo)} /\ todo \in Held(r)
          BY <2>4, <2>6, <3>1, <3>4, <4>2 DEF Held
        <5>2. IsFiniteSet(rest) /\ Cardinality(rest) = N - 1
          <6>1. IsFiniteSet(Held(r)) /\ Cardinality(rest) = N - 1
            BY <5>1, HeldIs
          <6> QED
            BY <6>1, FS_RemoveElement
        <5> HIDE DEF rest
        <5>3. Cardinality(Held(r)') =
                IF Tail(todo) \in rest THEN Cardinality(rest) ELSE Cardinality(rest) + 1
          BY <5>1, <5>2, FS_AddElement
        <5>4. Cardinality(Held(r)') <= N /\ Cardinality(Held(r)') \in Int
          BY <1>0, <5>2, <5>3
        <5> QED
          BY <1>0, <2>3, <3>2, <3>4, <5>4
      <4> QED
        BY <4>1, <4>2
    <3> QED
      BY <3>3, <3>4
  <2> QED
    BY <2>1, <2>5, <2>6
<1> QED
  BY <1>3, <1>4, <1>5, <1>6, <1>7, <1>9, <1>10, <1>11, <1>12, <1>13, <1>14, <1>15, Steps

-----------------------------------------------------------------------------
(* The properties.                                                         *)

\* What a write that succeeds costs is older than what it leaves.
LEMMA OldestTrimmed ==
  ASSUME Types, Ordered, ~spool.torn, spool' = Trimmed(Written(spool, batch))
  PROVE  \A r \in Missing, s \in Spooled' : Older(r, s)
<1> DEFINE w == Written(spool, batch)
           all == Records(w.lines)
           n == Len(all)
           first == n - SpoolMax + 1
<1>1. /\ Good(spool) /\ batch \in Seq(Readings) /\ Sorted(batch)
      /\ Elems(spool.lines) \ {Garbage} = Spooled /\ Elems(batch) \subseteq InFlight
  BY Parts DEF Good, Types, Ordered
<1>2. \A r \in Elems(spool.lines) \ {Garbage}, s \in Elems(batch) : Older(r, s)
  BY <1>1 DEF Ordered
<1>3. batch \in Seq(Lines) /\ Elems(batch) \ {Garbage} = Elems(batch)
  BY <1>1, ReadingsAreLines
<1>4. w.lines \in Seq(Lines) /\ Sorted(w.lines)
  BY <1>1, <1>2, <1>3, WrittenIs DEF Good, Files
<1>5. Elems(all) = Spooled \cup Elems(batch)
  BY <1>1, Appended DEF Spooled
<1> HIDE DEF w
<1>6. /\ all \in Seq(Readings) /\ Sorted(all) /\ n \in Nat /\ DOMAIN all = 1 .. n
      /\ Whole(all) = DOMAIN all
  BY <1>4, RecordsAre, ReadingsAreLines
<1>7. CASE n <= SpoolMax
  <2>1. spool' = w
    BY <1>7 DEF Trimmed, w
  <2>2. Spooled' = Elems(all)
    BY <2>1 DEF Spooled
  <2> QED
    BY <1>5, <2>2 DEF Missing
<1>8. CASE ~(n <= SpoolMax)
  <2> DEFINE kept == SubSeq(all, first, n)
  <2>1. spool'.lines = kept
    BY <1>8 DEF Trimmed, w
  <2>2. first \in 1 .. n + 1 /\ n \in 0 .. n /\ SpoolMax \in Nat
    BY <1>6, <1>8, ConstantsOK DEF ConstantsOK
  <2> HIDE DEF all, first
  <2>3. kept \in Seq(Readings) /\ Elems(kept) = {all[i] : i \in first .. n}
    BY <1>6, <2>2, Stretch
  <2> HIDE DEF kept
  <2>4. Spooled' = {all[i] : i \in first .. n}
    <3>1. kept \in Seq(Lines) /\ Elems(kept) \ {Garbage} = Elems(kept)
      BY <2>3, ReadingsAreLines
    <3>2. Elems(Records(kept)) = Elems(kept)
      BY <3>1, RecordsAre
    <3> QED
      BY <2>1, <2>3, <3>2 DEF Spooled
  <2>5. ASSUME NEW r \in Missing, NEW s \in Spooled' PROVE Older(r, s)
    <3>1. PICK i \in 1 .. n : r = all[i]
      <4>1. r \in Elems(all)
        BY <1>5, <2>5 DEF Missing
      <4> QED
        BY <1>6, <4>1 DEF Elems
    <3>2. i \notin first .. n
      BY <2>4, <2>5, <3>1 DEF Missing
    <3>3. PICK j \in first .. n : s = all[j]
      BY <2>4
    <3>4. i \in DOMAIN all /\ j \in DOMAIN all /\ i < j
      BY <1>6, <2>2, <3>2
    <3> QED
      BY <1>6, <3>1, <3>3, <3>4 DEF Sorted
  <2> QED
    BY <2>5
<1> QED
  BY <1>7, <1>8

\* All of it together holds on from the beginning.
LEMMA AllAlways ==
  Spec => [](Types /\ Emitted /\ Ordered /\ Delivered /\ Gapless /\ CopiesCounted)
<1> DEFINE Inv == Types /\ Emitted /\ Ordered /\ Delivered /\ Gapless /\ CopiesCounted
<1>1. Init => Inv
  BY TypesInit, EmittedInit, OrderedInit, DeliveredInit, GaplessInit, CopiesInit
<1>2. Inv /\ [Next]_vars => Inv'
  BY TypesNext, EmittedNext, OrderedNext, DeliveredNext, GaplessNext, CopiesNext
<1> QED
  BY <1>1, <1>2, PTL DEF Spec

\* Every variable always has its type, and a batch is in hand whenever deliver is at work.
THEOREM ForwardTypeCorrect == Spec => []TypeOK
<1>1. Types => TypeOK
  BY DEF Types
<1> QED
  BY <1>1, AllAlways, PTL

\* A reading the sampler emitted is stored, on its way, or in the spool, whatever requests
\* fail and wherever the gateway crashes, unless channel, spool limit, disk or crash took it.
THEOREM OutagesDropNothing == Spec => []OnlyReadErrorsDrop
<1>1. Delivered => OnlyReadErrorsDrop
  BY DEF Delivered, OnlyReadErrorsDrop
<1> QED
  BY <1>1, AllAlways, PTL

\* In table and spool a sensor's readings come in the order of measurement, retries and
\* late handlers of abandoned requests included.
THEOREM OrderSurvives == Spec => []OrderKept
<1>1. Gapless => NoGap
  <2> SUFFICES ASSUME Gapless, SpoolWasReadable,
                      NEW r \in emitted \ lost, NEW s \in emitted \ lost,
                      r[1] = s[1], r[2] < s[2], stored[s] > 0
               PROVE  r \in InDatabase
    BY DEF NoGap
  <2> QED
    BY DEF Gapless, Fits
<1>2. Types /\ Ordered => SpoolOldestFirst
  <2> SUFFICES ASSUME Types, Ordered PROVE SpoolOldestFirst
    OBVIOUS
  <2>1. /\ Sorted(Records(spool.lines))
        /\ Whole(Records(spool.lines)) = DOMAIN Records(spool.lines)
    BY Parts, RecordsAre DEF Ordered
  <2>2. \A r \in Spooled, s \in InFlight : Older(r, s)
    BY DEF Ordered
  <2> QED
    BY <2>1, <2>2 DEF SpoolOldestFirst, Sorted, Older
<1> QED
  BY <1>1, <1>2, AllAlways, PTL DEF OrderKept

\* A reading has at most one row more than requests, file operations and crashes failed.
THEOREM RetriesAloneDuplicate == Spec => []DuplicatesNeedFailure
<1>1. Types /\ CopiesCounted => DuplicatesNeedFailure
  <2> SUFFICES ASSUME Types, CopiesCounted, NEW r \in Readings PROVE stored[r] <= 1 + Failures
    BY DEF DuplicatesNeedFailure
  <2>1. stored[r] \in Nat /\ Cardinality(Held(r)) \in Nat
    BY Parts, HeldIs
  <2>2. stored[r] + Cardinality(Held(r)) + (IF Alive(r) THEN 1 ELSE 0) <= 1 + Failures
    BY DEF CopiesCounted
  <2>3. Failures \in Nat
    BY Fails
  <2> QED
    BY <2>1, <2>2, <2>3
<1> QED
  BY <1>1, AllAlways, PTL

\* A write of a batch that succeeds costs only readings older than those of their sensor
\* that stay.
THEOREM OldestGoFirst == Spec => TrimKeepsNewest
<1>1. ASSUME Types, Ordered, [Next]_vars, SpoolBatch, budget' = budget, ~spool.torn
      PROVE  \A r \in Missing, s \in Spooled' : r[1] = s[1] => r[2] < s[2]
  <2>1. ~Spend("disk")
    <3> SUFFICES ASSUME Spend("disk") PROVE FALSE
      OBVIOUS
    <3>1. budget \in Budget /\ "disk" \in What
      BY <1>1 DEF Types, What
    <3>2. budget'["disk"] = budget["disk"] - 1 /\ budget["disk"] \in Nat
      BY <3>1, Spent, ConstantsOK DEF Budget, ConstantsOK
    <3> QED
      BY <1>1, <3>2
  <2>2. spool' = Trimmed(Written(spool, batch))
    BY <1>1, <2>1 DEF SpoolBatch
  <2> QED
    BY <1>1, <2>2, OldestTrimmed DEF Older
<1>2. Types /\ Ordered /\ [Next]_vars =>
        [SpoolBatch /\ budget' = budget /\ ~spool.torn =>
            \A r \in Missing, s \in Spooled' : r[1] = s[1] => r[2] < s[2]]_vars
  BY <1>1
<1> QED
  BY <1>2, AllAlways, PTL DEF Spec, TrimKeepsNewest

-----------------------------------------------------------------------------
(* What the gateway holds, and how much of it there is.                    *)

Kept == InFlight \cup Spooled

\* Readings can be counted.
LEMMA ReadingsFinite ==
  \A S : S \subseteq Readings => IsFiniteSet(S) /\ Cardinality(S) \in Nat
<1>1. IsFiniteSet(Macs) /\ MaxObs \in Int /\ 1 \in Int
  BY ConstantsOK DEF ConstantsOK
<1>2. IsFiniteSet(1 .. MaxObs)
  BY <1>1, FS_Interval
<1>3. IsFiniteSet(Readings)
  BY <1>1, <1>2, FS_Product DEF Readings
<1> SUFFICES ASSUME NEW S \in SUBSET Readings PROVE IsFiniteSet(S) /\ Cardinality(S) \in Nat
  OBVIOUS
<1>4. IsFiniteSet(S)
  BY <1>3, FS_Subset
<1> QED
  BY <1>4, FS_CardinalityType

\* There are n numbers from 1 to n.
LEMMA UpTo ==
  ASSUME NEW n \in Nat
  PROVE  IsFiniteSet(1 .. n) /\ Cardinality(1 .. n) = n
<1>1. 1 \in Int /\ n \in Int
  OBVIOUS
<1>2. IsFiniteSet(1 .. n) /\ Cardinality(1 .. n) = IF 1 > n THEN 0 ELSE n - 1 + 1
  BY <1>1, FS_Interval
<1> QED
  BY <1>2

\* No reading was measured before itself.
LEMMA NotBeforeItself == \A r \in Readings : ~Older(r, r)
  BY DEF Older, Readings

\* A sequence in the order of measurement lists as many readings as it is long.
LEMMA NoneTwice ==
  ASSUME NEW rs \in Seq(Readings), Sorted(rs)
  PROVE  Cardinality(Elems(rs)) = Len(rs)
<1>1. /\ Whole(rs) = DOMAIN rs /\ DOMAIN rs = 1 .. Len(rs) /\ Len(rs) \in Nat
      /\ Elems(rs) \subseteq Readings /\ \A i \in DOMAIN rs : rs[i] \in Readings /\ rs[i] \in Elems(rs)
  BY ReadingsAreLines
<1>2. ASSUME NEW i \in 1 .. Len(rs), NEW j \in 1 .. Len(rs), rs[i] = rs[j] PROVE i = j
  <2>1. ~(i < j) /\ ~(j < i)
    BY <1>1, <1>2, NotBeforeItself DEF Sorted
  <2> QED
    BY <1>1, <2>1
<1>3. rs \in [1 .. Len(rs) -> Elems(rs)]
  <2>1. rs \in [1 .. Len(rs) -> Readings]
    BY <1>1
  <2> QED
    BY <1>1, <2>1
<1>4. rs \in Surjection(1 .. Len(rs), Elems(rs))
  BY <1>1, <1>3 DEF Surjection, Elems
<1>5. rs \in Injection(1 .. Len(rs), Elems(rs))
  BY <1>2, <1>3 DEF Injection, IsInjective
<1>6. IsFiniteSet(1 .. Len(rs)) /\ Cardinality(1 .. Len(rs)) = Len(rs)
  BY <1>1, UpTo
<1> HIDE DEF Elems
<1> QED
  BY <1>4, <1>5, <1>6, FS_Surjection

\* A batch in the channel is a reading at least.
LEMMA ChanCounts ==
  ASSUME Types, Ordered
  PROVE  Len(chan) <= Cardinality(Queued)
<1> DEFINE f == [i \in 1 .. Len(chan) |-> chan[i][1]]
<1>1. /\ Len(chan) \in Nat /\ DOMAIN chan = 1 .. Len(chan) /\ Queued \subseteq Readings
      /\ \A i \in DOMAIN chan : chan[i] \in Seq(Readings) /\ chan[i] # <<>>
  BY Parts
<1>2. \A i \in 1 .. Len(chan) : f[i] \in Elems(chan[i]) /\ f[i] \in Queued
  <2> TAKE i \in 1 .. Len(chan)
  <2>1. chan[i] \in Seq(Readings) /\ chan[i] # <<>>
    BY <1>1
  <2>2. DOMAIN chan[i] = 1 .. Len(chan[i]) /\ Len(chan[i]) \in Nat /\ Len(chan[i]) # 0
    BY <2>1, EmptySeq, LenProperties
  <2>3. 1 \in DOMAIN chan[i]
    BY <2>2
  <2> QED
    BY <1>1, <2>3 DEF Elems, Queued
<1> HIDE DEF f
<1>3. ASSUME NEW i \in 1 .. Len(chan), NEW j \in 1 .. Len(chan), f[i] = f[j] PROVE i = j
  <2>1. f[i] \in Readings
    BY <1>1, <1>2
  <2>2. ~(i < j) /\ ~(j < i)
    BY <1>1, <1>2, <1>3, <2>1, NotBeforeItself DEF Ordered
  <2> QED
    BY <1>1, <2>2
<1>4. f \in [1 .. Len(chan) -> Queued]
  BY <1>2 DEF f
<1>5. f \in Injection(1 .. Len(chan), Queued)
  BY <1>3, <1>4 DEF Injection, IsInjective
<1>6. Cardinality(1 .. Len(chan)) = Len(chan)
  BY <1>1, UpTo
<1> QED
  BY <1>1, <1>5, <1>6, ReadingsFinite, FS_Injection

\* Spool and batch are apart, and so is what waits in the channel.
LEMMA Apart ==
  ASSUME Types, Emitted, Ordered
  PROVE  /\ Kept \subseteq Readings /\ Kept = Elems(batch) \cup Queued \cup Spooled
         /\ Spooled \cap InFlight = {} /\ Elems(batch) \cap Queued = {}
         /\ Len(Records(spool.lines)) + Len(batch) <= Cardinality(Kept)
         /\ Cardinality(Queued) <= Cardinality(Kept) /\ Cardinality(Kept) \in Nat
<1>1. /\ InFlight = Elems(batch) \cup Queued /\ Spooled \subseteq Readings
      /\ InFlight \subseteq Readings /\ batch \in Seq(Readings)
  BY Parts, Frames DEF Emitted, Types, TypeOK
<1>2. Kept \subseteq Readings /\ Kept = Elems(batch) \cup Queued \cup Spooled
  BY <1>1 DEF Kept
<1>3. Spooled \cap InFlight = {} /\ Elems(batch) \cap Queued = {}
  BY <1>1, NotBeforeItself DEF Ordered
<1>4. Records(spool.lines) \in Seq(Readings) /\ Sorted(Records(spool.lines))
  BY Parts, RecordsAre DEF Ordered
<1>5. /\ Cardinality(Spooled) = Len(Records(spool.lines))
      /\ Cardinality(Elems(batch)) = Len(batch)
  BY <1>1, <1>4, NoneTwice DEF Ordered, Spooled
<1> HIDE DEF Spooled
<1> DEFINE both == Spooled \cup Elems(batch)
<1>6. Cardinality(both) = Len(Records(spool.lines)) + Len(batch)
  <2>1. IsFiniteSet(Spooled) /\ IsFiniteSet(Elems(batch)) /\ Elems(batch) \subseteq InFlight
    BY <1>1, ReadingsFinite
  <2>2. Spooled \cap Elems(batch) = {}
    BY <1>3, <2>1
  <2>3. Cardinality(both) = Cardinality(Spooled) + Cardinality(Elems(batch))
                                - Cardinality(Spooled \cap Elems(batch))
    BY <2>1, FS_Union
  <2>4. Cardinality(Spooled) \in Nat /\ Cardinality(Elems(batch)) \in Nat
    BY <2>1, FS_CardinalityType
  <2>5. Cardinality(Spooled \cap Elems(batch)) = 0
    BY <2>2, FS_EmptySet
  <2> QED
    BY <1>5, <2>3, <2>4, <2>5
<1>7. both \in SUBSET Kept /\ Queued \in SUBSET Kept
  BY <1>1 DEF Kept
<1>8. IsFiniteSet(Kept) /\ Cardinality(Kept) \in Nat
  BY <1>2, ReadingsFinite
<1>9. Cardinality(both) <= Cardinality(Kept) /\ Cardinality(Queued) <= Cardinality(Kept)
  BY <1>7, <1>8, FS_Subset
<1> HIDE DEF both
<1> QED
  BY <1>2, <1>3, <1>6, <1>8, <1>9

-----------------------------------------------------------------------------
(* Custody, step by step.                                                  *)

\* What has arrived is in the database, or is ignored by it.
LEMMA ArrivedIs == Keeper!Arrived = InDatabase
  BY DEF Keeper!Arrived, InDatabase

\* The keeper counts as we do.
LEMMA CountedAlike == \A S : Keeper!Cardinality(S) = Cardinality(S)
  BY DEF Keeper!Cardinality, Cardinality

\* A step that leaves alone what the keeper sees.
LEMMA Unseen ==
  ASSUME UNCHANGED <<emitted, lost, stored, Kept, spool>>, Failures' = Failures,
         SpoolWasReadable' = SpoolWasReadable
  PROVE  UNCHANGED Keeper!vars
  BY DEF Keeper!vars, Kept

\* What is flushed is newer, and held unless the channel is full.
LEMMA KeeperEmits ==
  ASSUME Types, Emitted, Ordered, Emits
  PROVE  Keeper!Emit
<1>1. Pending # {} /\ Emit /\ UNCHANGED <<delivery, spool, stored, budget>>
  BY DEF Emits
<1>2. /\ Pending \subseteq Readings /\ emitted' = emitted \cup Pending
      /\ \A r \in emitted, s \in Pending : Older(r, s) /\ r # s
      /\ \/ ~(Len(chan) < ChanCap) /\ chan' = chan /\ lost' = lost \cup Pending
         \/ Len(chan) < ChanCap /\ lost' = lost
  BY <1>1, EmitDoes
<1>3. /\ Queued \subseteq Queued' /\ Queued' \subseteq Queued \cup Pending
      /\ Pending \subseteq Queued' \cup lost'
  BY <1>1, ChanGrows
<1>4. emitted \subseteq Readings /\ lost \subseteq emitted
  BY Parts
<1>5. emitted' \ emitted = Pending /\ emitted' \in SUBSET Readings /\ emitted \subseteq emitted'
  BY <1>2, <1>4
<1>6. Keeper!AllOlder(emitted, Pending)
  BY <1>2 DEF Keeper!AllOlder, Older
<1>7. Spooled' = Spooled /\ Elems(batch') = Elems(batch) /\ Kept' = Elems(batch') \cup Queued' \cup Spooled'
  BY <1>1, Frames DEF delivery, Kept
<1>8. Kept = Elems(batch) \cup Queued \cup Spooled
  BY Apart
<1>9. CASE ~(Len(chan) < ChanCap) /\ chan' = chan /\ lost' = lost \cup Pending
  <2>1. Kept' = Kept
    BY <1>7, <1>8, <1>9, Frames
  <2>2. Len(chan) <= Cardinality(Kept)
    <3>1. Len(chan) <= Cardinality(Queued) /\ Cardinality(Queued) <= Cardinality(Kept)
      BY ChanCounts, Apart
    <3>2. Cardinality(Queued) \in Nat /\ Cardinality(Kept) \in Nat /\ Len(chan) \in Nat
      BY Parts, ReadingsFinite, Apart
    <3> QED
      BY <3>1, <3>2
  <2>3. Cardinality(Kept) >= ChanCap
    BY <1>9, <2>2, Parts, Apart, ConstantsOK DEF ConstantsOK
  <2>4. Keeper!Cardinality(Kept) >= ChanCap
    BY <2>3, CountedAlike
  <2> QED
    BY <1>1, <1>5, <1>6, <1>9, <2>1, <2>4
    DEF Keeper!Emit, Kept, Failures, SpoolWasReadable
<1>10. CASE Len(chan) < ChanCap /\ lost' = lost
  <2>1. Pending \subseteq Queued'
    BY <1>2, <1>3, <1>4, <1>10
  <2>2. Kept' = Kept \cup Pending
    BY <1>3, <1>7, <1>8, <2>1
  <2> QED
    BY <1>1, <1>5, <1>6, <1>10, <2>2 DEF Keeper!Emit, Kept, Failures, SpoolWasReadable
<1> QED
  BY <1>2, <1>9, <1>10

\* A batch is taken out of the channel; a spool that could not be read is noted.
LEMMA KeeperReceives ==
  ASSUME Types, Emitted, Ordered, Receive \/ ReceiveWithReadError
  PROVE  [Keeper!Next]_Keeper!vars
<1>1. PICK recs : Read(recs) /\ Deliver(recs)
  BY Receives
<1>2. InFlight' = InFlight /\ UNCHANGED <<emitted, lost, stored, spool>> /\ Spooled' = Spooled
  BY <1>1, DeliverDoes, Frames DEF Deliver, history
<1>3. Kept' = Kept /\ Failures' = Failures
  BY <1>2, Receives DEF Kept
<1>4. CASE Receive
  <2>1. SpoolWasReadable' = SpoolWasReadable
    BY <1>4 DEF Receive, SpoolWasReadable
  <2> QED
    BY <1>2, <1>3, <2>1, Unseen
<1>5. CASE ReceiveWithReadError
  <2>1. budget \in Budget /\ "read" \in What /\ Spend("read")
    BY <1>5, Parts DEF ReceiveWithReadError, What
  <2>2. budget'["read"] = budget["read"] - 1
    BY <2>1, Spent
  <2>3. SpoolWasReadable' = FALSE
    BY <2>1, <2>2, ConstantsOK DEF Budget, SpoolWasReadable, ConstantsOK
  <2>4. Keeper!Misread
    BY <1>2, <1>3, <2>3 DEF Keeper!Misread, Kept
  <2> QED
    BY <2>4 DEF Keeper!Next
<1> QED
  BY <1>4, <1>5

\* Deliver forgets what the database has, and what is in the spool.
LEMMA KeeperReleases ==
  ASSUME Types, UNCHANGED <<emitted, lost, stored>>, SpoolWasReadable' = SpoolWasReadable,
         Kept' \subseteq Kept, SpoolWasReadable => Kept \ Kept' \subseteq InDatabase,
         \/ Failures' = Failures + 1 /\ spool'.torn \in BOOLEAN
         \/ Failures' = Failures /\ spool'.torn \in {spool.torn, FALSE}
  PROVE  Keeper!Next
<1>1. Keeper!Release
  BY ArrivedIs DEF Keeper!Release, Keeper!Fails, Keeper!Works, Kept
<1> QED
  BY <1>1 DEF Keeper!Next

\* After the answer everything posted is in.
LEMMA KeeperAccepts ==
  ASSUME Types, Emitted, Ordered, Delivered, Accepted
  PROVE  [Keeper!Next]_Keeper!vars
<1>1. /\ dpc = "wait" /\ req.state = "ok"
      /\ UNCHANGED <<gateway, spool, orphans, stored, budget, history>>
  BY DEF Accepted
<1>2. /\ Failures' = Failures /\ SpoolWasReadable' = SpoolWasReadable /\ Spooled' = Spooled
      /\ Queued' = Queued /\ UNCHANGED <<emitted, lost>> /\ spool.torn \in BOOLEAN
  BY <1>1, Frames DEF Failures, SpoolWasReadable, gateway, history, Types, TypeOK
<1>3. /\ Kept = Elems(batch) \cup Queued \cup Spooled
      /\ Kept' = Elems(batch') \cup Queued' \cup Spooled'
  BY Apart, Frames DEF Kept
<1>4. CASE NeedsClear
  <2>1. UNCHANGED batch
    BY <1>4 DEF Accepted
  <2>2. Kept' = Kept
    BY <1>2, <1>3, <2>1
  <2> QED
    BY <1>1, <1>2, <2>2, Unseen
<1>5. CASE ~NeedsClear
  <2>1. Elems(batch') = {}
    BY <1>5, DoneDoes DEF Accepted
  <2>2. Kept' \subseteq Kept /\ Kept \ Kept' \subseteq Elems(batch)
    BY <1>2, <1>3, <2>1
  <2>3. SpoolWasReadable => Elems(batch) \subseteq InDatabase
    BY <1>1 DEF Delivered
  <2> QED
    BY <1>1, <1>2, <2>2, <2>3, KeeperReleases
<1> QED
  BY <1>4, <1>5

\* So is everything in the spool when it is cleared.
LEMMA KeeperClears ==
  ASSUME Types, Emitted, Ordered, Delivered, Clear
  PROVE  Keeper!Next
<1>1. /\ dpc = "clear" /\ req.state = "ok" /\ Done
      /\ UNCHANGED <<gateway, orphans, stored, history>> /\ Elems(batch') = {}
  BY DoneDoes DEF Clear, Types
<1>2. /\ Queued' = Queued /\ UNCHANGED <<emitted, lost, stored>> /\ spool.torn \in BOOLEAN
  BY <1>1, Frames DEF gateway, history, Types, TypeOK
<1>3. /\ Kept = Elems(batch) \cup Queued \cup Spooled
      /\ Kept' = Elems(batch') \cup Queued' \cup Spooled'
  BY Apart, Frames DEF Kept
<1>4. SpoolWasReadable => Spooled \cup Elems(batch) \subseteq InDatabase
  BY <1>1 DEF Delivered
<1>5. CASE spool' = EmptySpool /\ UNCHANGED budget
  <2>1. Spooled' = {} /\ spool'.torn = FALSE
    BY <1>5, EmptyIs DEF Spooled
  <2>2. Failures' = Failures /\ SpoolWasReadable' = SpoolWasReadable
    BY <1>5 DEF Failures, SpoolWasReadable
  <2>3. Kept' \subseteq Kept /\ Kept \ Kept' \subseteq Spooled \cup Elems(batch)
    BY <1>1, <1>2, <1>3, <2>1
  <2> QED
    BY <1>2, <1>4, <2>1, <2>2, <2>3, KeeperReleases
<1>6. CASE spool' = spool /\ Spend("disk")
  <2>1. Spooled' = Spooled
    BY <1>6, Frames
  <2>2. budget \in Budget /\ "disk" \in What /\ "read" \in What
    BY Parts DEF What
  <2>3. budget'["read"] = budget["read"]
    BY <1>6, <2>2, Spent
  <2>4. Failures' = Failures + 1 /\ SpoolWasReadable' = SpoolWasReadable
    BY <1>6, <2>3, Fails DEF SpoolWasReadable
  <2>5. Kept' \subseteq Kept /\ Kept \ Kept' \subseteq Elems(batch)
    BY <1>1, <1>2, <1>3, <2>1
  <2>6. spool'.torn \in BOOLEAN
    BY <1>2, <1>6
  <2> QED
    BY <1>2, <1>4, <2>4, <2>5, <2>6, KeeperReleases
<1> QED
  BY <1>5, <1>6 DEF Clear

\* A request or a write that fails, with nothing given up.
LEMMA KeeperFails ==
  ASSUME Types, Emitted, Ordered, SendFails \/ IngestFails
  PROVE  [Keeper!Next]_Keeper!vars
<1>1. UNCHANGED <<emitted, lost, stored, spool>> /\ UNCHANGED <<chan, batch>>
  BY DEF SendFails, IngestFails, gateway, history
<1>2. Kept' = Kept /\ spool'.torn \in BOOLEAN
  BY <1>1, Frames DEF Kept, Types, TypeOK
<1>3. CASE UNCHANGED budget
  <2>1. Failures' = Failures /\ SpoolWasReadable' = SpoolWasReadable
    BY <1>3 DEF Failures, SpoolWasReadable
  <2> QED
    BY <1>1, <1>2, <2>1, Unseen
<1>4. CASE Spend("net")
  <2>1. budget \in Budget /\ "net" \in What /\ "read" \in What
    BY Parts DEF What
  <2>2. budget'["read"] = budget["read"]
    BY <1>4, <2>1, Spent
  <2>3. Failures' = Failures + 1 /\ SpoolWasReadable' = SpoolWasReadable
    BY <1>4, <2>2, Fails DEF SpoolWasReadable
  <2> QED
    BY <1>1, <1>2, <2>3, KeeperReleases
<1> QED
  BY <1>3, <1>4 DEF SendFails, IngestFails

\* A write that succeeds loses nothing but what joins a torn line, or the oldest.
LEMMA KeeperWrites ==
  ASSUME Types, Emitted, Ordered, SpoolBatch, UNCHANGED budget,
         spool' = Trimmed(Written(spool, batch)),
         lost' = IF MayLose THEN lost \cup Missing ELSE lost
  PROVE  Keeper!Next
<1>1. /\ dpc = "spool" /\ Done /\ Elems(batch') = {}
      /\ UNCHANGED <<gateway, orphans, stored, emitted>>
  BY DoneDoes DEF SpoolBatch
<1>2. /\ Queued' = Queued /\ UNCHANGED <<emitted, stored>>
      /\ Failures' = Failures /\ SpoolWasReadable' = SpoolWasReadable
  BY <1>1, Frames DEF gateway, Failures, SpoolWasReadable
<1>3. /\ Kept = Elems(batch) \cup Queued \cup Spooled
      /\ Kept' = Elems(batch') \cup Queued' \cup Spooled'
      /\ Spooled \cap InFlight = {} /\ Elems(batch) \cap Queued = {}
      /\ InFlight = Elems(batch) \cup Queued
  BY Apart, Parts, Frames DEF Kept
<1>4. Spooled' \subseteq Spooled \cup Elems(batch)
  BY SpoolWritten
<1>5. Kept' \subseteq Kept /\ Kept \ Kept' = Missing
  BY <1>1, <1>2, <1>3, <1>4 DEF Missing
<1>6. spool'.torn = FALSE
  <2>1. spool.torn \in BOOLEAN /\ batch # <<>>
    BY <1>1 DEF Types, TypeOK
  <2>2. Written(spool, batch).torn = FALSE
    BY <2>1 DEF Written
  <2> QED
    BY <2>2 DEF Trimmed
<1>7. CASE ~MayLose
  <2>1. ~spool.torn /\ Len(Records(spool.lines)) + Len(batch) <= SpoolMax
    <3>1. Records(spool.lines) \in Seq(Readings) /\ batch \in Seq(Readings)
      BY Parts, RecordsAre
    <3> QED
      BY <1>7, <3>1, LenProperties, ConstantsOK DEF MayLose, ConstantsOK
  <2>2. Good(spool) /\ batch \in Seq(Readings)
    BY Parts DEF Good, Types, Ordered
  <2>3. Spooled' = Spooled \cup Elems(batch)
    BY <2>1, <2>2, AllWritten DEF Spooled
  <2>4. Kept' = Kept
    BY <1>1, <1>2, <1>3, <2>3
  <2>5. lost' = lost
    BY <1>7
  <2> QED
    BY <1>2, <1>6, <2>4, <2>5, KeeperReleases
<1>8. CASE spool.torn
  <2>1. lost' = lost \cup (Kept \ Kept')
    BY <1>5, <1>8 DEF MayLose
  <2>2. Keeper!Lose
    BY <1>2, <1>5, <1>6, <1>8, <2>1 DEF Keeper!Lose, Keeper!Works, Kept
  <2> QED
    BY <2>2 DEF Keeper!Next
<1>9. CASE MayLose /\ ~spool.torn
  <2>1. lost' = lost \cup (Kept \ Kept')
    BY <1>5, <1>9
  <2>2. Keeper!Cardinality(Kept) > SpoolMax
    <3>1. Len(Records(spool.lines)) + Len(batch) > SpoolMax
      BY <1>9 DEF MayLose
    <3>2. /\ Len(Records(spool.lines)) + Len(batch) <= Cardinality(Kept)
          /\ Cardinality(Kept) \in Nat /\ SpoolMax \in Nat
      BY Apart, ConstantsOK DEF ConstantsOK
    <3>3. Records(spool.lines) \in Seq(Readings) /\ batch \in Seq(Readings)
      BY Parts, RecordsAre
    <3>4. Len(Records(spool.lines)) \in Nat /\ Len(batch) \in Nat
      BY <3>3, LenProperties
    <3>5. Cardinality(Kept) > SpoolMax
      BY <3>1, <3>2, <3>4
    <3> QED
      BY <3>5, CountedAlike
  <2>3. Keeper!AllOlder(Kept \ Kept', Kept')
    <3>1. \A r \in Missing, s \in Spooled' : Older(r, s)
      BY <1>9, OldestTrimmed
    <3>2. \A r \in Missing, s \in Queued : Older(r, s)
      <4>1. Missing \subseteq Spooled \cup Elems(batch) /\ Queued \subseteq InFlight
        BY <1>3 DEF Missing
      <4> QED
        BY <4>1 DEF Ordered
    <3>3. Kept' = Queued \cup Spooled'
      BY <1>1, <1>2, <1>3
    <3> QED
      BY <1>5, <3>1, <3>2, <3>3 DEF Keeper!AllOlder, Older
  <2>4. spool'.torn \in {spool.torn, FALSE}
    BY <1>6
  <2>5. Keeper!Lose
    BY <1>2, <1>5, <2>1, <2>2, <2>3, <2>4 DEF Keeper!Lose, Keeper!Works, Kept
  <2> QED
    BY <2>5 DEF Keeper!Next
<1> QED
  BY <1>7, <1>8, <1>9

\* A write that breaks off, or a crash, is a failure.
LEMMA KeeperLoses ==
  ASSUME Types, Emitted, Ordered,
         \/ SpoolBatch /\ spool' \in PartlyWritten(spool, batch) /\ Spend("disk")
            /\ lost' = lost \cup Missing
         \/ Crash
  PROVE  Keeper!Next
<1>1. /\ Kept = Elems(batch) \cup Queued \cup Spooled
      /\ Kept' = Elems(batch') \cup Queued' \cup Spooled'
      /\ Spooled \cap InFlight = {} /\ Elems(batch) \cap Queued = {}
      /\ InFlight = Elems(batch) \cup Queued
  BY Apart, Parts, Frames DEF Kept
<1>2. Spooled' \subseteq Spooled \cup Elems(batch) /\ spool'.torn \in BOOLEAN
  BY SpoolWritten DEF Crash, Good, Files
<1>3. Elems(batch') = {} /\ UNCHANGED <<emitted, stored>>
  BY DoneDoes DEF SpoolBatch, Crash
<1>4. Failures' = Failures + 1 /\ SpoolWasReadable' = SpoolWasReadable
  <2>1. PICK what \in {"disk", "crash"} : Spend(what)
    BY DEF Crash
  <2>2. budget \in Budget /\ what \in What /\ "read" \in What /\ what # "read"
    BY Parts DEF What
  <2>3. budget'["read"] = budget["read"]
    BY <2>1, <2>2, Spent
  <2> QED
    BY <2>1, <2>3, Fails DEF SpoolWasReadable
<1>5. Kept' \subseteq Kept /\ lost' = lost \cup (Kept \ Kept')
  <2>1. CASE Crash
    <3>1. Queued' = {}
      <4>1. chan' = <<>>
        BY <2>1 DEF Crash
      <4> QED
        BY <4>1 DEF Queued
    <3>2. lost' = lost \cup ((Spooled \cup InFlight) \ Spooled')
      BY <2>1 DEF Crash, InFlight
    <3> QED
      BY <1>1, <1>2, <1>3, <3>1, <3>2
  <2>2. CASE SpoolBatch /\ lost' = lost \cup Missing
    <3>1. Queued' = Queued
      BY <2>2, Frames DEF SpoolBatch, gateway
    <3>2. Kept' \subseteq Kept /\ Kept \ Kept' = Missing
      BY <1>1, <1>2, <1>3, <3>1 DEF Missing
    <3> QED
      BY <2>2, <3>2
  <2> QED
    BY <2>1, <2>2
<1>6. Keeper!Lose
  BY <1>2, <1>3, <1>4, <1>5 DEF Keeper!Lose, Keeper!Fails, Kept
<1> QED
  BY <1>6 DEF Keeper!Next

\* A reading is stored with those before it in the database, and again only for a failure.
LEMMA KeeperStores ==
  ASSUME Types, Emitted, NEW todo \in Seq(Readings), todo # <<>>, Sorted(todo),
         SpoolWasReadable => NoGapIn(todo), Head(todo) \in emitted,
         stored[Head(todo)] <= Failures, Insert(Head(todo)),
         UNCHANGED <<chan, batch, spool, budget, history>>
  PROVE  [Keeper!Next]_Keeper!vars
<1> DEFINE r == Head(todo)
<1>1. /\ r \in Readings /\ Elems(todo) = {r} \cup Elems(Tail(todo))
      /\ \A s \in Elems(Tail(todo)) : Older(r, s)
  BY TailIs, ReadingsAreLines
<1>2. /\ Kept' = Kept /\ Failures' = Failures /\ SpoolWasReadable' = SpoolWasReadable
      /\ UNCHANGED <<emitted, lost, spool>>
  BY Frames DEF Kept, Failures, SpoolWasReadable, history
<1>3. CASE r[1] \notin BoundMacs
  <2>1. stored' = stored
    BY <1>1, <1>3, Parts DEF Insert
  <2> QED
    BY <1>2, <2>1, Unseen
<1>4. CASE r[1] \in BoundMacs
  <2>1. stored' = [stored EXCEPT ![r] = @ + 1]
    BY <1>4 DEF Insert
  <2>2. ASSUME SpoolWasReadable, NEW q \in emitted \ lost, Keeper!Precedes(q, r)
        PROVE  q \in InDatabase
    <3>1. q \in InDatabase \cup Elems(todo)
      BY <1>1, <2>2 DEF NoGapIn, Fits, Keeper!Precedes
    <3>2. q \in Readings /\ q[1] = r[1] /\ q[2] < r[2]
      BY <2>2, Parts DEF Keeper!Precedes
    <3>3. q # r /\ ~Older(r, q)
      BY <1>1, <3>2 DEF Older, Readings
    <3> QED
      BY <1>1, <3>1, <3>3
  <2>3. Keeper!Store(r)
    BY <1>1, <1>2, <1>4, <2>1, <2>2, ArrivedIs DEF Keeper!Store, Kept
  <2> QED
    BY <1>1, <2>3 DEF Keeper!Next
<1> QED
  BY <1>3, <1>4

\* Before anything is measured the keeper has nothing.
LEMMA KeeperInit == Init => Keeper!Init
<1> SUFFICES ASSUME Init PROVE Keeper!Init
  OBVIOUS
<1>1. /\ emitted = {} /\ lost = {} /\ stored = [r \in Readings |-> 0] /\ spool = EmptySpool
      /\ batch = <<>> /\ chan = <<>>
  BY DEF Init
<1>2. Kept = {}
  <2>1. Elems(batch) = {} /\ InFlight = Elems(batch)
    BY <1>1 DEF Elems, InFlight
  <2> QED
    BY <1>1, <2>1, EmptyIs DEF Kept, Spooled
<1>3. Failures = 0 /\ SpoolWasReadable
  BY ConstantsOK DEF Init, Failures, SpoolWasReadable, ConstantsOK
<1> QED
  BY <1>1, <1>2, <1>3 DEF Keeper!Init, Kept, EmptySpool

\* Every step is one of the keeper's, or none of its concern.
LEMMA KeeperStep ==
  ASSUME Types, Emitted, Ordered, Delivered, Gapless, CopiesCounted, [Next]_vars
  PROVE  [Keeper!Next]_Keeper!vars
<1>1. ASSUME NEW m \in Macs, Observe(m) PROVE UNCHANGED Keeper!vars
  BY <1>1, Frames, Unseen DEF Observe, delivery, history, Kept, Failures, SpoolWasReadable
<1>2. CASE Emits
  BY <1>2, KeeperEmits DEF Keeper!Next
<1>3. CASE Quiet
  <2>1. Failures' = Failures /\ SpoolWasReadable' = SpoolWasReadable
    BY <1>3 DEF Quiet, Failures, SpoolWasReadable, What
  <2> QED
    BY <1>3, <2>1, Frames, Unseen DEF Quiet, delivery, history, Kept
<1>4. CASE Receive \/ ReceiveWithReadError
  BY <1>4, KeeperReceives
<1>5. CASE Accepted
  BY <1>5, KeeperAccepts
<1>6. CASE Clear
  BY <1>6, KeeperClears
<1>7. CASE SendFails \/ IngestFails
  BY <1>7, KeeperFails
<1>8. CASE SpoolBatch
  BY <1>8, KeeperWrites, KeeperLoses DEF SpoolBatch
<1>9. CASE Crash
  BY <1>9, KeeperLoses
<1>10. ASSUME NEW r \in Readings, Cardinality(Held(r)) + (IF Alive(r) THEN 1 ELSE 0) >= 1
       PROVE  stored[r] <= Failures
  <2>1. stored[r] \in Nat /\ Cardinality(Held(r)) \in Nat /\ Failures \in Nat
    BY Parts, HeldIs, Fails
  <2>2. stored[r] + Cardinality(Held(r)) + (IF Alive(r) THEN 1 ELSE 0) <= 1 + Failures
    BY DEF CopiesCounted
  <2> QED
    BY <1>10, <2>1, <2>2
<1>11. CASE IngestNext
  <2>1. /\ req.state = "running" /\ req.todo \in Seq(Readings) /\ req.todo # <<>>
        /\ Insert(Head(req.todo)) /\ UNCHANGED <<chan, batch, spool, budget, history>>
    BY <1>11, Parts DEF IngestNext, gateway
  <2>2. Head(req.todo) \in Elems(req.todo) /\ Head(req.todo) \in Readings
    BY <2>1, TailIs
  <2>3. Alive(Head(req.todo)) /\ Head(req.todo) \in emitted
    BY <2>1, <2>2, StoredIsDone
  <2>4. stored[Head(req.todo)] <= Failures
    <3>1. Cardinality(Held(Head(req.todo))) \in Nat
      BY HeldIs
    <3> QED
      BY <1>10, <2>2, <2>3, <3>1
  <2>5. Sorted(req.todo) /\ (SpoolWasReadable => NoGapIn(req.todo))
    BY <2>1 DEF Ordered, Gapless
  <2> QED
    BY <2>1, <2>3, <2>4, <2>5, KeeperStores
<1>12. CASE IngestDone
  BY <1>12, Frames, Unseen DEF IngestDone, gateway, history, Kept, Failures, SpoolWasReadable
<1>13. CASE OrphanStep
  <2>1. PICK todo \in orphans :
            \/ todo # <<>> /\ Insert(Head(todo))
            \/ UNCHANGED stored
    BY <1>13 DEF OrphanStep
  <2>2. UNCHANGED <<chan, batch, spool, budget, history>>
    BY <1>13 DEF OrphanStep, gateway, delivery
  <2>3. CASE UNCHANGED stored
    BY <2>2, <2>3, Frames, Unseen DEF history, Kept, Failures, SpoolWasReadable
  <2>4. CASE todo # <<>> /\ Insert(Head(todo))
    <3>1. todo \in Seq(Readings)
      BY Parts
    <3>2. Head(todo) \in Elems(todo) /\ Head(todo) \in Readings
      BY <2>4, <3>1, TailIs
    <3>3. Head(todo) \in emitted
      BY <3>2 DEF Emitted
    <3>4. todo \in Held(Head(todo))
      BY <3>2 DEF Held
    <3>5. stored[Head(todo)] <= Failures
      <4>1. /\ Cardinality(Held(Head(todo))) \in Nat
            /\ Cardinality(Held(Head(todo)) \ {todo}) = Cardinality(Held(Head(todo))) - 1
        BY <3>4, HeldIs
      <4>2. Cardinality(Held(Head(todo)) \ {todo}) \in Nat
        <5>1. Held(Head(todo)) \ {todo} \in SUBSET orphans /\ IsFiniteSet(orphans)
          BY Parts DEF Held
        <5>2. IsFiniteSet(Held(Head(todo)) \ {todo})
          BY <5>1, FS_Subset
        <5> QED
          BY <5>2, FS_CardinalityType
      <4> QED
        BY <1>10, <3>2, <4>1, <4>2
    <3>6. Sorted(todo) /\ (SpoolWasReadable => NoGapIn(todo))
      BY DEF Ordered, Gapless
    <3> QED
      BY <2>2, <2>4, <3>1, <3>3, <3>5, <3>6, KeeperStores
  <2> QED
    BY <2>1, <2>3, <2>4
<1> QED
  BY <1>1, <1>2, <1>3, <1>4, <1>5, <1>6, <1>7, <1>8, <1>9, <1>11, <1>12, <1>13, Steps

\* Sampler, deliver loop, spool, client and ingest handler together keep readings in
\* custody as promised: nothing leaves their care unstored but for want of room or by a
\* failure, in order, and stored again only after a failure.
THEOREM ForwardKeepsCustody == Spec => KeepsCustody
<1> DEFINE Inv == Types /\ Emitted /\ Ordered /\ Delivered /\ Gapless /\ CopiesCounted
<1>1. Inv /\ [Next]_vars => [Keeper!Next]_Keeper!vars
  BY KeeperStep
<1> QED
  BY <1>1, KeeperInit, AllAlways, PTL DEF Spec, KeepsCustody, Keeper!Spec
=============================================================================
