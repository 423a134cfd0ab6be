--------------------------- MODULE BatchWriterProofs ---------------------------
(***************************************************************************)
(* Theorems about BatchWriter, for any requests, any of them refused by    *)
(* the table, any batch size and any number of failures.                   *)
(***************************************************************************)
EXTENDS BatchWriter, SequenceTheorems, TLAPS

TaskId == Req \cup Flusher

Buffers == [Table -> Seq(Req)]

-----------------------------------------------------------------------------
\* The inductive invariant, in parts.

\* What the lock protects.  While an insert is under way the buffer it was taken
\* from stays empty, since whoever would fill it waits for the lock.
Critical ==
    /\ lock \in Seq(TaskId) /\ IsInjective(lock)
    /\ buffer \in Buffers
    /\ insert \in [table : Table \cup {"none"}, batch : Seq(Req)]
    /\ insert.table = "none" => ~Inserting
    /\ Inserting => lock # <<>> /\ buffer[insert.table] = <<>>

\* The other types.
Surroundings ==
    /\ phase \in {"running", "stopping", "stopped"}
    /\ handler \in [Req -> {"idle", "request", "prediction", "done"}]
    /\ stored \in [Table -> [Req -> Nat]]
    /\ faults \in 0..MaxFaults
    /\ buffered \in Buffers
    /\ dropped \in [Table -> SUBSET Req]

\* The call a handler is in while it inserts.
CallOf(table) == IF table = "requests" THEN "request" ELSE "prediction"

\* Handler r is past the point where it appended its prediction.
PredictionAdded(r) ==
    \/ handler[r] = "done"
    \/ handler[r] = "prediction" /\ Inserting /\ Head(lock) = r

\* The same for its request.
RequestAdded(r) ==
    \/ handler[r] \in {"prediction", "done"}
    \/ handler[r] = "request" /\ Inserting /\ Head(lock) = r

\* How far handler r has come: its place in the queue of the lock, and what it has
\* buffered.
ProgressOf(r) ==
    /\ handler[r] \in {"idle", "done"} => r \notin Range(lock)
    /\ Inserting /\ Head(lock) = r => handler[r] = CallOf(insert.table)
    /\ r \in Range(buffered["requests"]) <=> RequestAdded(r)
    /\ r \in Range(buffered["predictions"]) <=> PredictionAdded(r)

Progress == \A r \in Req : ProgressOf(r)

\* The records in "pend" are accounted for, given what was buffered, what is stored,
\* how many inserts failed and what was dropped.  Each failure leaves at most one row
\* of a prediction that is still pending.
Records(pend, log, st, f, d) ==
    /\ \A t \in Table : IsSuffix(pend[t], log[t])
    /\ \A t \in Table : \A r \in Range(log[t]) :
           st[t][r] > 0 \/ r \in Range(pend[t]) \/ r \in d[t]
    /\ \A t \in Table : \A r \in Req : st[t][r] <= 1 + f
    /\ \A r \in Req : r \notin Range(log["predictions"]) => st["predictions"][r] = 0
    /\ \A r \in Req : r \in Range(pend["predictions"]) => st["predictions"][r] <= f

PendingNow == [t \in Table |-> Pending(t)]

\* A flush takes up the predictions when no request is left in the buffer, unless
\* the requests were refused or their insert failed.
FlushOrder ==
    (/\ Inserting /\ insert.table = "predictions" /\ Head(lock) \in Flusher
     /\ faults = 0 /\ Refused = {})
    => buffer["requests"] = <<>>

WriterInv ==
    /\ Critical /\ Surroundings /\ Progress /\ FlushOrder
    /\ Records(PendingNow, buffered, stored, faults, dropped)

-----------------------------------------------------------------------------
\* Suffixes, by their elements.
LEMMA SuffixByElements ==
    ASSUME NEW S, NEW s \in Seq(S), NEW t \in Seq(S)
    PROVE  IsSuffix(s, t) <=>
               /\ Len(s) <= Len(t)
               /\ \A i \in 1..Len(s) : s[i] = t[Len(t) - Len(s) + i]
<1> DEFINE rs == Reverse(s) rt == Reverse(t)
<1>1. /\ rs \in Seq(S) /\ Len(rs) = Len(s) /\ \A i \in 1..Len(s) : rs[i] = s[(Len(s) - i) + 1]
      /\ rt \in Seq(S) /\ Len(rt) = Len(t) /\ \A i \in 1..Len(t) : rt[i] = t[(Len(t) - i) + 1]
  BY DEF Reverse
<1> HIDE DEF rs, rt
<1>2. ASSUME Len(s) <= Len(t)
      PROVE  SubSeq(rs, 1, Len(rs)) = SubSeq(rt, 1, Len(rs))
             <=> \A i \in 1..Len(s) : rs[i] = rt[i]
  BY <1>1, <1>2
<1>3. ASSUME Len(s) <= Len(t)
      PROVE  (\A i \in 1..Len(s) : rs[i] = rt[i])
             <=> \A i \in 1..Len(s) : s[i] = t[Len(t) - Len(s) + i]
  <2>1. \A i \in 1..Len(s) : Len(s) - i + 1 \in 1..Len(s) /\ Len(s) - (Len(s) - i + 1) + 1 = i
    OBVIOUS
  <2>2. ASSUME NEW i \in 1..Len(s)
        PROVE  rs[i] = rt[i] <=> s[Len(s) - i + 1] = t[Len(t) - Len(s) + (Len(s) - i + 1)]
    <3>1. i \in 1..Len(t) /\ Len(t) - Len(s) + (Len(s) - i + 1) = (Len(t) - i) + 1
      BY <1>3
    <3> QED BY <3>1, <1>1
  <2> QED BY <2>1, <2>2
<1> QED BY <1>1, <1>2, <1>3 DEF IsSuffix, IsPrefix, rs, rt

\* Records appended to both stay in order, none is always in order, and a suffix
\* holds no other records.
LEMMA SuffixFacts ==
    ASSUME NEW S, NEW t \in Seq(S)
    PROVE  /\ IsSuffix(<<>>, t)
           /\ \A s \in Seq(S) : IsSuffix(s, t) =>
                  /\ Range(s) \subseteq Range(t)
                  /\ \A e \in S : IsSuffix(Append(s, e), Append(t, e))
<1>1. IsSuffix(<<>>, t)
  <2>1. <<>> \in Seq(S) /\ Len(<<>>) = 0 /\ Len(t) \in Nat
    OBVIOUS
  <2>2. DEFINE e == <<>>
  <2>3. e \in Seq(S) /\ Len(e) = 0
    OBVIOUS
  <2> HIDE DEF e
  <2>4. IsSuffix(e, t) <=> /\ Len(e) <= Len(t)
                          /\ \A i \in 1..Len(e) : e[i] = t[Len(t) - Len(e) + i]
    BY <2>3, SuffixByElements
  <2>5. IsSuffix(e, t)
    BY <2>1, <2>3, <2>4
  <2> QED BY <2>5 DEF e
<1>2. ASSUME NEW s \in Seq(S), IsSuffix(s, t)
      PROVE  Range(s) \subseteq Range(t)
  BY <1>2, SuffixByElements DEF Range
<1>3. ASSUME NEW s \in Seq(S), IsSuffix(s, t), NEW e \in S
      PROVE  IsSuffix(Append(s, e), Append(t, e))
  <2>1. /\ Append(s, e) \in Seq(S) /\ Append(t, e) \in Seq(S)
        /\ Len(Append(s, e)) = Len(s) + 1 /\ Len(Append(t, e)) = Len(t) + 1
    OBVIOUS
  <2>2. Len(s) <= Len(t) /\ \A i \in 1..Len(s) : s[i] = t[Len(t) - Len(s) + i]
    BY <1>3, SuffixByElements
  <2>3. ASSUME NEW i \in 1..(Len(s) + 1)
        PROVE  Append(s, e)[i] = Append(t, e)[(Len(t) + 1) - (Len(s) + 1) + i]
    <3>1. CASE i = Len(s) + 1
      BY <3>1
    <3>2. CASE i \in 1..Len(s)
      BY <3>2, <2>2
    <3>3. i = Len(s) + 1 \/ i \in 1..Len(s)
      OBVIOUS
    <3> QED BY ONLY <3>1, <3>2, <3>3
  <2>4. Len(Append(s, e)) <= Len(Append(t, e))
    BY <2>1, <2>2
  <2>5. \A i \in 1..Len(Append(s, e)) :
            Append(s, e)[i] = Append(t, e)[Len(Append(t, e)) - Len(Append(s, e)) + i]
    BY <2>1, <2>3
  <2> QED BY ONLY <2>1, <2>4, <2>5, SuffixByElements
<1> QED BY <1>1, <1>2, <1>3

\* The elements of a sequence that grows or shrinks at its ends.
LEMMA RangeFacts ==
    ASSUME NEW S, NEW s \in Seq(S)
    PROVE  /\ Range(<<>>) = {} /\ Range(s) \subseteq S
           /\ \A e \in S : Range(Append(s, e)) = Range(s) \cup {e}
           /\ \A e \in S : Range(<<e>> \o s) = Range(s) \cup {e}
           /\ s # <<>> => Range(s) = Range(Tail(s)) \cup {Head(s)}
           /\ s # <<>> /\ IsInjective(s) => IsInjective(Tail(s)) /\ Head(s) \notin Range(Tail(s))
           /\ \A e \in S : IsInjective(s) /\ e \notin Range(s) =>
                  IsInjective(Append(s, e)) /\ IsInjective(<<e>> \o s)
<1>1. Range(<<>>) = {} /\ Range(s) \subseteq S
  BY DEF Range
<1>2. ASSUME NEW e \in S PROVE Range(Append(s, e)) = Range(s) \cup {e}
  <2>1. Len(s) \in Nat /\ DOMAIN s = 1..Len(s) /\ DOMAIN Append(s, e) = 1..(Len(s) + 1)
    OBVIOUS
  <2>2. Append(s, e)[Len(s) + 1] = e /\ \A i \in 1..Len(s) : Append(s, e)[i] = s[i]
    OBVIOUS
  <2> DEFINE a == Append(s, e)
             n == Len(s)
  <2> HIDE DEF a, n
  <2>3. n \in Nat /\ DOMAIN s = 1..n /\ DOMAIN a = 1..(n + 1)
    BY <2>1 DEF a, n
  <2>4. a[n + 1] = e /\ \A i \in 1..n : a[i] = s[i]
    BY <2>2 DEF a, n
  <2>5. {a[i] : i \in 1..(n + 1)} = {s[i] : i \in 1..n} \cup {e}
    <3>1. 1..(n + 1) = 1..n \cup {n + 1}
      BY ONLY <2>3
    <3> QED BY ONLY <2>4, <3>1
  <2> QED BY ONLY <2>3, <2>5 DEF Range, a
<1>3. ASSUME NEW e \in S PROVE Range(<<e>> \o s) = Range(s) \cup {e}
  <2>1. Range(<<e>>) = {e}
    BY DEF Range
  <2>2. <<e>> \in Seq(S)
    OBVIOUS
  <2>3. Range(<<e>> \o s) = Range(<<e>>) \cup Range(s)
    BY ONLY <2>2, s \in Seq(S), RangeConcatenation, Zenon
  <2> QED BY <2>1, <2>3
<1>4. ASSUME s # <<>> PROVE Range(s) = Range(Tail(s)) \cup {Head(s)}
  <2>1. /\ \A i \in 1..Len(Tail(s)) : Tail(s)[i] = s[i + 1]
        /\ DOMAIN s = 1..Len(s) /\ DOMAIN Tail(s) = 1..(Len(s) - 1) /\ Len(s) \in Nat \ {0}
        /\ Head(s) = s[1]
    BY <1>4, HeadTailProperties
  <2>2. \A i \in 1..Len(s) : i = 1 \/ (i - 1 \in 1..(Len(s) - 1) /\ s[i] = Tail(s)[i - 1])
    BY <2>1
  <2>3. \A i \in 1..(Len(s) - 1) : i + 1 \in 1..Len(s) /\ Tail(s)[i] = s[i + 1]
    BY <2>1
  <2>4. \A x : /\ x \in Range(s) <=> \E i \in 1..Len(s) : x = s[i]
               /\ x \in Range(Tail(s)) <=> \E i \in 1..(Len(s) - 1) : x = Tail(s)[i]
    BY <2>1 DEF Range
  <2>5. 1 \in 1..Len(s)
    BY <2>1
  <2>6. ASSUME NEW x PROVE x \in Range(s) <=> x \in Range(Tail(s)) \cup {Head(s)}
    <3>1. ASSUME x \in Range(s) PROVE x \in Range(Tail(s)) \cup {Head(s)}
      BY <3>1, <2>1, <2>2, <2>4
    <3>2. ASSUME x \in Range(Tail(s)) PROVE x \in Range(s)
      BY <3>2, <2>3, <2>4
    <3>3. Head(s) \in Range(s)
      BY <2>1, <2>4, <2>5
    <3> QED BY <3>1, <3>2, <3>3
  <2> QED BY <2>6
<1>5. ASSUME s # <<>>, IsInjective(s)
      PROVE  IsInjective(Tail(s)) /\ Head(s) \notin Range(Tail(s))
  BY <1>5 DEF IsInjective, Range
<1>6. ASSUME NEW e \in S, IsInjective(s), e \notin Range(s)
      PROVE  IsInjective(Append(s, e)) /\ IsInjective(<<e>> \o s)
  BY <1>6 DEF IsInjective, Range
<1> QED BY <1>1, <1>2, <1>3, <1>4, <1>5, <1>6

-----------------------------------------------------------------------------
\* A record that is buffered now is accounted for.
LEMMA RecordsAppend ==
    ASSUME NEW pend \in Buffers, NEW log \in Buffers, NEW st \in [Table -> [Req -> Nat]],
           NEW f \in Nat, NEW d \in [Table -> SUBSET Req],
           Records(pend, log, st, f, d),
           NEW t \in Table, NEW r \in Req,
           t = "predictions" => st["predictions"][r] = 0
    PROVE  Records([pend EXCEPT ![t] = Append(@, r)], [log EXCEPT ![t] = Append(@, r)], st, f, d)
<1> DEFINE p2 == [pend EXCEPT ![t] = Append(@, r)]
           l2 == [log EXCEPT ![t] = Append(@, r)]
<1>1. \A u \in Table : /\ p2[u] = IF u = t THEN Append(pend[u], r) ELSE pend[u]
                       /\ l2[u] = IF u = t THEN Append(log[u], r) ELSE log[u]
                       /\ pend[u] \in Seq(Req) /\ log[u] \in Seq(Req)
  BY DEF Buffers
<1>2. \A u \in Table : /\ Range(p2[u]) = IF u = t THEN Range(pend[u]) \cup {r} ELSE Range(pend[u])
                       /\ Range(l2[u]) = IF u = t THEN Range(log[u]) \cup {r} ELSE Range(log[u])
  <2>1. ASSUME NEW s \in Seq(Req) PROVE Range(Append(s, r)) = Range(s) \cup {r}
    BY RangeFacts
  <2>2. ASSUME NEW u \in Table, u = t PROVE
            Range(p2[u]) = Range(pend[u]) \cup {r} /\ Range(l2[u]) = Range(log[u]) \cup {r}
    BY <2>2, <1>1, <2>1
  <2>3. ASSUME NEW u \in Table, u # t PROVE p2[u] = pend[u] /\ l2[u] = log[u]
    BY <2>3, <1>1
  <2> HIDE DEF p2, l2
  <2> QED BY <2>2, <2>3
<1>3. \A u \in Table : IsSuffix(p2[u], l2[u])
  BY <1>1, SuffixFacts DEF Records
<1> HIDE DEF p2, l2
<1>4. "predictions" \in Table
  BY DEF Table
<1>5. \A u \in Table : \A q \in Range(l2[u]) :
          st[u][q] > 0 \/ q \in Range(p2[u]) \/ q \in d[u]
  BY <1>2 DEF Records
<1>6. \A q \in Req : q \notin Range(l2["predictions"]) => st["predictions"][q] = 0
  BY <1>2, <1>4 DEF Records
<1>7. ASSUME NEW q \in Req, q \in Range(p2["predictions"])
      PROVE  st["predictions"][q] <= f
  <2>1. CASE q \in Range(pend["predictions"])
    BY <2>1 DEF Records
  <2>2. CASE q = r /\ t = "predictions"
    BY <2>2
  <2> QED BY <1>2, <1>4, <1>7, <2>1, <2>2
<1> QED BY <1>3, <1>5, <1>6, <1>7 DEF Records, p2, l2

-----------------------------------------------------------------------------
\* The helpers by which the holder t of the lock goes on, with buffers "bufs", when
\* the tasks in "behind" wait for it.

\* What both have in common: the buffers and the insert hold just what bufs held.
LEMMA StartInsertOutcome ==
    ASSUME NEW t \in TaskId, NEW table \in Table, NEW bufs \in Buffers,
           NEW behind \in Seq(TaskId), IsInjective(behind), t \notin Range(behind),
           StartInsert(t, table, bufs, behind)
    PROVE  /\ Critical' /\ Inserting' /\ insert'.table = table
           /\ Head(lock') = t /\ Range(lock') = Range(behind) \cup {t}
           /\ PendingNow' = bufs
           /\ table = "predictions" => buffer'["requests"] = bufs["requests"]
<1>1. /\ insert' = [table |-> table, batch |-> bufs[table]]
      /\ buffer' = [bufs EXCEPT ![table] = <<>>]
      /\ lock' = <<t>> \o behind
  BY DEF StartInsert
<1>2. table \in {"requests", "predictions"} /\ table # "none"
  BY DEF Table
<1>3. /\ lock' \in Seq(TaskId) /\ lock' # <<>> /\ Head(lock') = t
      /\ IsInjective(lock') /\ Range(lock') = Range(behind) \cup {t}
  <2>1. lock' \in Seq(TaskId) /\ lock' # <<>> /\ Head(lock') = t
    BY <1>1
  <2>2. IsInjective(<<t>> \o behind) /\ Range(<<t>> \o behind) = Range(behind) \cup {t}
    BY RangeFacts
  <2> QED BY <1>1, <2>1, <2>2
<1>4. Inserting' /\ insert'.table = table
  BY <1>1, <1>2 DEF Inserting, NoInsert
<1>5. Critical'
  <2>1. bufs[table] \in Seq(Req) /\ buffer' \in Buffers /\ buffer'[table] = <<>>
    BY <1>1 DEF Buffers
  <2>2. insert' \in [table : Table \cup {"none"}, batch : Seq(Req)]
    BY <1>1, <2>1
  <2> QED BY <1>2, <1>3, <1>4, <2>1, <2>2 DEF Critical
<1>6. PendingNow' = bufs
  <2>1. ASSUME NEW u \in Table PROVE Pending(u)' = bufs[u]
    <3>1. bufs[u] \in Seq(Req) /\ bufs[u] \o <<>> = bufs[u] /\ <<>> \o bufs[u] = bufs[u]
      BY DEF Buffers
    <3>2. CASE u = table
      BY <3>1, <3>2, <1>1 DEF Pending, Buffers
    <3>3. CASE u # table
      BY <3>1, <3>3, <1>1 DEF Pending, Buffers
    <3> QED BY <3>2, <3>3
  <2>2. bufs = [u \in Table |-> bufs[u]]
    BY DEF Buffers
  <2> QED BY <2>1, <2>2 DEF PendingNow
<1>7. table = "predictions" => buffer'["requests"] = bufs["requests"]
  BY <1>1 DEF Buffers, Table
<1> QED BY <1>3, <1>4, <1>5, <1>6, <1>7

LEMMA ReleaseOutcome ==
    ASSUME NEW bufs \in Buffers, NEW behind \in Seq(TaskId), IsInjective(behind),
           Release(bufs, behind)
    PROVE  /\ Critical' /\ ~Inserting' /\ lock' = behind
           /\ PendingNow' = bufs
<1>1. insert' = NoInsert /\ buffer' = bufs /\ lock' = behind
  BY DEF Release
<1>2. ~Inserting' /\ insert'.table = "none"
  BY <1>1 DEF Inserting, NoInsert
<1>3. Critical'
  BY <1>1, <1>2 DEF Critical, NoInsert
<1>4. ASSUME NEW u \in Table PROVE Pending(u)' = bufs[u]
  <2>1. bufs[u] \in Seq(Req) /\ <<>> \o bufs[u] = bufs[u] /\ u # "none"
    BY DEF Buffers, Table
  <2> QED BY <1>1, <1>2, <2>1 DEF Pending
<1>5. bufs = [u \in Table |-> bufs[u]]
  BY DEF Buffers
<1> QED BY <1>1, <1>2, <1>3, <1>4, <1>5 DEF PendingNow

\* Where handler r may be when it leaves a step, if "log" was buffered before and the
\* tasks in "behind" wait for the lock.
HandlerOutcome(r, log, behind) ==
    /\ Critical'
    /\ buffered' \in Buffers
    /\ Records(PendingNow', buffered', stored', faults', dropped')
    /\ handler' = [handler EXCEPT ![r] = handler'[r]]
    /\ handler'[r] \in {"request", "prediction", "done"}
    /\ ProgressOf(r)'
    /\ Inserting' => Head(lock') = r
    /\ Range(lock') \subseteq Range(behind) \cup {r}
    /\ \A t \in Table : \A q \in Req \ {r} :
           q \in Range(buffered'[t]) <=> q \in Range(log[t])

\* The records are typed and accounted for, with those in bufs pending.
Accounted(bufs, log) ==
    /\ bufs \in Buffers /\ log \in Buffers
    /\ stored' \in [Table -> [Req -> Nat]] /\ faults' \in Nat
    /\ dropped' \in [Table -> SUBSET Req]
    /\ Records(bufs, log, stored', faults', dropped')

LEMMA AddPredictionOutcome ==
    ASSUME NEW r \in Req, NEW bufs, NEW log, Accounted(bufs, log),
           NEW behind \in Seq(TaskId), IsInjective(behind), r \notin Range(behind),
           handler \in [Req -> {"idle", "request", "prediction", "done"}],
           r \in Range(log["requests"]), r \notin Range(log["predictions"]),
           AddPrediction(r, bufs, log, behind)
    PROVE  HandlerOutcome(r, log, behind)
<1> DEFINE added == [bufs EXCEPT !["predictions"] = Append(@, r)]
           log2  == [log EXCEPT !["predictions"] = Append(@, r)]
<1>1. /\ buffered' = log2
      /\ IF Len(added["predictions"]) < BatchSize
         THEN Release(added, behind) /\ handler' = [handler EXCEPT ![r] = "done"]
         ELSE /\ StartInsert(r, "predictions", added, behind)
              /\ handler' = [handler EXCEPT ![r] = "prediction"]
  BY DEF AddPrediction
<1>2. /\ bufs \in Buffers /\ log \in Buffers
      /\ stored' \in [Table -> [Req -> Nat]] /\ faults' \in Nat
      /\ dropped' \in [Table -> SUBSET Req]
      /\ Records(bufs, log, stored', faults', dropped')
  BY DEF Accounted
<1>3. "predictions" \in Table /\ "requests" \in Table /\ r \in TaskId
  BY DEF Table, TaskId
<1>4. added \in Buffers /\ log2 \in Buffers
  BY <1>2, <1>3 DEF Buffers
<1>5. stored'["predictions"][r] = 0
  BY <1>2 DEF Records
<1>6. Records(added, log2, stored', faults', dropped')
  BY <1>2, <1>3, <1>5, RecordsAppend
<1>7. /\ Range(log2["predictions"]) = Range(log["predictions"]) \cup {r}
      /\ log2["requests"] = log["requests"]
      /\ \A t \in Table : \A q \in Req \ {r} : q \in Range(log2[t]) <=> q \in Range(log[t])
  <2>1. log["predictions"] \in Seq(Req)
    BY <1>2, <1>3 DEF Buffers
  <2>2. Range(Append(log["predictions"], r)) = Range(log["predictions"]) \cup {r}
    BY <2>1, RangeFacts
  <2> QED BY <1>2, <1>3, <2>2 DEF Buffers
<1> HIDE DEF added, log2
<1>8. CASE Len(added["predictions"]) < BatchSize
  <2>1. Release(added, behind) /\ handler' = [handler EXCEPT ![r] = "done"]
    BY <1>1, <1>8
  <2>2. Critical' /\ ~Inserting' /\ lock' = behind /\ PendingNow' = added
    BY <1>4, <2>1, ReleaseOutcome
  <2>3. ProgressOf(r)'
    BY <1>1, <1>7, <2>1, <2>2 DEF ProgressOf, RequestAdded, PredictionAdded
  <2> QED BY <1>1, <1>4, <1>6, <1>7, <2>1, <2>2, <2>3 DEF HandlerOutcome
<1>9. CASE ~(Len(added["predictions"]) < BatchSize)
  <2>1. StartInsert(r, "predictions", added, behind) /\ handler' = [handler EXCEPT ![r] = "prediction"]
    BY <1>1, <1>9
  <2>2. /\ Critical' /\ Inserting' /\ insert'.table = "predictions" /\ Head(lock') = r
        /\ Range(lock') = Range(behind) \cup {r} /\ PendingNow' = added
    BY <1>3, <1>4, <2>1, StartInsertOutcome
  <2>3. ProgressOf(r)'
    BY <1>1, <1>7, <2>1, <2>2 DEF ProgressOf, RequestAdded, PredictionAdded, CallOf
  <2> QED BY <1>1, <1>4, <1>6, <1>7, <2>1, <2>2, <2>3 DEF HandlerOutcome
<1> QED BY <1>8, <1>9

LEMMA CallBufferPredictionOutcome ==
    ASSUME NEW r \in Req, NEW bufs, NEW log, Accounted(bufs, log),
           NEW behind \in Seq(TaskId), IsInjective(behind), r \notin Range(behind),
           handler \in [Req -> {"idle", "request", "prediction", "done"}],
           r \in Range(log["requests"]), r \notin Range(log["predictions"]),
           CallBufferPrediction(r, bufs, log, behind)
    PROVE  HandlerOutcome(r, log, behind)
<1>1. CASE behind = <<>>
  BY <1>1, AddPredictionOutcome DEF CallBufferPrediction
<1>2. CASE behind # <<>>
  <2>1. /\ Release(bufs, Append(behind, r))
        /\ handler' = [handler EXCEPT ![r] = "prediction"]
        /\ buffered' = log
    BY <1>2 DEF CallBufferPrediction
  <2>2. /\ Append(behind, r) \in Seq(TaskId) /\ IsInjective(Append(behind, r))
        /\ Range(Append(behind, r)) = Range(behind) \cup {r}
    <3>1. r \in TaskId
      BY DEF TaskId
    <3>2. Append(behind, r) \in Seq(TaskId)
      BY <3>1
    <3>3. Range(Append(behind, r)) = Range(behind) \cup {r}
      BY <3>1, RangeFacts
    <3>4. IsInjective(Append(behind, r))
      BY <3>1, RangeFacts
    <3> QED BY <3>2, <3>3, <3>4
  <2>3. bufs \in Buffers /\ log \in Buffers /\ Records(bufs, log, stored', faults', dropped')
    BY DEF Accounted
  <2>4. Critical' /\ ~Inserting' /\ lock' = Append(behind, r) /\ PendingNow' = bufs
    BY <2>1, <2>2, <2>3, ReleaseOutcome
  <2>5. ProgressOf(r)'
    BY <2>1, <2>4 DEF ProgressOf, RequestAdded, PredictionAdded
  <2> QED BY <2>1, <2>2, <2>3, <2>4, <2>5 DEF HandlerOutcome
<1> QED BY <1>1, <1>2

LEMMA AddRequestOutcome ==
    ASSUME NEW r \in Req, NEW bufs, Accounted(bufs, buffered),
           NEW behind \in Seq(TaskId), IsInjective(behind), r \notin Range(behind),
           handler \in [Req -> {"idle", "request", "prediction", "done"}],
           r \notin Range(buffered["predictions"]),
           AddRequest(r, bufs, behind)
    PROVE  HandlerOutcome(r, buffered, behind)
<1> DEFINE added == [bufs EXCEPT !["requests"] = Append(@, r)]
           log   == [buffered EXCEPT !["requests"] = Append(@, r)]
<1>1. IF Len(added["requests"]) < BatchSize
      THEN CallBufferPrediction(r, added, log, behind)
      ELSE /\ StartInsert(r, "requests", added, behind)
           /\ handler' = [handler EXCEPT ![r] = "request"]
           /\ buffered' = log
  BY DEF AddRequest
<1>2. /\ bufs \in Buffers /\ buffered \in Buffers
      /\ stored' \in [Table -> [Req -> Nat]] /\ faults' \in Nat
      /\ dropped' \in [Table -> SUBSET Req]
      /\ Records(bufs, buffered, stored', faults', dropped')
  BY DEF Accounted
<1>3. "predictions" \in Table /\ "requests" \in Table /\ r \in TaskId
  BY DEF Table, TaskId
<1>4. added \in Buffers /\ log \in Buffers
  BY <1>2, <1>3 DEF Buffers
<1>5. Records(added, log, stored', faults', dropped')
  BY <1>2, <1>3, RecordsAppend
<1>6. /\ Range(log["requests"]) = Range(buffered["requests"]) \cup {r}
      /\ log["predictions"] = buffered["predictions"]
      /\ \A t \in Table : \A q \in Req \ {r} : q \in Range(log[t]) <=> q \in Range(buffered[t])
  <2>1. buffered["requests"] \in Seq(Req)
    BY <1>2, <1>3 DEF Buffers
  <2>2. Range(Append(buffered["requests"], r)) = Range(buffered["requests"]) \cup {r}
    BY <2>1, RangeFacts
  <2> QED BY <1>2, <1>3, <2>2 DEF Buffers
<1>7. Accounted(added, log)
  BY <1>2, <1>4, <1>5 DEF Accounted
<1> HIDE DEF added, log
<1>8. CASE Len(added["requests"]) < BatchSize
  <2>1. HandlerOutcome(r, log, behind)
    BY <1>1, <1>6, <1>7, <1>8, CallBufferPredictionOutcome
  <2> QED BY <1>6, <2>1 DEF HandlerOutcome
<1>9. CASE ~(Len(added["requests"]) < BatchSize)
  <2>1. /\ StartInsert(r, "requests", added, behind)
        /\ handler' = [handler EXCEPT ![r] = "request"]
        /\ buffered' = log
    BY <1>1, <1>9
  <2>2. /\ Critical' /\ Inserting' /\ insert'.table = "requests" /\ Head(lock') = r
        /\ Range(lock') = Range(behind) \cup {r} /\ PendingNow' = added
    BY <1>3, <1>4, <2>1, StartInsertOutcome
  <2>3. ProgressOf(r)'
    BY <1>6, <2>1, <2>2 DEF ProgressOf, RequestAdded, PredictionAdded, CallOf
  <2> QED BY <1>4, <1>5, <1>6, <2>1, <2>2, <2>3 DEF HandlerOutcome
<1> QED BY <1>8, <1>9

\* Where the flush loop or stop() may be when it leaves a step.
FlusherOutcome(t, behind) ==
    /\ Critical'
    /\ Records(PendingNow', buffered, stored', faults', dropped')
    /\ phase' \in {"running", "stopping", "stopped"}
    /\ Inserting' => Head(lock') = t
    /\ Range(lock') \subseteq Range(behind) \cup {t}
    /\ FlushOrder'

LEMMA FlushPredictionsOutcome ==
    ASSUME NEW t \in Flusher, NEW bufs, Accounted(bufs, buffered),
           NEW behind \in Seq(TaskId), IsInjective(behind), t \notin Range(behind),
           phase \in {"running", "stopping", "stopped"},
           faults' = 0 /\ Refused = {} => bufs["requests"] = <<>>,
           FlushPredictions(t, bufs, behind)
    PROVE  FlusherOutcome(t, behind)
<1>1. bufs \in Buffers /\ Records(bufs, buffered, stored', faults', dropped')
  BY DEF Accounted
<1>2. "predictions" \in Table /\ t \in TaskId
  BY DEF Table, TaskId
<1>3. CASE bufs["predictions"] # <<>>
  <2>1. StartInsert(t, "predictions", bufs, behind) /\ phase' = IF t = Stopper THEN "stopping" ELSE phase
    BY <1>3 DEF FlushPredictions
  <2>2. /\ Critical' /\ Inserting' /\ Head(lock') = t /\ Range(lock') = Range(behind) \cup {t}
        /\ PendingNow' = bufs /\ buffer'["requests"] = bufs["requests"]
    BY <1>1, <1>2, <2>1, StartInsertOutcome
  <2> QED BY <1>1, <2>1, <2>2 DEF FlusherOutcome, FlushOrder
<1>4. CASE bufs["predictions"] = <<>>
  <2>1. Release(bufs, behind) /\ phase' = IF t = Stopper THEN "stopped" ELSE phase
    BY <1>4 DEF FlushPredictions
  <2>2. Critical' /\ ~Inserting' /\ lock' = behind /\ PendingNow' = bufs
    BY <1>1, <2>1, ReleaseOutcome
  <2> QED BY <1>1, <2>1, <2>2 DEF FlusherOutcome, FlushOrder
<1> QED BY <1>3, <1>4

LEMMA FlushOutcome ==
    ASSUME NEW t \in Flusher, NEW bufs, Accounted(bufs, buffered),
           NEW behind \in Seq(TaskId), IsInjective(behind), t \notin Range(behind),
           phase \in {"running", "stopping", "stopped"},
           Flush(t, bufs, behind)
    PROVE  FlusherOutcome(t, behind)
<1>1. bufs \in Buffers /\ Records(bufs, buffered, stored', faults', dropped')
  BY DEF Accounted
<1>2. "requests" \in Table /\ t \in TaskId
  BY DEF Table, TaskId
<1>3. CASE bufs["requests"] # <<>>
  <2>1. StartInsert(t, "requests", bufs, behind) /\ phase' = IF t = Stopper THEN "stopping" ELSE phase
    BY <1>3 DEF Flush
  <2>2. /\ Critical' /\ Inserting' /\ insert'.table = "requests"
        /\ Head(lock') = t /\ Range(lock') = Range(behind) \cup {t} /\ PendingNow' = bufs
    BY <1>1, <1>2, <2>1, StartInsertOutcome
  <2> QED BY <1>1, <2>1, <2>2 DEF FlusherOutcome, FlushOrder
<1>4. CASE bufs["requests"] = <<>>
  <2>1. FlushPredictions(t, bufs, behind)
    BY <1>4 DEF Flush
  <2> QED BY <1>4, <2>1, FlushPredictionsOutcome
<1> QED BY <1>3, <1>4

-----------------------------------------------------------------------------
\* What is pending, by the buffers and the insert.
LEMMA PendingFacts ==
    ASSUME Critical
    PROVE  /\ PendingNow \in Buffers
           /\ ~Inserting => PendingNow = buffer
           /\ Inserting => /\ insert.table \in Table /\ insert.batch \in Seq(Req)
                           /\ buffer[insert.table] = <<>>
                           /\ PendingNow = [buffer EXCEPT ![insert.table] = insert.batch]
                           /\ PendingNow = Rebuffer(insert)
<1>1. ASSUME ~Inserting PROVE PendingNow = buffer
  <2>1. insert = NoInsert
    BY <1>1 DEF Inserting
  <2>2. ASSUME NEW t \in Table PROVE Pending(t) = buffer[t]
    <3>1. buffer[t] \in Seq(Req) /\ <<>> \o buffer[t] = buffer[t] /\ t # "none"
      BY DEF Critical, Buffers, Table
    <3> QED BY <2>1, <3>1 DEF Pending, NoInsert
  <2>3. buffer = [t \in Table |-> buffer[t]]
    BY DEF Critical, Buffers
  <2> QED BY <2>2, <2>3 DEF PendingNow
<1>2. ASSUME Inserting
      PROVE  /\ insert.table \in Table /\ insert.batch \in Seq(Req)
             /\ buffer[insert.table] = <<>>
             /\ PendingNow = [buffer EXCEPT ![insert.table] = insert.batch]
             /\ PendingNow = Rebuffer(insert)
  <2>1. /\ insert.table \in Table /\ insert.batch \in Seq(Req) /\ buffer[insert.table] = <<>>
    BY <1>2 DEF Critical
  <2>2. /\ insert.batch \o <<>> = insert.batch /\ <<>> \o insert.batch = insert.batch
    BY <2>1
  <2>3. ASSUME NEW t \in Table
        PROVE  Pending(t) = IF t = insert.table THEN insert.batch ELSE buffer[t]
    <3>1. buffer[t] \in Seq(Req) /\ <<>> \o buffer[t] = buffer[t]
      BY DEF Critical, Buffers
    <3> QED BY <2>1, <2>2, <3>1 DEF Pending
  <2>4. buffer \in Buffers
    BY DEF Critical
  <2>5. PendingNow = [buffer EXCEPT ![insert.table] = insert.batch]
    BY <2>3, <2>4 DEF PendingNow, Buffers
  <2>6. Rebuffer(insert) = [buffer EXCEPT ![insert.table] = insert.batch]
    BY <2>1, <2>2 DEF Rebuffer
  <2> QED BY <2>1, <2>5, <2>6
<1>3. PendingNow \in Buffers
  BY <1>1, <1>2 DEF Critical, Buffers
<1> QED BY <1>1, <1>2, <1>3

\* The rows an insert adds.
LEMMA RowsAfterFacts ==
    ASSUME Critical, Surroundings, Inserting
    PROVE  /\ RowsAfter(insert) \in [Table -> [Req -> Nat]]
           /\ \A t \in Table : \A r \in Req :
                 RowsAfter(insert)[t][r] =
                     IF t # insert.table \/ r \notin Range(insert.batch) THEN stored[t][r]
                     ELSE IF t = "requests" THEN 1 ELSE stored[t][r] + 1
<1>1. insert.table \in Table
  BY PendingFacts
<1>2. stored \in [Table -> [Req -> Nat]]
  BY DEF Surroundings
<1> QED BY <1>1, <1>2 DEF RowsAfter

\* The records are accounted for after an insert that was answered in some way: the
\* rows may have been added; if they were not, or if an error came back, the batch
\* is still pending.
LEMMA AnswerAccounted ==
    ASSUME WriterInv, Inserting,
           stored' = RowsAfter(insert) \/ stored' = stored,
           faults' \in Nat, faults <= faults',
           dropped' \in [Table -> SUBSET Req],
           \A t \in Table : dropped[t] \subseteq dropped'[t],
           NEW kept \in BOOLEAN, NEW bufs, bufs = IF kept THEN PendingNow ELSE buffer,
           kept \/ stored' = RowsAfter(insert) \/ Range(insert.batch) \subseteq dropped'[insert.table],
           ~kept \/ stored' = stored \/ faults' = faults + 1
    PROVE  Accounted(bufs, buffered)
<1> DEFINE log == buffered
<1>1. /\ Critical /\ Surroundings /\ Progress
      /\ Records(PendingNow, buffered, stored, faults, dropped)
  BY DEF WriterInv
<1>2. /\ PendingNow \in Buffers /\ insert.table \in Table /\ insert.batch \in Seq(Req)
      /\ buffer[insert.table] = <<>>
      /\ PendingNow = [buffer EXCEPT ![insert.table] = insert.batch]
  BY <1>1, PendingFacts
<1>3. /\ buffer \in Buffers /\ buffered \in Buffers /\ faults \in Nat
      /\ stored \in [Table -> [Req -> Nat]] /\ dropped \in [Table -> SUBSET Req]
  BY <1>1, WriterAssumption DEF Critical, Surroundings
<1>4. /\ RowsAfter(insert) \in [Table -> [Req -> Nat]]
      /\ \A t \in Table : \A r \in Req :
                 RowsAfter(insert)[t][r] =
                     IF t # insert.table \/ r \notin Range(insert.batch) THEN stored[t][r]
                     ELSE IF t = "requests" THEN 1 ELSE stored[t][r] + 1
  BY <1>1, RowsAfterFacts
<1>5. /\ bufs \in Buffers
      /\ \A t \in Table : bufs[t] = IF ~kept /\ t = insert.table THEN <<>> ELSE PendingNow[t]
  BY <1>2, <1>3 DEF Buffers
<1>6. PendingNow[insert.table] = insert.batch
  BY <1>2, <1>3 DEF Buffers
<1>7. stored' \in [Table -> [Req -> Nat]]
  BY <1>3, <1>4
<1>8. \A t \in Table : Range(PendingNow[t]) \subseteq Range(buffered[t])
                      /\ Range(buffered[t]) \subseteq Req
  BY <1>1, <1>2, <1>3, SuffixFacts, RangeFacts DEF Records, Buffers
<1>9. Range(<<>>) = {} /\ "predictions" \in Table
  BY DEF Range, Table
<1>10. ASSUME NEW t \in Table PROVE IsSuffix(bufs[t], buffered[t])
  <2>1. IsSuffix(PendingNow[t], buffered[t]) /\ buffered[t] \in Seq(Req)
    BY <1>1, <1>3 DEF Records, Buffers
  <2> QED BY <1>5, <2>1, SuffixFacts
<1>11. ASSUME NEW t \in Table, NEW r \in Range(buffered[t])
       PROVE  stored'[t][r] > 0 \/ r \in Range(bufs[t]) \/ r \in dropped'[t]
  <2>1. r \in Req
    BY <1>8
  <2>2. stored[t][r] > 0 => stored'[t][r] > 0
    BY <1>3, <1>4, <2>1
  <2>3. stored[t][r] > 0 \/ r \in Range(PendingNow[t]) \/ r \in dropped[t]
    BY <1>1 DEF Records
  <2>4. CASE r \in Range(PendingNow[t]) /\ ~(~kept /\ t = insert.table)
    BY <1>5, <2>4
  <2>5. CASE r \in Range(PendingNow[t]) /\ ~kept /\ t = insert.table
    <3>1. r \in Range(insert.batch)
      BY <1>6, <2>5
    <3>2. CASE stored' = RowsAfter(insert)
      BY <1>3, <1>4, <2>1, <2>5, <3>1, <3>2
    <3>3. CASE Range(insert.batch) \subseteq dropped'[insert.table]
      BY <2>5, <3>1, <3>3
    <3> QED BY <2>5, <3>2, <3>3
  <2> QED BY <2>2, <2>3, <2>4, <2>5
<1>12. ASSUME NEW t \in Table, NEW r \in Req
       PROVE  stored'[t][r] <= 1 + faults'
  <2>1. stored[t][r] \in Nat /\ stored[t][r] <= 1 + faults
    BY <1>1, <1>3 DEF Records
  <2>2. CASE t = "predictions" /\ t = insert.table /\ r \in Range(insert.batch)
    <3>1. stored[t][r] <= faults
      BY <1>1, <1>6, <2>2 DEF Records
    <3> QED BY <1>3, <1>4, <2>1, <2>2, <3>1
  <2>3. CASE ~(t = "predictions" /\ t = insert.table /\ r \in Range(insert.batch))
    BY <1>3, <1>4, <2>1, <2>3 DEF Table
  <2> QED BY <2>2, <2>3
<1>13. ASSUME NEW r \in Req, r \notin Range(buffered["predictions"])
       PROVE  stored'["predictions"][r] = 0
  <2>1. stored["predictions"][r] = 0
    BY <1>1, <1>13 DEF Records
  <2>2. "predictions" # insert.table \/ r \notin Range(insert.batch)
    BY <1>6, <1>8, <1>9, <1>13
  <2> QED BY <1>4, <1>9, <2>1, <2>2
<1>14. ASSUME NEW r \in Req, r \in Range(bufs["predictions"])
       PROVE  stored'["predictions"][r] <= faults'
  <2>1. /\ r \in Range(PendingNow["predictions"])
        /\ ~(~kept /\ "predictions" = insert.table)
    BY <1>5, <1>9, <1>14
  <2>2. stored["predictions"][r] <= faults /\ stored["predictions"][r] \in Nat
    BY <1>1, <1>3, <1>9, <2>1 DEF Records
  <2>3. RowsAfter(insert)["predictions"][r] \in
            {stored["predictions"][r], stored["predictions"][r] + 1}
    BY <1>4, <1>9
  <2>4. CASE ~kept
    <3>1. RowsAfter(insert)["predictions"][r] = stored["predictions"][r]
      BY <1>4, <1>9, <2>1, <2>4
    <3>2. stored'["predictions"][r] = stored["predictions"][r]
      BY <3>1
    <3> QED BY <1>3, <2>2, <3>2
  <2>5. CASE kept
    <3>1. CASE stored' = stored
      BY <1>3, <2>2, <3>1
    <3>2. CASE stored' = RowsAfter(insert) /\ faults' = faults + 1
      <4>1. stored'["predictions"][r] \in
                {stored["predictions"][r], stored["predictions"][r] + 1}
        BY <2>3, <3>2
      <4> QED BY <1>3, <2>2, <3>2, <4>1
    <3> QED BY <2>5, <3>1, <3>2
  <2> QED BY <2>4, <2>5
<1>15. Records(bufs, buffered, stored', faults', dropped')
  BY <1>10, <1>11, <1>12, <1>13, <1>14 DEF Records
<1> QED BY <1>3, <1>5, <1>7, <1>15 DEF Accounted

\* Without an insert nothing changes until the holder goes on.
LEMMA QuietAccounted ==
    ASSUME WriterInv, ~Inserting, UNCHANGED <<stored, faults, dropped>>
    PROVE  Accounted(buffer, buffered)
<1>1. Critical /\ Surroundings /\ Records(PendingNow, buffered, stored, faults, dropped)
  BY DEF WriterInv
<1>2. PendingNow = buffer
  BY <1>1, PendingFacts
<1> QED BY <1>1, <1>2, WriterAssumption DEF Accounted, Critical, Surroundings

-----------------------------------------------------------------------------
\* The queue of the lock: its holder and those that wait.
LEMMA LockFacts ==
    ASSUME Critical, lock # <<>>
    PROVE  /\ Head(lock) \in TaskId /\ Head(lock) \in Range(lock)
           /\ Tail(lock) \in Seq(TaskId) /\ IsInjective(Tail(lock))
           /\ Head(lock) \notin Range(Tail(lock))
           /\ Range(Tail(lock)) \subseteq Range(lock)
<1>1. lock \in Seq(TaskId) /\ IsInjective(lock)
  BY DEF Critical
<1>2. Head(lock) \in TaskId /\ Tail(lock) \in Seq(TaskId)
  BY <1>1
<1>3. Range(lock) = Range(Tail(lock)) \cup {Head(lock)}
  BY <1>1, RangeFacts
<1>4. IsInjective(Tail(lock)) /\ Head(lock) \notin Range(Tail(lock))
  BY <1>1, RangeFacts
<1> QED BY <1>2, <1>3, <1>4

\* Nobody but handler r and those already in the queue are concerned by a step of
\* handler r.
LEMMA HandlerStep ==
    ASSUME WriterInv, NEW r \in Req, NEW behind,
           HandlerOutcome(r, buffered, behind),
           Range(behind) \subseteq Range(lock),
           Inserting => Head(lock) \notin Req \ {r},
           phase' = phase,
           stored' \in [Table -> [Req -> Nat]], faults' \in 0..MaxFaults,
           dropped' \in [Table -> SUBSET Req]
    PROVE  WriterInv'
<1>1. /\ Critical' /\ buffered' \in Buffers
      /\ Records(PendingNow', buffered', stored', faults', dropped')
      /\ handler' = [handler EXCEPT ![r] = handler'[r]]
      /\ handler'[r] \in {"request", "prediction", "done"}
      /\ ProgressOf(r)'
      /\ Inserting' => Head(lock') = r
      /\ Range(lock') \subseteq Range(behind) \cup {r}
      /\ \A t \in Table : \A q \in Req \ {r} :
             q \in Range(buffered'[t]) <=> q \in Range(buffered[t])
  BY DEF HandlerOutcome
<1>2. Surroundings /\ Progress
  BY DEF WriterInv
<1>3. Surroundings'
  BY <1>1, <1>2 DEF Surroundings
<1>4. ASSUME NEW q \in Req, q # r PROVE ProgressOf(q)'
  <2>1. ProgressOf(q) /\ handler'[q] = handler[q]
    BY <1>1, <1>2, <1>4 DEF Progress, Surroundings
  <2>2. ~(Inserting /\ Head(lock) = q) /\ ~(Inserting' /\ Head(lock') = q)
    BY <1>1, <1>4
  <2>3. q \in Range(lock') => q \in Range(lock)
    BY <1>1, <1>4
  <2>4. "requests" \in Table /\ "predictions" \in Table
    BY DEF Table
  <2>5. /\ q \in Range(buffered'["requests"]) <=> q \in Range(buffered["requests"])
        /\ q \in Range(buffered'["predictions"]) <=> q \in Range(buffered["predictions"])
    BY <1>1, <1>4, <2>4
  <2> QED BY <2>1, <2>2, <2>3, <2>5 DEF ProgressOf, RequestAdded, PredictionAdded
<1>5. Progress'
  BY <1>1, <1>4 DEF Progress
<1>6. FlushOrder'
  BY <1>1, WriterAssumption DEF FlushOrder
<1> QED BY <1>1, <1>3, <1>5, <1>6 DEF WriterInv

\* No handler is concerned by a step of the flush loop or of stop().
LEMMA FlusherStep ==
    ASSUME WriterInv, NEW t \in Flusher, NEW behind,
           FlusherOutcome(t, behind),
           Range(behind) \subseteq Range(lock),
           Inserting => Head(lock) \notin Req,
           UNCHANGED <<handler, buffered>>,
           stored' \in [Table -> [Req -> Nat]], faults' \in 0..MaxFaults,
           dropped' \in [Table -> SUBSET Req]
    PROVE  WriterInv'
<1>1. /\ Critical' /\ FlushOrder'
      /\ Records(PendingNow', buffered', stored', faults', dropped')
      /\ phase' \in {"running", "stopping", "stopped"}
      /\ Inserting' => Head(lock') = t
      /\ Range(lock') \subseteq Range(behind) \cup {t}
  BY DEF FlusherOutcome
<1>2. Surroundings /\ Progress
  BY DEF WriterInv
<1>3. Surroundings'
  BY <1>1, <1>2 DEF Surroundings
<1>4. ASSUME NEW q \in Req PROVE ProgressOf(q)'
  <2>1. ProgressOf(q)
    BY <1>2 DEF Progress
  <2>2. q # t
    BY WriterAssumption
  <2>3. ~(Inserting /\ Head(lock) = q) /\ ~(Inserting' /\ Head(lock') = q)
    BY <1>1, <2>2
  <2>4. q \in Range(lock') => q \in Range(lock)
    BY <1>1, <2>2
  <2> QED BY <2>1, <2>3, <2>4 DEF ProgressOf, RequestAdded, PredictionAdded
<1> QED BY <1>1, <1>3, <1>4 DEF WriterInv, Progress

\* A task that joins the queue of the lock changes nothing else.
LEMMA WaitStep ==
    ASSUME WriterInv, lock # <<>>, NEW t \in TaskId, t \notin Range(lock),
           lock' = Append(lock, t),
           UNCHANGED <<phase, buffer, insert, stored, faults, buffered, dropped>>,
           \/ t \in Req /\ handler[t] = "idle" /\ handler' = [handler EXCEPT ![t] = "request"]
           \/ t \in Flusher /\ handler' = handler
    PROVE  WriterInv'
<1>1. /\ Critical /\ Surroundings /\ Progress /\ FlushOrder
      /\ Records(PendingNow, buffered, stored, faults, dropped)
  BY DEF WriterInv
<1>2. lock \in Seq(TaskId) /\ IsInjective(lock)
  BY <1>1 DEF Critical
<1>3. lock' \in Seq(TaskId) /\ lock' # <<>> /\ Head(lock') = Head(lock)
  BY <1>2
<1>4. IsInjective(Append(lock, t))
  BY <1>2, RangeFacts
<1>5. Range(Append(lock, t)) = Range(lock) \cup {t}
  BY <1>2, RangeFacts
<1>6. Inserting' = Inserting
  BY DEF Inserting
<1>7. Critical'
  BY <1>1, <1>3, <1>4, <1>6 DEF Critical
<1>8. Surroundings'
  BY <1>1 DEF Surroundings
<1>9. ASSUME NEW q \in Req PROVE ProgressOf(q)'
  <2>1. ProgressOf(q)
    BY <1>1 DEF Progress
  <2>2. CASE q = t
    <3>1. handler[q] = "idle" /\ handler'[q] = "request"
      BY <1>1, <2>2, WriterAssumption DEF Surroundings
    <3>2. Head(lock) # q
      BY <1>1, <2>2, LockFacts
    <3> QED BY <1>3, <2>1, <3>1, <3>2 DEF ProgressOf, RequestAdded, PredictionAdded
  <2>3. CASE q # t
    <3>1. handler'[q] = handler[q]
      BY <1>1, <2>3 DEF Surroundings
    <3>2. q \in Range(lock') <=> q \in Range(lock)
      BY <1>5, <2>3
    <3> QED BY <1>3, <1>6, <2>1, <3>1, <3>2 DEF ProgressOf, RequestAdded, PredictionAdded
  <2> QED BY <2>2, <2>3
<1>10. PendingNow' = PendingNow
  BY DEF PendingNow, Pending
<1>11. FlushOrder'
  BY <1>1, <1>3, <1>6 DEF FlushOrder
<1> QED BY <1>1, <1>7, <1>8, <1>9, <1>10, <1>11 DEF WriterInv, Progress

-----------------------------------------------------------------------------
\* The actions.

LEMMA InitInv == Init => WriterInv
<1> SUFFICES ASSUME Init PROVE WriterInv
  OBVIOUS
<1> USE DEF Init
<1>1. /\ <<>> \in Seq(TaskId) /\ <<>> \in Seq(Req) /\ IsInjective(<<>>) /\ Range(<<>>) = {}
      /\ <<>> \o <<>> = <<>>
  BY DEF IsInjective, Range
<1>2. ~Inserting /\ insert.table = "none" /\ insert.batch = <<>>
  BY DEF Inserting, NoInsert
<1>3. Critical
  BY <1>1, <1>2 DEF Critical, Buffers, NoInsert
<1>4. Surroundings
  BY <1>1, WriterAssumption DEF Surroundings, Buffers
<1>5. "requests" \in Table /\ "predictions" \in Table
  BY DEF Table
<1>6. Progress
  BY <1>1, <1>2, <1>5 DEF Progress, ProgressOf, RequestAdded, PredictionAdded
<1>7. PendingNow = buffer
  BY <1>2, <1>3, PendingFacts
<1>8. IsSuffix(<<>>, <<>>)
  BY <1>1, SuffixFacts
<1>9. Records(PendingNow, buffered, stored, faults, dropped)
  BY <1>1, <1>5, <1>7, <1>8 DEF Records
<1>10. FlushOrder
  BY <1>2 DEF FlushOrder
<1> QED BY <1>3, <1>4, <1>6, <1>9, <1>10 DEF WriterInv

LEMMA SubmitInv ==
    ASSUME WriterInv, NEW r \in Req, Submit(r)
    PROVE  WriterInv'
<1>1. /\ Critical /\ Surroundings /\ ProgressOf(r) /\ handler[r] = "idle"
      /\ UNCHANGED <<phase, stored, faults, dropped>>
  BY DEF WriterInv, Progress, Submit
<1>2. r \in TaskId /\ r \notin Range(lock) /\ r \notin Range(buffered["predictions"])
  BY <1>1 DEF TaskId, ProgressOf, PredictionAdded
<1>3. CASE lock = <<>>
  <2>1. AddRequest(r, buffer, <<>>) /\ ~Inserting
    BY <1>1, <1>3 DEF Submit, Critical
  <2>2. <<>> \in Seq(TaskId) /\ IsInjective(<<>>) /\ Range(<<>>) = {}
    BY DEF IsInjective, Range
  <2>3. Accounted(buffer, buffered)
    BY <1>1, <2>1, QuietAccounted
  <2>4. HandlerOutcome(r, buffered, <<>>)
    BY <1>1, <1>2, <2>1, <2>2, <2>3, AddRequestOutcome DEF Surroundings
  <2> QED BY <1>1, <2>1, <2>2, <2>4, HandlerStep DEF Surroundings
<1>4. CASE lock # <<>>
  <2>1. /\ lock' = Append(lock, r) /\ handler' = [handler EXCEPT ![r] = "request"]
        /\ UNCHANGED <<buffer, insert, buffered>>
    BY <1>4 DEF Submit
  <2> QED BY <1>1, <1>2, <1>4, <2>1, WaitStep
<1> QED BY <1>3, <1>4

LEMMA LoopWakesInv ==
    ASSUME WriterInv, LoopWakes
    PROVE  WriterInv'
<1>1. /\ Critical /\ Surroundings /\ Loop \notin Range(lock)
      /\ UNCHANGED <<handler, stored, faults, buffered, dropped>>
  BY DEF WriterInv, LoopWakes
<1>2. Loop \in Flusher /\ Loop \in TaskId
  BY DEF Flusher, TaskId
<1>3. CASE lock = <<>>
  <2>1. Flush(Loop, buffer, <<>>) /\ ~Inserting
    BY <1>1, <1>3 DEF LoopWakes, Critical
  <2>2. <<>> \in Seq(TaskId) /\ IsInjective(<<>>) /\ Range(<<>>) = {}
    BY DEF IsInjective, Range
  <2>3. Accounted(buffer, buffered)
    BY <1>1, <2>1, QuietAccounted
  <2>4. FlusherOutcome(Loop, <<>>)
    BY <1>1, <1>2, <2>1, <2>2, <2>3, FlushOutcome DEF Surroundings
  <2> QED BY <1>1, <1>2, <2>1, <2>2, <2>4, FlusherStep DEF Surroundings
<1>4. CASE lock # <<>>
  <2>1. lock' = Append(lock, Loop) /\ UNCHANGED <<phase, buffer, insert>>
    BY <1>4 DEF LoopWakes
  <2> QED BY <1>1, <1>2, <1>4, <2>1, WaitStep
<1> QED BY <1>3, <1>4

LEMMA HandlerTurnInv ==
    ASSUME WriterInv, NEW r \in Req, HandlerTurn(r)
    PROVE  WriterInv'
<1>1. /\ Critical /\ Surroundings /\ ProgressOf(r)
      /\ ~Inserting /\ lock # <<>> /\ Head(lock) = r
      /\ UNCHANGED <<phase, stored, faults, dropped>>
  BY DEF WriterInv, Progress, HandlerTurn
<1>2. /\ Tail(lock) \in Seq(TaskId) /\ IsInjective(Tail(lock)) /\ r \notin Range(Tail(lock))
      /\ Range(Tail(lock)) \subseteq Range(lock)
  BY <1>1, LockFacts
<1>3. Accounted(buffer, buffered)
  BY <1>1, QuietAccounted
<1>4. r \notin Range(buffered["predictions"]) \/ handler[r] = "done"
  BY <1>1 DEF ProgressOf, PredictionAdded
<1>5. CASE handler[r] = "request" /\ AddRequest(r, buffer, Tail(lock))
  <2>1. HandlerOutcome(r, buffered, Tail(lock))
    BY <1>1, <1>2, <1>3, <1>4, <1>5, AddRequestOutcome DEF Surroundings
  <2> QED BY <1>1, <1>2, <2>1, HandlerStep DEF Surroundings
<1>6. CASE handler[r] = "prediction" /\ AddPrediction(r, buffer, buffered, Tail(lock))
  <2>1. r \in Range(buffered["requests"])
    BY <1>1, <1>6 DEF ProgressOf, RequestAdded
  <2>2. HandlerOutcome(r, buffered, Tail(lock))
    BY <1>1, <1>2, <1>3, <1>4, <1>6, <2>1, AddPredictionOutcome DEF Surroundings
  <2> QED BY <1>1, <1>2, <2>2, HandlerStep DEF Surroundings
<1> QED BY <1>5, <1>6 DEF HandlerTurn

LEMMA LoopTurnInv ==
    ASSUME WriterInv, LoopTurn
    PROVE  WriterInv'
<1>1. /\ Critical /\ Surroundings
      /\ ~Inserting /\ lock # <<>> /\ Head(lock) = Loop /\ Flush(Loop, buffer, Tail(lock))
      /\ UNCHANGED <<handler, stored, faults, buffered, dropped>>
  BY DEF WriterInv, LoopTurn
<1>2. /\ Tail(lock) \in Seq(TaskId) /\ IsInjective(Tail(lock)) /\ Loop \notin Range(Tail(lock))
      /\ Range(Tail(lock)) \subseteq Range(lock)
  BY <1>1, LockFacts
<1>3. Loop \in Flusher
  BY DEF Flusher
<1>4. Accounted(buffer, buffered)
  BY <1>1, QuietAccounted
<1>5. FlusherOutcome(Loop, Tail(lock))
  BY <1>1, <1>2, <1>3, <1>4, FlushOutcome DEF Surroundings
<1> QED BY <1>1, <1>2, <1>3, <1>5, FlusherStep DEF Surroundings

\* The holder of the lock goes on when its insert has been answered.
LEMMA ContinueInv ==
    ASSUME WriterInv, Inserting, NEW bufs, Accounted(bufs, buffered), Continue(bufs),
           faults' = 0 /\ Refused = {} /\ insert.table = "requests" => bufs["requests"] = <<>>,
           faults' \in 0..MaxFaults
    PROVE  WriterInv'
<1>1. Critical /\ Surroundings /\ Progress /\ lock # <<>>
  BY DEF WriterInv, Critical
<1> PICK t : t = Head(lock)
  OBVIOUS
<1> PICK behind : behind = Tail(lock)
  OBVIOUS
<1>2. /\ behind \in Seq(TaskId) /\ IsInjective(behind) /\ t \notin Range(behind)
      /\ Range(behind) \subseteq Range(lock)
  BY <1>1, LockFacts
<1>3. /\ bufs \in Buffers /\ buffered \in Buffers
      /\ stored' \in [Table -> [Req -> Nat]] /\ dropped' \in [Table -> SUBSET Req]
      /\ Records(bufs, buffered, stored', faults', dropped')
  BY DEF Accounted
<1>4. insert.table = "requests" \/ insert.table = "predictions"
  BY <1>1, PendingFacts DEF Table
<1>5. CASE /\ t \in Flusher
           /\ IF insert.table = "requests"
              THEN FlushPredictions(t, bufs, behind)
              ELSE Release(bufs, behind) /\ phase' = IF t = Stopper THEN "stopped" ELSE phase
           /\ UNCHANGED <<handler, buffered>>
  <2>1. FlusherOutcome(t, behind)
    <3>1. CASE insert.table = "requests"
      <4>1. FlushPredictions(t, bufs, behind)
        BY <1>5, <3>1
      <4> QED BY <1>1, <1>2, <1>5, <3>1, <4>1, FlushPredictionsOutcome DEF Surroundings
    <3>2. CASE insert.table # "requests"
      <4>1. Release(bufs, behind) /\ phase' = IF t = Stopper THEN "stopped" ELSE phase
        BY <1>5, <3>2
      <4>2. Critical' /\ ~Inserting' /\ lock' = behind /\ PendingNow' = bufs
        BY <1>2, <1>3, <4>1, ReleaseOutcome
      <4>3. phase' \in {"running", "stopping", "stopped"}
        BY <1>1, <4>1 DEF Surroundings
      <4>4. Range(lock') \subseteq Range(behind) \cup {t}
        BY <4>2
      <4> QED BY <1>3, <4>2, <4>3, <4>4 DEF FlusherOutcome, FlushOrder
    <3> QED BY <3>1, <3>2
  <2>2. t \notin Req
    BY <1>5, WriterAssumption
  <2>3. UNCHANGED <<handler, buffered>> /\ t \in Flusher
    BY <1>5
  <2> QED BY <1>2, <1>3, <2>1, <2>2, <2>3, FlusherStep
<1>6. CASE /\ t \in Req
           /\ IF insert.table = "requests"
              THEN CallBufferPrediction(t, bufs, buffered, behind)
              ELSE /\ Release(bufs, behind)
                   /\ handler' = [handler EXCEPT ![t] = "done"]
                   /\ UNCHANGED buffered
           /\ UNCHANGED phase
  <2>1. ProgressOf(t) /\ handler[t] = CallOf(insert.table)
    BY <1>1, <1>6 DEF Progress, ProgressOf
  <2>2. t \in Range(buffered["requests"])
    BY <1>4, <2>1 DEF ProgressOf, RequestAdded, CallOf
  <2>3. t \in Range(buffered["predictions"]) <=> insert.table = "predictions"
    BY <1>4, <2>1 DEF ProgressOf, PredictionAdded, CallOf
  <2>4. HandlerOutcome(t, buffered, behind)
    <3>1. CASE insert.table = "requests"
      <4>1. CallBufferPrediction(t, bufs, buffered, behind)
        BY <1>6, <3>1
      <4>2. t \notin Range(buffered["predictions"])
        BY <2>3, <3>1
      <4> QED BY <1>1, <1>2, <1>6, <2>2, <4>1, <4>2, CallBufferPredictionOutcome DEF Surroundings
    <3>2. CASE insert.table = "predictions"
      <4>1. /\ Release(bufs, behind) /\ handler' = [handler EXCEPT ![t] = "done"]
            /\ buffered' = buffered
        BY <1>6, <3>2
      <4>2. Critical' /\ ~Inserting' /\ lock' = behind /\ PendingNow' = bufs
        BY <1>2, <1>3, <4>1, ReleaseOutcome
      <4>3. handler'[t] = "done" /\ handler' = [handler EXCEPT ![t] = handler'[t]]
        BY <1>1, <1>6, <4>1 DEF Surroundings
      <4>4. t \in Range(buffered'["predictions"]) /\ t \in Range(buffered'["requests"])
        BY <2>2, <2>3, <3>2, <4>1
      <4>5. t \notin Range(lock')
        BY <1>2, <4>2
      <4>6. ProgressOf(t)'
        BY <4>2, <4>3, <4>4, <4>5 DEF ProgressOf, RequestAdded, PredictionAdded
      <4> QED BY <1>3, <4>1, <4>2, <4>3, <4>6 DEF HandlerOutcome
    <3> QED BY <1>4, <3>1, <3>2
  <2>5. t \in Req /\ phase' = phase /\ (Inserting => Head(lock) \notin Req \ {t})
    BY <1>6
  <2> QED BY <1>2, <1>3, <2>4, <2>5, HandlerStep
<1> QED BY <1>5, <1>6 DEF Continue

LEMMA InsertCommitsInv ==
    ASSUME WriterInv, InsertCommits
    PROVE  WriterInv'
<1>1. /\ Critical /\ Surroundings /\ Inserting
      /\ stored' = RowsAfter(insert) /\ Continue(buffer) /\ UNCHANGED <<faults, dropped>>
  BY DEF WriterInv, InsertCommits
<1>2. /\ faults' \in 0..MaxFaults /\ faults' \in Nat /\ faults <= faults'
      /\ dropped' \in [Table -> SUBSET Req] /\ \A t \in Table : dropped[t] \subseteq dropped'[t]
  BY <1>1, WriterAssumption DEF Surroundings
<1>3. Accounted(buffer, buffered)
  BY <1>1, <1>2, AnswerAccounted
<1>4. buffer[insert.table] = <<>>
  BY <1>1, PendingFacts
<1> QED BY <1>1, <1>2, <1>3, <1>4, ContinueInv

LEMMA InsertRefusedInv ==
    ASSUME WriterInv, InsertRefused
    PROVE  WriterInv'
<1>1. /\ Critical /\ Surroundings /\ Inserting /\ ~Insertable(insert)
      /\ Continue(Rebuffer(insert)) /\ UNCHANGED <<stored, faults, dropped>>
  BY DEF WriterInv, InsertRefused
<1>2. /\ faults' \in 0..MaxFaults /\ faults' \in Nat /\ faults <= faults'
      /\ dropped' \in [Table -> SUBSET Req] /\ \A t \in Table : dropped[t] \subseteq dropped'[t]
  BY <1>1, WriterAssumption DEF Surroundings
<1>3. Accounted(PendingNow, buffered)
  BY <1>1, <1>2, AnswerAccounted
<1>4. Continue(PendingNow)
  BY <1>1, PendingFacts
<1>5. ~(Refused = {} /\ insert.table = "requests")
  BY <1>1 DEF Insertable
<1> QED BY <1>1, <1>2, <1>3, <1>4, <1>5, ContinueInv

LEMMA InsertFailsInv ==
    ASSUME WriterInv, InsertFails
    PROVE  WriterInv'
<1>1. /\ Critical /\ Surroundings /\ Inserting
      /\ faults < MaxFaults /\ faults' = faults + 1
      /\ stored' = stored \/ stored' = RowsAfter(insert)
      /\ Continue(Rebuffer(insert)) /\ UNCHANGED dropped
  BY DEF WriterInv, InsertFails
<1>2. /\ faults' \in 0..MaxFaults /\ faults' \in Nat /\ faults <= faults' /\ faults' # 0
      /\ dropped' \in [Table -> SUBSET Req] /\ \A t \in Table : dropped[t] \subseteq dropped'[t]
  BY <1>1, WriterAssumption DEF Surroundings
<1>3. Accounted(PendingNow, buffered)
  BY <1>1, <1>2, AnswerAccounted
<1>4. Continue(PendingNow)
  BY <1>1, PendingFacts
<1> QED BY <1>1, <1>2, <1>3, <1>4, ContinueInv

\* No handler holds the lock when stop() is called: its final flush takes over from
\* the flush loop.
LEMMA StopInv ==
    ASSUME WriterInv, Stop
    PROVE  WriterInv'
<1>1. /\ Critical /\ Surroundings /\ Progress
      /\ \A r \in Req : handler[r] \in {"idle", "done"}
      /\ \/ ~Inserting /\ UNCHANGED <<stored, dropped>>
         \/ /\ Inserting
            /\ UNCHANGED stored \/ stored' = RowsAfter(insert)
            /\ dropped' = [dropped EXCEPT ![insert.table] = @ \cup Range(insert.batch)]
      /\ Flush(Stopper, buffer, <<>>) /\ UNCHANGED <<handler, faults, buffered>>
  BY DEF WriterInv, Stop
<1>2. Inserting => Head(lock) \notin Req
  <2> SUFFICES ASSUME Inserting, Head(lock) \in Req PROVE FALSE
    OBVIOUS
  <2>1. Head(lock) \in Range(lock)
    BY <1>1, LockFacts DEF Critical
  <2> QED BY <1>1, <2>1 DEF Progress, ProgressOf
<1>3. faults' \in 0..MaxFaults /\ faults' \in Nat /\ faults <= faults'
  BY <1>1, WriterAssumption DEF Surroundings
<1>4. Accounted(buffer, buffered)
  <2>1. CASE ~Inserting /\ UNCHANGED <<stored, dropped>>
    BY <1>1, <2>1, QuietAccounted
  <2>2. CASE /\ Inserting
             /\ UNCHANGED stored \/ stored' = RowsAfter(insert)
             /\ dropped' = [dropped EXCEPT ![insert.table] = @ \cup Range(insert.batch)]
    <3>1. insert.table \in Table /\ Range(insert.batch) \subseteq Req
      BY <1>1, <2>2, PendingFacts, RangeFacts
    <3>2. /\ dropped' \in [Table -> SUBSET Req] /\ \A t \in Table : dropped[t] \subseteq dropped'[t]
          /\ Range(insert.batch) \subseteq dropped'[insert.table]
      BY <1>1, <2>2, <3>1 DEF Surroundings
    <3> QED BY <1>3, <2>2, <3>2, AnswerAccounted
  <2> QED BY <1>1, <2>1, <2>2
<1>5. <<>> \in Seq(TaskId) /\ IsInjective(<<>>) /\ Range(<<>>) = {}
  BY DEF IsInjective, Range
<1>6. Stopper \in Flusher
  BY DEF Flusher
<1>7. FlusherOutcome(Stopper, <<>>)
  BY <1>1, <1>4, <1>5, <1>6, FlushOutcome DEF Surroundings
<1>8. stored' \in [Table -> [Req -> Nat]] /\ dropped' \in [Table -> SUBSET Req]
  BY <1>4 DEF Accounted
<1> QED BY <1>1, <1>2, <1>3, <1>5, <1>6, <1>7, <1>8, FlusherStep

LEMMA StepInv == WriterInv /\ [Next]_writerVars => WriterInv'
<1> SUFFICES ASSUME WriterInv, [Next]_writerVars PROVE WriterInv'
  OBVIOUS
<1>1. CASE UNCHANGED writerVars
  BY <1>1 DEF writerVars, WriterInv, Critical, Surroundings, Progress, ProgressOf, RequestAdded,
              PredictionAdded, FlushOrder, Records, PendingNow, Pending, Inserting
<1>2. CASE Next
  BY <1>2, SubmitInv, HandlerTurnInv, LoopWakesInv, LoopTurnInv,
     InsertCommitsInv, InsertRefusedInv, InsertFailsInv, StopInv DEF Next
<1> QED BY <1>1, <1>2

THEOREM WriterInvariant == Spec => []WriterInv
BY InitInv, StepInv, PTL DEF Spec

-----------------------------------------------------------------------------
\* The writer's variables have their types, its lock names a task once, and an
\* insert is made by the holder of the lock.
THEOREM WriterTypes == Spec => []WriterTypeOK
<1>1. WriterInv => WriterTypeOK
  BY DEF WriterInv, Critical, Surroundings, WriterTypeOK, Buffers, TaskId
<1> QED BY <1>1, WriterInvariant, PTL

\* Whatever is refused or fails, and however flushes and handlers interleave, a record
\* that was buffered is stored, pending, or was in an insert that stop() cancelled.
THEOREM ForgetsNothing == Spec => []NothingForgotten
<1>1. WriterInv => NothingForgotten
  BY DEF WriterInv, Records, PendingNow, NothingForgotten
<1> QED BY <1>1, WriterInvariant, PTL

\* A batch that goes back to its buffer goes back in order: nothing came in meanwhile.
THEOREM KeepsOrder == Spec => []PendingInOrder
<1>1. WriterInv => PendingInOrder
  BY DEF WriterInv, Records, PendingNow, PendingInOrder
<1> QED BY <1>1, WriterInvariant, PTL

\* A row too many takes a failure after a commit, one for each.
THEOREM DuplicatesAreBounded == Spec => []DuplicatesNeedFaults
<1>1. WriterInv => DuplicatesNeedFaults
  BY DEF WriterInv, Records, DuplicatesNeedFaults
<1> QED BY <1>1, WriterInvariant, PTL

\* A flush, on a database that has not failed, inserts predictions only when the
\* rows of their requests are there.
THEOREM FlushNeedsNoRetry == Spec => []FlushIsAccepted
<1>1. ASSUME WriterInv PROVE FlushIsAccepted
  <2> SUFFICES ASSUME Inserting, Head(lock) \in Flusher,
                      faults = 0, Refused = {}, dropped["requests"] = {}
               PROVE  Insertable(insert)
    BY DEF FlushIsAccepted
  <2>1. /\ Critical /\ Surroundings /\ Progress /\ FlushOrder
        /\ Records(PendingNow, buffered, stored, faults, dropped)
    BY <1>1 DEF WriterInv
  <2>2. /\ insert.table \in Table /\ insert.batch \in Seq(Req)
        /\ PendingNow = [buffer EXCEPT ![insert.table] = insert.batch]
    BY <2>1, PendingFacts
  <2>3. CASE insert.table = "requests"
    BY <2>3 DEF Insertable
  <2>4. CASE insert.table = "predictions"
    <3>1. PendingNow["predictions"] = insert.batch /\ PendingNow["requests"] = <<>>
      BY <2>1, <2>2, <2>4 DEF FlushOrder, Critical, Buffers, Table
    <3>2. ASSUME NEW r \in Range(insert.batch) PROVE stored["requests"][r] > 0
      <4>1. r \in Req /\ r \in Range(buffered["predictions"])
        <5>1. "predictions" \in Table /\ buffered["predictions"] \in Seq(Req)
          BY <2>1 DEF Surroundings, Buffers, Table
        <5>2. IsSuffix(insert.batch, buffered["predictions"])
          BY <2>1, <3>1, <5>1 DEF Records
        <5> QED BY <2>2, <5>1, <5>2, SuffixFacts, RangeFacts
      <4>2. r \in Range(buffered["requests"])
        BY <2>1, <4>1 DEF Progress, ProgressOf, PredictionAdded, RequestAdded
      <4>3. r \notin Range(PendingNow["requests"])
        BY <3>1 DEF Range
      <4> QED BY <2>1, <4>2, <4>3 DEF Records, Table
    <3> QED BY <2>4, <3>2 DEF Insertable
  <2> QED BY <2>2, <2>3, <2>4 DEF Table
<1> QED BY <1>1, WriterInvariant, PTL

=============================================================================
