-------------------------- MODULE AggregatorProofs --------------------------
(***************************************************************************)
(* Proofs about the aggregator: for every number of provers, every         *)
(* configuration, every list of sequences and every set of faults, no      *)
(* batch is in two rows of state.proof, no two provers work on one batch,  *)
(* and a verification on its way to L1 is the only one and is accepted.    *)
(***************************************************************************)
EXTENDS Aggregator, TLAPS

-----------------------------------------------------------------------------
(* The table and the work, as values                                         *)

IsRange(p) == p \in Nat \X Nat /\ 1 <= p[1] /\ p[1] <= p[2]

Neighbours(p, q) == p[2] = q[1] - 1

\* What a goroutine works on is a row it has locked, or batches that are
\* verified already and are in no row.
Backed(rows, v, p) ==
    /\ IsRange(p)
    /\ \/ \E row \in rows : row.proof = p /\ row.locked
       \/ p[2] <= v /\ \A row \in rows : ~Overlap(row.proof, p)

\* No routine, with work W, and no sender, with work S, is at the batches of p.
NoWorkOn(p, W, S) ==
    /\ \A r \in Routines : \A q \in W[r] : ~Overlap(q, p)
    /\ \A q \in S : ~Overlap(q, p)

\* Routine r works on P now.
WithWork(W, r, P) == [s \in Routines |-> IF s = r THEN P ELSE W[s]]

\* Rows and work fit together.
Sound(rows, v, W, S) ==
    /\ \A row \in rows : IsRange(row.proof)
    /\ \A r1, r2 \in rows : Overlap(r1.proof, r2.proof) => r1 = r2
    /\ \A r \in Routines : \A p \in W[r] : Backed(rows, v, p)
    /\ \A p \in S : Backed(rows, v, p)
    /\ \A r, s \in Routines : r # s => \A p \in W[r], q \in W[s] : ~Overlap(p, q)
    /\ \A r \in Routines : \A p \in W[r], q \in S : ~Overlap(p, q)

\* A row at the batches of someone's work is the locked row of that work.
LEMMA OwnRow ==
    ASSUME NEW rows, NEW v \in Nat, NEW p, Backed(rows, v, p), NEW row \in rows,
           \A r1, r2 \in rows : Overlap(r1.proof, r2.proof) => r1 = r2,
           IsRange(row.proof), Overlap(row.proof, p)
    PROVE  row.proof = p /\ row.locked
  BY DEF Backed, Overlap, IsRange

\* A row that is not locked is nobody's work.
LEMMA FreeRow ==
    ASSUME NEW rows, NEW v \in Nat, NEW W, NEW S, Sound(rows, v, W, S),
           NEW row \in rows, ~row.locked
    PROVE  NoWorkOn(row.proof, W, S)
  <1>1. ASSUME NEW q, Backed(rows, v, q), Overlap(q, row.proof) PROVE FALSE
    <2>1. Overlap(row.proof, q)
      BY <1>1 DEF Overlap
    <2>. QED  BY <2>1, <1>1, OwnRow DEF Sound
  <1>. QED  BY <1>1 DEF Sound, NoWorkOn

\* Work may end, and the last verified batch may grow.
LEMMA ShrinkSound ==
    ASSUME NEW rows, NEW v \in Nat, NEW W, NEW S, Sound(rows, v, W, S),
           NEW v2 \in Nat, v <= v2, NEW W2, NEW S2,
           \A r \in Routines : W2[r] \subseteq W[r], S2 \subseteq S
    PROVE  Sound(rows, v2, W2, S2)
  <1>1. ASSUME NEW p, Backed(rows, v, p) PROVE Backed(rows, v2, p)
    BY <1>1 DEF Backed, IsRange
  <1>2. \A r \in Routines : \A p \in W2[r] : Backed(rows, v2, p)
    BY <1>1 DEF Sound
  <1>3. \A p \in S2 : Backed(rows, v2, p)
    BY <1>1 DEF Sound
  <1>. QED  BY <1>2, <1>3 DEF Sound

\* UpdateGeneratedProof, on a row nobody works on.
LEMMA UpdateSound ==
    ASSUME NEW rows, NEW v \in Nat, NEW W, NEW S, Sound(rows, v, W, S),
           NEW p, NEW locked, NoWorkOn(p, W, S), IsRange(p)
    PROVE  Sound(Updated(rows, p, locked), v, W, S)
  <1>. DEFINE new == Updated(rows, p, locked)
  <1>1. \A row \in new : \E old \in rows :
             /\ row.proof = old.proof
             /\ row = IF old.proof = p THEN Row(p, locked, TRUE) ELSE old
    BY DEF Updated, Row
  <1>2. \A row \in new : IsRange(row.proof)
    BY <1>1, Zenon DEF Sound
  <1>3. \A r1, r2 \in new : Overlap(r1.proof, r2.proof) => r1 = r2
    BY <1>1, Zenon DEF Sound
  <1>4. ASSUME NEW q, Backed(rows, v, q), ~Overlap(q, p) PROVE Backed(new, v, q)
    <2>1. CASE \E row \in rows : row.proof = q /\ row.locked
      <3>1. PICK row \in rows : row.proof = q /\ row.locked
        BY <2>1
      <3>2. q # p
        BY <1>4 DEF Backed, IsRange, Overlap
      <3>3. row \in new
        BY <3>1, <3>2, Zenon DEF Updated
      <3>. QED  BY <3>1, <3>3, <1>4 DEF Backed
    <2>2. CASE q[2] <= v /\ \A row \in rows : ~Overlap(row.proof, q)
      BY <2>2, <1>1, <1>4, Zenon DEF Backed
    <2>. QED  BY <2>1, <2>2, <1>4 DEF Backed
  <1>5. \A r \in Routines : \A q \in W[r] : Backed(new, v, q)
    BY <1>4 DEF Sound, NoWorkOn
  <1>6. \A q \in S : Backed(new, v, q)
    BY <1>4 DEF Sound, NoWorkOn
  <1>. HIDE DEF new
  <1>7. Sound(new, v, W, S)
    BY <1>2, <1>3, <1>5, <1>6 DEF Sound
  <1>. QED  BY <1>7 DEF new

\* Rows may go when nobody works on them or their batches are verified.
LEMMA RemoveSound ==
    ASSUME NEW rows, NEW v \in Nat, NEW W, NEW S, Sound(rows, v, W, S),
           NEW rest \in SUBSET rows,
           \A row \in rows \ rest : NoWorkOn(row.proof, W, S) \/ row.proof[2] <= v
    PROVE  Sound(rest, v, W, S)
  <1>1. ASSUME NEW q, Backed(rows, v, q),
               \A row \in rows \ rest : ~Overlap(q, row.proof) \/ row.proof[2] <= v
        PROVE  Backed(rest, v, q)
    <2>1. CASE \E row \in rest : row.proof = q /\ row.locked
      BY <2>1, <1>1 DEF Backed
    <2>2. CASE \E row \in rows \ rest : row.proof = q /\ row.locked
      <3>1. PICK row \in rows \ rest : row.proof = q /\ row.locked
        BY <2>2
      <3>2. Overlap(q, q)
        BY <1>1 DEF Backed, IsRange, Overlap
      <3>3. q[2] <= v
        BY <3>1, <3>2, <1>1
      <3>4. ASSUME NEW other \in rest, Overlap(other.proof, q) PROVE FALSE
        BY <3>1, <3>4 DEF Sound
      <3>. QED  BY <3>3, <3>4, <1>1 DEF Backed
    <2>3. CASE q[2] <= v /\ \A row \in rows : ~Overlap(row.proof, q)
      BY <2>3, <1>1 DEF Backed
    <2>. QED  BY <2>1, <2>2, <2>3, <1>1 DEF Backed
  <1>2. \A r \in Routines : \A q \in W[r] : Backed(rest, v, q)
    BY <1>1 DEF Sound, NoWorkOn
  <1>3. \A q \in S : Backed(rest, v, q)
    BY <1>1 DEF Sound, NoWorkOn
  <1>. QED  BY <1>2, <1>3 DEF Sound

\* A row may come for batches that are in no row and that nobody works on.
LEMMA InsertSound ==
    ASSUME NEW rows, NEW v \in Nat, NEW W, NEW S, Sound(rows, v, W, S),
           NEW p, IsRange(p), NEW locked, NEW ready, NoWorkOn(p, W, S),
           \A row \in rows : ~Overlap(row.proof, p)
    PROVE  Sound(rows \cup {Row(p, locked, ready)}, v, W, S)
  <1>. DEFINE row1 == Row(p, locked, ready)
              new == rows \cup {row1}
  <1>0. row1.proof = p
    BY DEF Row
  <1>. HIDE DEF row1
  <1>1. \A row \in new : IsRange(row.proof)
    BY <1>0 DEF Sound
  <1>2. \A r1, r2 \in new : Overlap(r1.proof, r2.proof) => r1 = r2
    BY <1>0 DEF Sound, Overlap
  <1>3. ASSUME NEW q, Backed(rows, v, q), ~Overlap(q, p) PROVE Backed(new, v, q)
    BY <1>0, <1>3 DEF Backed, Overlap
  <1>4. \A r \in Routines : \A q \in W[r] : Backed(new, v, q)
    BY <1>3 DEF Sound, NoWorkOn
  <1>5. \A q \in S : Backed(new, v, q)
    BY <1>3 DEF Sound, NoWorkOn
  <1>. HIDE DEF new
  <1>6. Sound(new, v, W, S)
    BY <1>1, <1>2, <1>4, <1>5 DEF Sound
  <1>. QED  BY <1>6 DEF new, row1

\* A routine, or the sender, may take over a range nobody works on.
LEMMA AcquireSound ==
    ASSUME NEW rows, NEW v \in Nat, NEW W, NEW S, Sound(rows, v, W, S),
           NEW p, Backed(rows, v, p), NoWorkOn(p, W, S), NEW r \in Routines, NEW W2,
           W2[r] \subseteq W[r] \cup {p}, \A s \in Routines \ {r} : W2[s] = W[s]
    PROVE  Sound(rows, v, W2, S)
  <1>1. \A s \in Routines : \A q \in W2[s] : Backed(rows, v, q)
    BY DEF Sound
  <1>2. \A s \in Routines \ {r} : \A q \in W2[s] : ~Overlap(p, q) /\ ~Overlap(q, p)
    BY DEF NoWorkOn, Overlap
  <1>3. \A s1, s2 \in Routines : s1 # s2 => \A q1 \in W2[s1], q2 \in W2[s2] : ~Overlap(q1, q2)
    BY <1>2 DEF Sound
  <1>4. \A s \in Routines : \A q1 \in W2[s], q2 \in S : ~Overlap(q1, q2)
    BY DEF Sound, NoWorkOn, Overlap
  <1>. QED  BY <1>1, <1>3, <1>4 DEF Sound

LEMMA HandOverSound ==
    ASSUME NEW rows, NEW v \in Nat, NEW W, Sound(rows, v, W, {}),
           NEW p, Backed(rows, v, p), NoWorkOn(p, W, {})
    PROVE  Sound(rows, v, W, {p})
  BY DEF Sound, NoWorkOn

\* When a routine ends its attempt, nobody works on what it worked on.
LEMMA EndSound ==
    ASSUME NEW rows, NEW v \in Nat, NEW W, NEW S, Sound(rows, v, W, S), NEW r \in Routines,
           NEW W2, W2[r] = {}, \A s \in Routines \ {r} : W2[s] = W[s]
    PROVE  /\ Sound(rows, v, W2, S)
           /\ \A p \in W[r] : NoWorkOn(p, W2, S) /\ IsRange(p)
  <1>1. Sound(rows, v, W2, S)
    BY ShrinkSound
  <1>2. \A p \in W[r] : NoWorkOn(p, W2, S)
    BY DEF Sound, NoWorkOn, Overlap
  <1>3. \A p \in W[r] : IsRange(p)
    BY DEF Sound, Backed
  <1>. QED  BY <1>1, <1>2, <1>3

\* A free row can be locked and worked on by a routine that had no work.
LEMMA LockSound ==
    ASSUME NEW rows, NEW v \in Nat, NEW W, NEW S, Sound(rows, v, W, S),
           NEW row \in rows, ~row.locked, NEW r \in Routines, NEW W2,
           W2[r] = {row.proof}, \A s \in Routines \ {r} : W2[s] = W[s]
    PROVE  Sound(Updated(rows, row.proof, TRUE), v, W2, S)
  <1>. DEFINE p == row.proof
              new == Updated(rows, p, TRUE)
  <1>1. NoWorkOn(p, W, S) /\ IsRange(p)
    BY FreeRow, Zenon DEF Sound
  <1>2. Sound(new, v, W, S)
    BY <1>1, UpdateSound, Zenon
  <1>3. Backed(new, v, p)
    <2>1. Row(p, TRUE, TRUE) \in new
      BY Zenon DEF Updated
    <2>2. Row(p, TRUE, TRUE).proof = p /\ Row(p, TRUE, TRUE).locked
      BY DEF Row
    <2>. QED  BY <1>1, <2>1, <2>2, Zenon DEF Backed
  <1>. HIDE DEF new
  <1>4. Sound(new, v, W2, S)
    BY <1>1, <1>2, <1>3, AcquireSound
  <1>. QED  BY <1>4, Zenon DEF new

\* Two free neighbours can be locked and worked on.
LEMMA LockPairSound ==
    ASSUME NEW rows, NEW v \in Nat, NEW W, NEW S, Sound(rows, v, W, S),
           NEW row1 \in rows, ~row1.locked, NEW row2 \in rows, ~row2.locked,
           Neighbours(row1.proof, row2.proof), NEW r \in Routines
    PROVE  Sound(Updated(Updated(rows, row1.proof, TRUE), row2.proof, TRUE), v,
                 WithWork(W, r, {row1.proof, row2.proof}), S)
  <1>. DEFINE p1 == row1.proof
              p2 == row2.proof
              new1 == Updated(rows, p1, TRUE)
              new == Updated(new1, p2, TRUE)
  <1>1. NoWorkOn(p1, W, S) /\ NoWorkOn(p2, W, S) /\ IsRange(p1) /\ IsRange(p2)
    BY FreeRow, Zenon DEF Sound
  <1>2. Sound(new1, v, W, S)
    BY <1>1, UpdateSound, Zenon
  <1>3. Row(p1, TRUE, TRUE) \in new1 /\ \E row \in new1 : row.proof = p2
    <2>1. Row(p1, TRUE, TRUE) \in new1
      BY Zenon DEF Updated
    <2>2. p1 # p2
      BY <1>1 DEF IsRange, Neighbours
    <2>3. row2 \in new1
      BY <2>2, Zenon DEF Updated
    <2>. QED  BY <2>1, <2>3, Zenon
  <1>. HIDE DEF new1
  <1>4. Sound(new, v, W, S)
    BY <1>1, <1>2, UpdateSound, Zenon
  <1>5. \A p : Row(p, TRUE, TRUE).proof = p /\ Row(p, TRUE, TRUE).locked
    BY DEF Row
  <1>6. Row(p1, TRUE, TRUE) \in new /\ Row(p2, TRUE, TRUE) \in new
    <2>1. p1 # p2
      BY <1>1 DEF IsRange, Neighbours
    <2>. QED  BY <1>3, <1>5, <2>1, Zenon DEF Updated
  <1>7. Backed(new, v, p1) /\ Backed(new, v, p2)
    BY <1>1, <1>5, <1>6, Zenon DEF Backed
  <1>. HIDE DEF new
  <1>. DEFINE W1 == WithWork(W, r, {p1})
              W2 == WithWork(W, r, {p1, p2})
  <1>8. W1[r] \subseteq W[r] \cup {p1} /\ \A s \in Routines \ {r} : W1[s] = W[s]
    BY DEF WithWork
  <1>9. W2[r] \subseteq W1[r] \cup {p2} /\ \A s \in Routines \ {r} : W2[s] = W1[s]
    BY DEF WithWork
  <1>10. NoWorkOn(p2, W1, S)
    BY <1>1 DEF NoWorkOn, Overlap, IsRange, Neighbours, WithWork
  <1>. HIDE DEF W1, W2
  <1>11. Sound(new, v, W1, S)
    BY <1>1, <1>4, <1>7, <1>8, AcquireSound
  <1>12. Sound(new, v, W2, S)
    BY <1>7, <1>9, <1>10, <1>11, AcquireSound
  <1>. QED  BY <1>12, Zenon DEF new, new1, W2

\* Two neighbours a routine works on can be replaced by one proof of both.
LEMMA AggregateSound ==
    ASSUME NEW rows, NEW v \in Nat, NEW W, NEW S, Sound(rows, v, W, S), NEW r \in Routines,
           NEW p1, NEW p2, p1 \in W[r], p2 \in W[r], Neighbours(p1, p2)
    PROVE  Sound(Deleted(rows, p1[1], p2[2]) \cup {Row(<<p1[1], p2[2]>>, TRUE, TRUE)}, v,
                 WithWork(W, r, {<<p1[1], p2[2]>>}), S)
  <1>. DEFINE p == <<p1[1], p2[2]>>
              W1 == WithWork(W, r, {})
              W2 == WithWork(W, r, {p})
              rest == Deleted(rows, p1[1], p2[2])
              new == rest \cup {Row(p, TRUE, TRUE)}
  <1>1. /\ W1[r] = {} /\ \A s \in Routines \ {r} : W1[s] = W[s]
        /\ \A s \in Routines \ {r} : W2[s] = W1[s]
        /\ W2[r] \subseteq W1[r] \cup {p}
    BY DEF WithWork
  <1>. HIDE DEF W1, W2
  <1>2. /\ Sound(rows, v, W1, S) /\ NoWorkOn(p1, W1, S) /\ NoWorkOn(p2, W1, S)
        /\ IsRange(p1) /\ IsRange(p2) /\ Backed(rows, v, p1) /\ Backed(rows, v, p2)
    <2>1. Backed(rows, v, p1) /\ Backed(rows, v, p2)
      BY DEF Sound
    <2>. QED  BY <1>1, <2>1, EndSound
  <1>3. IsRange(p) /\ p[1] = p1[1] /\ p[2] = p2[2]
    BY <1>2 DEF IsRange, Neighbours
  <1>. HIDE DEF p
  <1>4. \A q : IsRange(q) /\ Overlap(q, p) => Overlap(q, p1) \/ Overlap(q, p2)
    BY <1>2, <1>3 DEF IsRange, Overlap, Neighbours
  <1>5. \A s \in Routines : \A q \in W1[s] : IsRange(q)
    BY <1>2 DEF Sound, Backed
  <1>6. \A q \in S : IsRange(q)
    BY <1>2 DEF Sound, Backed
  <1>7. NoWorkOn(p, W1, S)
    BY <1>2, <1>4, <1>5, <1>6 DEF NoWorkOn
  <1>8. rest \subseteq rows /\ \A row \in rows \ rest :
             row.proof[1] >= p[1] /\ row.proof[2] <= p[2]
    BY <1>3 DEF Deleted
  <1>9. \A row \in rows \ rest : NoWorkOn(row.proof, W1, S)
    <2>1. ASSUME NEW row \in rows \ rest, NEW q, IsRange(q), ~Overlap(q, p)
          PROVE  ~Overlap(q, row.proof)
      BY <1>3, <1>8, <2>1 DEF Overlap, IsRange, Sound
    <2>. QED  BY <1>5, <1>6, <1>7, <2>1 DEF NoWorkOn
  <1>10. Sound(rest, v, W1, S)
    BY <1>2, <1>8, <1>9, RemoveSound
  <1>11. ASSUME NEW row \in rest, Overlap(row.proof, p) PROVE FALSE
    <2>1. row \in rows /\ IsRange(row.proof)
      BY <1>8 DEF Sound
    <2>2. row.proof = p1 \/ row.proof = p2
      BY <1>2, <1>4, <1>11, <2>1, OwnRow DEF Sound
    <2>. QED  BY <1>2, <1>3, <2>2 DEF Deleted, IsRange, Neighbours
  <1>12. Sound(new, v, W1, S)
    BY <1>3, <1>7, <1>10, <1>11, InsertSound, Zenon
  <1>13. Backed(new, v, p)
    <2>1. Row(p, TRUE, TRUE).proof = p /\ Row(p, TRUE, TRUE).locked
      BY DEF Row
    <2>. QED  BY <1>3, <2>1, Zenon DEF Backed
  <1>. HIDE DEF new
  <1>14. Sound(new, v, W2, S)
    BY <1>1, <1>7, <1>12, <1>13, AcquireSound
  <1>. QED  BY <1>14 DEF new, p, W2

\* When the sender is through with a proof, nobody works on it.
LEMMA SenderEndSound ==
    ASSUME NEW rows, NEW v \in Nat, NEW W, NEW p, Sound(rows, v, W, {p})
    PROVE  Sound(rows, v, W, {}) /\ NoWorkOn(p, W, {})
  BY DEF Sound, NoWorkOn

\* A row for a batch that is in no row and not verified, and a routine for it.
LEMMA LockBatchSound ==
    ASSUME NEW rows, NEW v \in Nat, NEW W, NEW S, Sound(rows, v, W, S), NEW r \in Routines,
           NEW b \in Nat, b > v, \A row \in rows : ~(row.proof[1] <= b /\ b <= row.proof[2])
    PROVE  Sound(rows \cup {Row(<<b, b>>, TRUE, FALSE)}, v, WithWork(W, r, {<<b, b>>}), S)
  <1>. DEFINE p == <<b, b>>
              new == rows \cup {Row(p, TRUE, FALSE)}
              W2 == WithWork(W, r, {p})
  <1>1. IsRange(p) /\ p[1] = b /\ p[2] = b
    BY DEF IsRange
  <1>. HIDE DEF p
  <1>2. \A row \in rows : ~Overlap(row.proof, p)
    BY <1>1 DEF Overlap
  <1>3. ASSUME NEW q, Backed(rows, v, q), Overlap(q, p) PROVE FALSE
    BY <1>1, <1>2, <1>3 DEF Backed, Overlap, IsRange
  <1>4. NoWorkOn(p, W, S)
    BY <1>3 DEF NoWorkOn, Sound
  <1>5. Sound(new, v, W, S)
    BY <1>1, <1>2, <1>4, InsertSound, Zenon
  <1>6. Backed(new, v, p)
    <2>1. Row(p, TRUE, FALSE).proof = p /\ Row(p, TRUE, FALSE).locked
      BY DEF Row
    <2>. QED  BY <1>1, <2>1, Zenon DEF Backed
  <1>7. W2[r] \subseteq W[r] \cup {p} /\ \A s \in Routines \ {r} : W2[s] = W[s]
    BY DEF WithWork
  <1>. HIDE DEF new, W2
  <1>8. Sound(new, v, W2, S)
    BY <1>4, <1>5, <1>6, <1>7, AcquireSound
  <1>. QED  BY <1>8 DEF new, W2, p

-----------------------------------------------------------------------------
(* The inductive invariant                                                   *)

Loops == Heads \cup {"off"}
Points == Loops \cup {"sync", "eligible", "batch", "generated", "store", "final", "send", "aggregate"}
RoutineStates ==
    [pc : Points, head : Loops, proof : Nat \X Nat, proof2 : Nat \X Nat, last : Nat]
SenderPoints ==
    {"idle", "start", "settle", "wait", "cleanup", "end", "boot", "bootCleanup"}

Typed ==
    /\ mode \in Modes /\ backend \in {"direct", "agglayer"}
    /\ sequenced \in 0 .. Len(Sequences)
    /\ verified \in Nat
    /\ roots \subseteq Nat /\ \E b \in roots : \A c \in roots : c <= b
    /\ \A row \in proofs : IsRange(row.proof)
    /\ routine \in [Routines -> RoutineStates]
    /\ sender \in [pc : SenderPoints, proof : Nat \X Nat]
    /\ sender.pc \in {"start", "settle", "wait", "cleanup", "bootCleanup"} => IsRange(sender.proof)
    /\ \A tx \in txs : tx \in [proof : Nat \X Nat, status : {"sent", "mined", "done"}] /\ IsRange(tx.proof)

\* What a routine holds at each point of its loop.
Control(r) ==
    LET x == routine[r]
    IN  /\ x.last <= verified
        /\ \/ x.pc \in Loops /\ x.head = x.pc /\ x.proof = NoProof /\ x.proof2 = NoProof
           \/ /\ x.pc \in {"sync", "eligible"} /\ x.head = "tryFinal"
              /\ x.proof = NoProof /\ x.proof2 = NoProof
           \/ /\ x.pc \in {"sync", "eligible", "batch", "generated", "store"}
              /\ x.head # "tryFinal" /\ IsRange(x.proof) /\ x.proof2 = NoProof
           \/ x.pc \in {"final", "send"} /\ IsRange(x.proof) /\ x.proof2 = NoProof
           \/ /\ x.pc = "aggregate" /\ x.head # "tryFinal"
              /\ IsRange(x.proof) /\ IsRange(x.proof2) /\ Neighbours(x.proof, x.proof2)

Controlled == \A r \in Routines : Control(r)

WorkOf == [r \in Routines |-> Work(r)]

\* Only the clean-up of rows still worked on breaks the bond of rows and work.
Table == "cleanup" \notin faults => Sound(proofs, verified, WorkOf, SenderWork)

TableInv == Typed /\ Controlled /\ Table

-----------------------------------------------------------------------------
(* The moves of a routine                                                    *)

LEMMA HeadIsLoop ==
    ASSUME Typed, NEW r \in Routines, NEW g \in BOOLEAN
    PROVE  NextHead(r, g) \in Loops /\ FirstHead(mode[r]) \in Loops
  BY AggregatorAssumption DEF Typed, NextHead, FirstHead, Loops, Heads

\* A routine that is at the head of a loop holds nothing; the others go on.
LEMMA ToHead ==
    ASSUME Typed, Controlled, NEW r \in Routines, NEW h \in Loops, verified' = verified,
           routine' = [routine EXCEPT ![r] = AtHead(h)]
    PROVE  /\ routine' \in [Routines -> RoutineStates]
           /\ Controlled'
           /\ WorkOf'[r] = {}
           /\ \A s \in Routines \ {r} : WorkOf'[s] = WorkOf[s]
  <1>0. h \in Points /\ NoProof \in Nat \X Nat
    BY DEF Points, NoProof
  <1>1. AtHead(h) \in RoutineStates
    BY <1>0 DEF AtHead, RoutineStates
  <1>2. routine' \in [Routines -> RoutineStates] /\ routine'[r] = AtHead(h)
        /\ \A s \in Routines \ {r} : routine'[s] = routine[s]
    BY <1>1 DEF Typed
  <1>3. Control(r)'
    BY <1>2 DEF Control, AtHead, Typed, NoProof
  <1>4. ASSUME NEW s \in Routines \ {r} PROVE Control(s)'
    BY <1>2 DEF Control, Controlled
  <1>5. Work(r)' = {}
    BY <1>2 DEF Work, AtHead
  <1>6. ASSUME NEW s \in Routines \ {r} PROVE Work(s)' = Work(s)
    BY <1>2 DEF Work
  <1>. QED  BY <1>2, <1>3, <1>4, <1>5, <1>6 DEF Controlled, WorkOf

LEMMA Finishes ==
    ASSUME Typed, Controlled, NEW r \in Routines, NEW g \in BOOLEAN, verified' = verified,
           Finish(r, g)
    PROVE  /\ routine' \in [Routines -> RoutineStates]
           /\ Controlled'
           /\ WorkOf'[r] = {}
           /\ \A s \in Routines \ {r} : WorkOf'[s] = WorkOf[s]
  BY ToHead, HeadIsLoop, Zenon DEF Finish

\* A routine that moves on in an attempt, to a state x.
LEMMA MovesOn ==
    ASSUME Typed, Controlled, NEW r \in Routines, NEW x \in RoutineStates, verified' = verified,
           routine' = [routine EXCEPT ![r] = x], Control(r)'
    PROVE  /\ routine' \in [Routines -> RoutineStates]
           /\ Controlled'
           /\ WorkOf'[r] = {x.proof, x.proof2} \ {NoProof}
           /\ \A s \in Routines \ {r} : WorkOf'[s] = WorkOf[s]
  <1>2. routine' \in [Routines -> RoutineStates] /\ routine'[r] = x
        /\ \A s \in Routines \ {r} : routine'[s] = routine[s]
    BY DEF Typed
  <1>4. ASSUME NEW s \in Routines \ {r} PROVE Control(s)'
    BY <1>2 DEF Control, Controlled
  <1>5. Work(r)' = {x.proof, x.proof2} \ {NoProof}
    BY <1>2 DEF Work
  <1>6. ASSUME NEW s \in Routines \ {r} PROVE Work(s)' = Work(s)
    BY <1>2 DEF Work
  <1>. QED  BY <1>2, <1>4, <1>5, <1>6 DEF Controlled, WorkOf

\* A routine that only moves: its work stays.
LEMMA Moves ==
    ASSUME Typed, Controlled, NEW r \in Routines, NEW pc \in Points, verified' = verified,
           Goto(r, pc), Control(r)'
    PROVE  /\ routine' \in [Routines -> RoutineStates]
           /\ Controlled'
           /\ WorkOf' = WorkOf
  <1>. DEFINE x == [routine[r] EXCEPT !.pc = pc]
  <1>1. x \in RoutineStates /\ x.proof = routine[r].proof /\ x.proof2 = routine[r].proof2
    BY Zenon DEF Typed, RoutineStates
  <1>2. routine' = [routine EXCEPT ![r] = x]
    BY DEF Goto
  <1>. HIDE DEF x
  <1>3. /\ routine' \in [Routines -> RoutineStates]
        /\ Controlled'
        /\ WorkOf'[r] = {x.proof, x.proof2} \ {NoProof}
        /\ \A s \in Routines \ {r} : WorkOf'[s] = WorkOf[s]
    BY <1>1, <1>2, MovesOn, Zenon
  <1>4. WorkOf'[r] = WorkOf[r]
    BY <1>1, <1>3 DEF WorkOf, Work
  <1>. QED  BY <1>3, <1>4 DEF WorkOf

\* The work of a routine in an attempt.
LEMMA WorkIs ==
    ASSUME Typed, Controlled, NEW r \in Routines
    PROVE  /\ WorkOf[r] = {routine[r].proof, routine[r].proof2} \ {NoProof}
           /\ \A p : IsRange(p) => p # NoProof
  BY DEF WorkOf, Work, IsRange, NoProof

\* What the sender still works on does not change while its state does not.
LEMMA SenderKeeps ==
    ASSUME UNCHANGED sender
    PROVE  SenderWork' = SenderWork
  BY DEF SenderWork

-----------------------------------------------------------------------------
(* Every step of a routine keeps the invariant                               *)

LEMMA CanVerifyKeeps ==
    ASSUME TableInv, NEW r \in Routines, CanVerifyProof(r)
    PROVE  TableInv'
  <1>1. Control(r)'
    BY ZenonT(30) DEF TableInv, Typed, Controlled, Control, CanVerifyProof, Goto, At, l1Vars, RoutineStates, Loops, Heads
  <1>2. routine' \in [Routines -> RoutineStates] /\ Controlled' /\ WorkOf' = WorkOf
    BY <1>1, Moves DEF TableInv, CanVerifyProof, l1Vars, Points
  <1>. QED  BY <1>2, SenderKeeps DEF TableInv, Typed, Table, CanVerifyProof, l1Vars

\* Work that ends without a change of the table.
LEMMA DropKeeps ==
    ASSUME TableInv, NEW r \in Routines, NEW h \in Loops,
           routine' = [routine EXCEPT ![r] = AtHead(h)], faults \subseteq faults',
           UNCHANGED <<mode, backend, l1Vars, proofs, sender, verifyingProof, txs>>
    PROVE  TableInv'
  <1>1. /\ routine' \in [Routines -> RoutineStates] /\ Controlled'
        /\ WorkOf'[r] = {} /\ \A s \in Routines \ {r} : WorkOf'[s] = WorkOf[s]
    BY ToHead, Zenon DEF TableInv, l1Vars
  <1>2. ASSUME "cleanup" \notin faults PROVE Sound(proofs, verified, WorkOf', SenderWork)
    BY <1>1, <1>2, ShrinkSound DEF TableInv, Table, Typed
  <1>. QED  BY <1>1, <1>2, SenderKeeps DEF TableInv, Typed, Table, l1Vars

LEMMA CannotVerifyKeeps ==
    ASSUME TableInv, NEW r \in Routines, CannotVerifyProof(r)
    PROVE  TableInv'
  <1>1. CASE routine[r].head = "tryFinal"
    BY <1>1, DropKeeps, HeadIsLoop, Zenon DEF TableInv, CannotVerifyProof, NotBuilt, Finish
  <1>2. CASE routine[r].head # "tryFinal"
    <2>1. Goto(r, "store")
      BY <1>2 DEF CannotVerifyProof, NotBuilt
    <2>2. Control(r)'
      BY <1>2, <2>1, ZenonT(30) DEF TableInv, Typed, Controlled, Control, CannotVerifyProof, Goto, At, l1Vars,
                        RoutineStates, Loops, Heads
    <2>3. routine' \in [Routines -> RoutineStates] /\ Controlled' /\ WorkOf' = WorkOf
      BY <2>1, <2>2, Moves DEF TableInv, CannotVerifyProof, l1Vars, Points
    <2>. QED  BY <2>3, SenderKeeps DEF TableInv, Typed, Table, CannotVerifyProof, l1Vars
  <1>. QED  BY <1>1, <1>2

LEMMA SyncKeeps ==
    ASSUME TableInv, NEW r \in Routines, Sync(r)
    PROVE  TableInv'
  <1>. DEFINE x == [routine[r] EXCEPT !.pc = "eligible", !.last = verified]
  <1>1. /\ x \in RoutineStates /\ x.proof = routine[r].proof /\ x.proof2 = routine[r].proof2
        /\ x.pc = "eligible" /\ x.head = routine[r].head /\ x.last = verified
    BY Zenon DEF TableInv, Typed, RoutineStates, Points
  <1>2. routine' = [routine EXCEPT ![r] = x] /\ UNCHANGED verified
    BY Zenon DEF Sync, l1Vars
  <1>. HIDE DEF x
  <1>3. routine'[r] = x
    BY <1>2 DEF TableInv, Typed
  <1>4. Control(r)'
    BY <1>1, <1>2, <1>3 DEF TableInv, Typed, Controlled, Control, Sync, At, Loops, Heads
  <1>5. /\ routine' \in [Routines -> RoutineStates] /\ Controlled'
        /\ WorkOf'[r] = {x.proof, x.proof2} \ {NoProof}
        /\ \A s \in Routines \ {r} : WorkOf'[s] = WorkOf[s]
    BY <1>1, <1>2, <1>4, MovesOn, Zenon DEF TableInv
  <1>6. WorkOf' = WorkOf
    <2>1. WorkOf'[r] = WorkOf[r]
      BY <1>1, <1>5 DEF WorkOf, Work
    <2>. QED  BY <1>5, <2>1 DEF WorkOf
  <1>. QED  BY <1>5, <1>6, SenderKeeps DEF TableInv, Typed, Table, Sync, l1Vars

LEMMA BuildKeeps ==
    ASSUME TableInv, NEW r \in Routines, BuildFinalProof(r) \/ GenerateBatchProof(r)
    PROVE  TableInv'
  <1>1. PICK pc \in Points : Goto(r, pc) /\ (pc = "send" => At(r, "final"))
                             /\ (pc = "generated" => At(r, "batch")) /\ pc \in {"send", "generated"}
    BY DEF BuildFinalProof, GenerateBatchProof, Points
  <1>2. UNCHANGED <<mode, backend, l1Vars, proofs, sender, verifyingProof, txs, faults>>
    BY DEF BuildFinalProof, GenerateBatchProof
  <1>3. Control(r)'
    BY <1>1, <1>2, ZenonT(30) DEF TableInv, Typed, Controlled, Control, Goto, At, l1Vars, RoutineStates, Loops, Heads
  <1>4. routine' \in [Routines -> RoutineStates] /\ Controlled' /\ WorkOf' = WorkOf
    BY <1>1, <1>2, <1>3, Moves DEF TableInv, l1Vars
  <1>. QED  BY <1>2, <1>4, SenderKeeps DEF TableInv, Typed, Table, l1Vars

LEMMA DisconnectKeeps ==
    ASSUME TableInv, NEW r \in Routines, Disconnect(r)
    PROVE  TableInv'
  BY DropKeeps, HeadIsLoop, Zenon DEF TableInv, Disconnect, Fault

LEMMA LockReadyKeeps ==
    ASSUME TableInv, NEW r \in Routines, LockReadyToVerify(r)
    PROVE  TableInv'
  <1>1. CASE Finish(r, FALSE) /\ UNCHANGED proofs
    BY <1>1, DropKeeps, HeadIsLoop, Zenon DEF TableInv, LockReadyToVerify, Finish
  <1>2. ASSUME NEW row \in proofs, ~row.locked,
               proofs' = Updated(proofs, row.proof, TRUE),
               routine' = [routine EXCEPT ![r].pc = "final", ![r].proof = row.proof]
        PROVE  TableInv'
    <2>. DEFINE x == [routine[r] EXCEPT !.pc = "final", !.proof = row.proof]
    <2>0. IsRange(row.proof) /\ routine[r].proof2 = NoProof
      BY DEF TableInv, Typed, Controlled, Control, LockReadyToVerify, At, Loops, Heads
    <2>1. /\ x \in RoutineStates /\ x.proof = row.proof /\ x.proof2 = NoProof
          /\ x.pc = "final" /\ x.head = routine[r].head /\ x.last = routine[r].last
      BY <2>0, Zenon DEF TableInv, Typed, RoutineStates, Points, IsRange
    <2>2. routine' = [routine EXCEPT ![r] = x] /\ UNCHANGED <<verified, sender, faults>>
      BY <1>2, Zenon DEF LockReadyToVerify, l1Vars
    <2>. HIDE DEF x
    <2>3. routine'[r] = x
      BY <2>2 DEF TableInv, Typed
    <2>4. Control(r)'
      BY <2>0, <2>1, <2>2, <2>3 DEF TableInv, Controlled, Control
    <2>5. /\ routine' \in [Routines -> RoutineStates] /\ Controlled'
          /\ WorkOf'[r] = {x.proof, x.proof2} \ {NoProof}
          /\ \A s \in Routines \ {r} : WorkOf'[s] = WorkOf[s]
      BY <2>1, <2>2, <2>4, MovesOn, Zenon DEF TableInv
    <2>6. WorkOf'[r] = {row.proof}
      BY <2>0, <2>1, <2>5 DEF IsRange, NoProof
    <2>7. ASSUME "cleanup" \notin faults PROVE Sound(proofs', verified, WorkOf', SenderWork)
      <3>1. Sound(proofs, verified, WorkOf, SenderWork) /\ verified \in Nat
        BY <2>7 DEF TableInv, Table, Typed
      <3>2. Sound(Updated(proofs, row.proof, TRUE), verified, WorkOf', SenderWork)
        BY <1>2, <2>5, <2>6, <3>1, LockSound, Zenon
      <3>. QED  BY <1>2, <3>2, Zenon
    <2>8. \A row2 \in proofs' : IsRange(row2.proof)
      BY <1>2 DEF TableInv, Typed, Updated, Row
    <2>. QED  BY <2>2, <2>5, <2>7, <2>8, SenderKeeps, Zenon
              DEF TableInv, Typed, Table, LockReadyToVerify, l1Vars
  <1>. QED  BY <1>1, <1>2, Zenon DEF LockReadyToVerify

LEMMA ValidateKeeps ==
    ASSUME TableInv, NEW r \in Routines, ValidateEligible(r)
    PROVE  TableInv'
  <1>. DEFINE p == routine[r].proof
  <1>0. /\ UNCHANGED <<mode, backend, sequenced, verified, roots, sender, txs, faults>>
        /\ IsRange(p) /\ routine[r].last <= verified /\ routine[r].last \in Nat
    BY Zenon DEF TableInv, Typed, Controlled, Control, ValidateEligible, At, l1Vars, Loops, Heads, RoutineStates
  <1>1. PICK pc \in {"store", "final"} : Goto(r, pc)
    BY DEF ValidateEligible
  <1>2. Control(r)'
    <2>1. routine[r].head # "tryFinal" /\ routine[r].proof2 = NoProof
      BY DEF TableInv, Typed, Controlled, Control, ValidateEligible, At, Loops, Heads
    <2>. QED  BY <1>0, <1>1, <2>1 DEF TableInv, Typed, Control, Goto, RoutineStates
  <1>3. routine' \in [Routines -> RoutineStates] /\ Controlled' /\ WorkOf' = WorkOf
    BY <1>0, <1>1, <1>2, Moves DEF TableInv, Points
  <1>4. CASE UNCHANGED proofs
    BY <1>0, <1>3, <1>4, SenderKeeps DEF TableInv, Typed, Table
  <1>5. CASE p[2] < routine[r].last + 1 /\ proofs' = Deleted(proofs, p[1], p[2])
    <2>1. proofs' \subseteq proofs /\ \A row \in proofs \ proofs' : row.proof[2] <= verified
      BY <1>0, <1>5, SMTT(30) DEF Deleted, TableInv, Typed, IsRange
    <2>2. ASSUME "cleanup" \notin faults PROVE Sound(proofs', verified, WorkOf, SenderWork)
      BY <2>1, <2>2, RemoveSound DEF TableInv, Table, Typed
    <2>. QED  BY <1>0, <1>3, <2>1, <2>2, SenderKeeps DEF TableInv, Typed, Table
  <1>. QED  BY <1>4, <1>5 DEF ValidateEligible

\* An attempt ends and the row of its proof is free again.
LEMMA ReleaseKeeps ==
    ASSUME TableInv, NEW r \in Routines, NEW g \in BOOLEAN, Finish(r, g),
           IsRange(routine[r].proof), proofs' = Updated(proofs, routine[r].proof, FALSE),
           faults \subseteq faults', UNCHANGED <<mode, backend, l1Vars, sender, txs>>
    PROVE  TableInv'
  <1>1. /\ routine' \in [Routines -> RoutineStates] /\ Controlled'
        /\ WorkOf'[r] = {} /\ \A s \in Routines \ {r} : WorkOf'[s] = WorkOf[s]
    BY Finishes DEF TableInv, l1Vars
  <1>2. routine[r].proof \in WorkOf[r]
    BY WorkIs DEF TableInv
  <1>3. ASSUME "cleanup" \notin faults PROVE Sound(proofs', verified, WorkOf', SenderWork)
    <2>1. Sound(proofs, verified, WorkOf', SenderWork) /\ NoWorkOn(routine[r].proof, WorkOf', SenderWork)
      BY <1>1, <1>2, <1>3, EndSound, Zenon DEF TableInv, Table, Typed
    <2>. QED  BY <2>1, UpdateSound, Zenon DEF TableInv, Typed
  <1>4. \A row \in proofs' : IsRange(row.proof)
    BY DEF TableInv, Typed, Updated, Row
  <1>. QED  BY <1>1, <1>3, <1>4, SenderKeeps, Zenon DEF TableInv, Typed, Table, l1Vars

LEMMA StoreKeeps ==
    ASSUME TableInv, NEW r \in Routines, Store(r)
    PROVE  TableInv'
  <1>1. IsRange(routine[r].proof)
    BY DEF TableInv, Controlled, Control, Store, At, Loops, Heads
  <1>. QED  BY <1>1, ReleaseKeeps, Zenon DEF Store

LEMMA FailFinalKeeps ==
    ASSUME TableInv, NEW r \in Routines, FailFinalProof(r)
    PROVE  TableInv'
  <1>1. IsRange(routine[r].proof) /\ faults \subseteq faults'
    BY DEF TableInv, Controlled, Control, FailFinalProof, At, Loops, Heads, Fault
  <1>2. CASE routine[r].head = "tryFinal"
    BY <1>1, <1>2, ReleaseKeeps, Zenon DEF FailFinalProof, NotBuilt
  <1>3. CASE routine[r].head # "tryFinal"
    <2>1. Goto(r, "store") /\ UNCHANGED <<mode, backend, l1Vars, proofs, sender, txs>>
      BY <1>3 DEF FailFinalProof, NotBuilt
    <2>2. Control(r)'
      BY <1>1, <1>3, <2>1 DEF TableInv, Typed, Controlled, Control, FailFinalProof, Goto, At, l1Vars,
                              RoutineStates, Loops, Heads
    <2>3. routine' \in [Routines -> RoutineStates] /\ Controlled' /\ WorkOf' = WorkOf
      BY <2>1, <2>2, Moves DEF TableInv, l1Vars, Points
    <2>. QED  BY <1>1, <2>1, <2>3, SenderKeeps DEF TableInv, Typed, Table, l1Vars
  <1>. QED  BY <1>2, <1>3

LEMMA SendKeeps ==
    ASSUME TableInv, NEW r \in Routines, SendFinalProof(r)
    PROVE  TableInv'
  <1>. DEFINE p == routine[r].proof
  <1>0. IsRange(p) /\ p \in WorkOf[r] /\ p \in Nat \X Nat
    BY WorkIs DEF TableInv, Controlled, Control, SendFinalProof, At, Loops, Heads, IsRange
  <1>1. /\ routine' \in [Routines -> RoutineStates] /\ Controlled'
        /\ WorkOf'[r] = {} /\ \A s \in Routines \ {r} : WorkOf'[s] = WorkOf[s]
    BY Finishes, Zenon DEF TableInv, l1Vars, SendFinalProof
  <1>2. SenderWork = {} /\ SenderWork' = {p}
    BY DEF SenderWork, SendFinalProof
  <1>3. ASSUME "cleanup" \notin faults PROVE Sound(proofs, verified, WorkOf', SenderWork')
    <2>1. Sound(proofs, verified, WorkOf', {}) /\ NoWorkOn(p, WorkOf', {})
      BY <1>0, <1>1, <1>2, <1>3, EndSound, Zenon DEF TableInv, Table, Typed
    <2>2. Backed(proofs, verified, p)
      BY <1>0, <1>3 DEF TableInv, Table, Sound
    <2>. QED  BY <1>2, <2>1, <2>2, HandOverSound DEF TableInv, Typed
  <1>. QED  BY <1>0, <1>1, <1>3, SMTT(30) DEF TableInv, Typed, Table, l1Vars, SendFinalProof, SenderPoints

LEMMA LockToAggregateKeeps ==
    ASSUME TableInv, NEW r \in Routines, LockToAggregate(r)
    PROVE  TableInv'
  <1>1. CASE Finish(r, FALSE) /\ UNCHANGED proofs
    BY <1>1, DropKeeps, HeadIsLoop, Zenon DEF TableInv, LockToAggregate, Finish
  <1>2. ASSUME NEW pq \in ToAggregate,
               proofs' = Updated(Updated(proofs, pq[1], TRUE), pq[2], TRUE),
               routine' = [routine EXCEPT ![r].pc = "aggregate",
                                          ![r].proof = pq[1], ![r].proof2 = pq[2]]
        PROVE  TableInv'
    <2>1. PICK row1 \in proofs, row2 \in proofs :
              /\ pq[1] = row1.proof /\ pq[2] = row2.proof
              /\ ~row1.locked /\ ~row2.locked /\ Neighbours(row1.proof, row2.proof)
      BY DEF ToAggregate, Neighbours
    <2>2. IsRange(row1.proof) /\ IsRange(row2.proof)
      BY DEF TableInv, Typed
    <2>. DEFINE x == [routine[r] EXCEPT !.pc = "aggregate", !.proof = row1.proof, !.proof2 = row2.proof]
    <2>3. /\ x \in RoutineStates /\ x.proof = row1.proof /\ x.proof2 = row2.proof
          /\ x.pc = "aggregate" /\ x.head = routine[r].head /\ x.last = routine[r].last
      BY <2>2, Zenon DEF TableInv, Typed, RoutineStates, Points, IsRange
    <2>4. routine' = [routine EXCEPT ![r] = x] /\ UNCHANGED <<verified, sender, faults>>
      BY <1>2, <2>1, Zenon DEF LockToAggregate, l1Vars
    <2>. HIDE DEF x
    <2>5. routine'[r] = x /\ routine[r].head # "tryFinal"
      BY <2>4, Zenon DEF TableInv, Typed, Controlled, Control, LockToAggregate, At, Loops, Heads
    <2>6. Control(r)'
      BY <2>1, <2>2, <2>3, <2>4, <2>5 DEF TableInv, Controlled, Control
    <2>7. /\ routine' \in [Routines -> RoutineStates] /\ Controlled'
          /\ WorkOf'[r] = {x.proof, x.proof2} \ {NoProof}
          /\ \A s \in Routines \ {r} : WorkOf'[s] = WorkOf[s]
      BY <2>3, <2>4, <2>6, MovesOn, Zenon DEF TableInv
    <2>8. WorkOf' = WithWork(WorkOf, r, {row1.proof, row2.proof})
      BY <2>2, <2>3, <2>7 DEF IsRange, NoProof, WorkOf, WithWork
    <2>9. ASSUME "cleanup" \notin faults PROVE Sound(proofs', verified, WorkOf', SenderWork)
      <3>1. Sound(proofs, verified, WorkOf, SenderWork) /\ verified \in Nat
        BY <2>9 DEF TableInv, Table, Typed
      <3>2. Sound(Updated(Updated(proofs, row1.proof, TRUE), row2.proof, TRUE), verified,
                  WithWork(WorkOf, r, {row1.proof, row2.proof}), SenderWork)
        BY <2>1, <3>1, LockPairSound, Zenon
      <3>. QED  BY <1>2, <2>1, <2>8, <3>2, Zenon
    <2>10. \A row \in proofs' : IsRange(row.proof)
      BY <1>2, <2>1 DEF TableInv, Typed, Updated, Row
    <2>. QED  BY <2>4, <2>7, <2>9, <2>10, SenderKeeps, Zenon
              DEF TableInv, Typed, Table, LockToAggregate, l1Vars
  <1>. QED  BY <1>1, <1>2, Zenon DEF LockToAggregate

LEMMA AggregateKeeps ==
    ASSUME TableInv, NEW r \in Routines, Aggregate(r)
    PROVE  TableInv'
  <1>. DEFINE p1 == routine[r].proof
              p2 == routine[r].proof2
              p == <<p1[1], p2[2]>>
              x == [routine[r] EXCEPT !.pc = "generated", !.proof = p, !.proof2 = NoProof]
  <1>1. /\ IsRange(p1) /\ IsRange(p2) /\ Neighbours(p1, p2) /\ routine[r].head # "tryFinal"
        /\ routine[r].last <= verified
    BY DEF TableInv, Controlled, Control, Aggregate, At, Loops, Heads
  <1>2. IsRange(p)
    BY <1>1 DEF IsRange, Neighbours
  <1>3. /\ x \in RoutineStates /\ x.proof = p /\ x.proof2 = NoProof
        /\ x.pc = "generated" /\ x.head = routine[r].head /\ x.last = routine[r].last
    BY <1>2, Zenon DEF TableInv, Typed, RoutineStates, Points, IsRange, NoProof
  <1>4. /\ routine' = [routine EXCEPT ![r] = x] /\ UNCHANGED <<verified, sender, faults>>
        /\ proofs' = Deleted(proofs, p1[1], p2[2]) \cup {Row(p, TRUE, TRUE)}
    BY DEF Aggregate, l1Vars
  <1>. HIDE DEF x
  <1>5. routine'[r] = x
    BY <1>4, SMTT(30) DEF TableInv, Typed
  <1>6. Control(r)'
    BY <1>1, <1>2, <1>3, <1>4, <1>5 DEF Control
  <1>7. /\ routine' \in [Routines -> RoutineStates] /\ Controlled'
        /\ WorkOf'[r] = {x.proof, x.proof2} \ {NoProof}
        /\ \A s \in Routines \ {r} : WorkOf'[s] = WorkOf[s]
    BY <1>3, <1>4, <1>6, MovesOn, Zenon DEF TableInv
  <1>8. WorkOf' = WithWork(WorkOf, r, {p}) /\ p1 \in WorkOf[r] /\ p2 \in WorkOf[r]
    <2>1. WorkOf'[r] = {p} /\ p1 \in WorkOf[r] /\ p2 \in WorkOf[r]
      BY <1>1, <1>2, <1>3, <1>7, WorkIs DEF TableInv
    <2>. QED  BY <1>7, <2>1 DEF WorkOf, WithWork
  <1>9. ASSUME "cleanup" \notin faults PROVE Sound(proofs', verified, WorkOf', SenderWork)
    <2>1. Sound(proofs, verified, WorkOf, SenderWork) /\ verified \in Nat
      BY <1>9 DEF TableInv, Table, Typed
    <2>2. Sound(Deleted(proofs, p1[1], p2[2]) \cup {Row(p, TRUE, TRUE)}, verified,
                WithWork(WorkOf, r, {p}), SenderWork)
      BY <1>1, <1>8, <2>1, AggregateSound, Zenon
    <2>. QED  BY <1>4, <1>8, <2>2
  <1>10. \A row \in proofs' : IsRange(row.proof)
    BY <1>2, <1>4 DEF TableInv, Typed, Deleted, Row
  <1>. QED  BY <1>4, <1>7, <1>9, <1>10, SenderKeeps, Zenon DEF TableInv, Typed, Table, Aggregate, l1Vars

LEMMA FailAggregateKeeps ==
    ASSUME TableInv, NEW r \in Routines, FailAggregate(r)
    PROVE  TableInv'
  <1>. DEFINE p1 == routine[r].proof
              p2 == routine[r].proof2
  <1>1. IsRange(p1) /\ IsRange(p2) /\ faults \subseteq faults'
    BY DEF TableInv, Controlled, Control, FailAggregate, At, Loops, Heads, Fault
  <1>2. /\ routine' \in [Routines -> RoutineStates] /\ Controlled'
        /\ WorkOf'[r] = {} /\ \A s \in Routines \ {r} : WorkOf'[s] = WorkOf[s]
    BY Finishes, Zenon DEF TableInv, l1Vars, FailAggregate
  <1>3. p1 \in WorkOf[r] /\ p2 \in WorkOf[r]
    BY <1>1, WorkIs DEF TableInv
  <1>4. ASSUME "cleanup" \notin faults PROVE Sound(proofs', verified, WorkOf', SenderWork)
    <2>1. /\ Sound(proofs, verified, WorkOf', SenderWork)
          /\ NoWorkOn(p1, WorkOf', SenderWork) /\ NoWorkOn(p2, WorkOf', SenderWork)
      BY <1>2, <1>3, <1>4, EndSound, Zenon DEF TableInv, Table, Typed
    <2>2. Sound(Updated(proofs, p1, FALSE), verified, WorkOf', SenderWork)
      BY <1>1, <2>1, UpdateSound, Zenon DEF TableInv, Typed
    <2>3. Sound(Updated(Updated(proofs, p1, FALSE), p2, FALSE), verified, WorkOf', SenderWork)
      BY <1>1, <2>1, <2>2, UpdateSound, Zenon DEF TableInv, Typed
    <2>. QED  BY <2>3, Zenon DEF FailAggregate
  <1>5. \A row \in proofs' : IsRange(row.proof)
    BY <1>1 DEF TableInv, Typed, Updated, Row, FailAggregate
  <1>. QED  BY <1>1, <1>2, <1>4, <1>5, SenderKeeps, Zenon DEF TableInv, Typed, Table, FailAggregate, l1Vars

LEMMA LockBatchKeeps ==
    ASSUME TableInv, NEW r \in Routines, LockBatchToProve(r)
    PROVE  TableInv'
  <1>1. CASE Finish(r, FALSE) /\ UNCHANGED proofs
    BY <1>1, DropKeeps, HeadIsLoop, Zenon DEF TableInv, LockBatchToProve, Finish
  <1>2. ASSUME NEW b \in ToProve,
               proofs' = proofs \cup {Row(<<b, b>>, TRUE, FALSE)},
               routine' = [routine EXCEPT ![r].pc = "batch", ![r].proof = <<b, b>>]
        PROVE  TableInv'
    <2>. DEFINE p == <<b, b>>
                x == [routine[r] EXCEPT !.pc = "batch", !.proof = p]
    <2>1. /\ b \in Nat /\ b > verified
          /\ \A row \in proofs : ~(row.proof[1] <= b /\ b <= row.proof[2])
      <3>1. LastBatch(sequenced) \in Nat
        BY AggregatorAssumption DEF TableInv, Typed, LastBatch
      <3>. QED  BY <3>1 DEF ToProve, TableInv, Typed
    <2>2. IsRange(p) /\ routine[r].head # "tryFinal" /\ routine[r].proof2 = NoProof
      BY <2>1 DEF TableInv, Typed, Controlled, Control, LockBatchToProve, At, Loops, Heads, IsRange
    <2>3. /\ x \in RoutineStates /\ x.proof = p /\ x.proof2 = NoProof
          /\ x.pc = "batch" /\ x.head = routine[r].head /\ x.last = routine[r].last
      BY <2>2, Zenon DEF TableInv, Typed, RoutineStates, Points, IsRange
    <2>4. routine' = [routine EXCEPT ![r] = x] /\ UNCHANGED <<verified, sender, faults>>
      BY <1>2, Zenon DEF LockBatchToProve, l1Vars
    <2>. HIDE DEF x
    <2>5. routine'[r] = x
      BY <2>4 DEF TableInv, Typed
    <2>6. Control(r)'
      BY <2>2, <2>3, <2>4, <2>5 DEF TableInv, Controlled, Control
    <2>7. /\ routine' \in [Routines -> RoutineStates] /\ Controlled'
          /\ WorkOf'[r] = {x.proof, x.proof2} \ {NoProof}
          /\ \A s \in Routines \ {r} : WorkOf'[s] = WorkOf[s]
      BY <2>3, <2>4, <2>6, MovesOn, Zenon DEF TableInv
    <2>8. WorkOf' = WithWork(WorkOf, r, {p})
      <3>1. WorkOf'[r] = {p}
        BY <2>2, <2>3, <2>7, WorkIs DEF TableInv
      <3>. QED  BY <2>7, <3>1 DEF WorkOf, WithWork
    <2>9. ASSUME "cleanup" \notin faults PROVE Sound(proofs', verified, WorkOf', SenderWork)
      <3>1. Sound(proofs, verified, WorkOf, SenderWork) /\ verified \in Nat
        BY <2>9 DEF TableInv, Table, Typed
      <3>2. Sound(proofs \cup {Row(p, TRUE, FALSE)}, verified, WithWork(WorkOf, r, {p}), SenderWork)
        BY <2>1, <3>1, LockBatchSound, Zenon
      <3>. QED  BY <1>2, <2>8, <3>2
    <2>10. \A row \in proofs' : IsRange(row.proof)
      BY <1>2, <2>2 DEF TableInv, Typed, Row
    <2>. QED  BY <2>4, <2>7, <2>9, <2>10, SenderKeeps, Zenon
              DEF TableInv, Typed, Table, LockBatchToProve, l1Vars
  <1>. QED  BY <1>1, <1>2, Zenon DEF LockBatchToProve

LEMMA FailBatchKeeps ==
    ASSUME TableInv, NEW r \in Routines, FailBatchProof(r)
    PROVE  TableInv'
  <1>. DEFINE p == routine[r].proof
  <1>1. IsRange(p) /\ faults \subseteq faults' /\ proofs' = Deleted(proofs, p[1], p[2])
    BY DEF TableInv, Controlled, Control, FailBatchProof, At, Loops, Heads, Fault
  <1>2. /\ routine' \in [Routines -> RoutineStates] /\ Controlled'
        /\ WorkOf'[r] = {} /\ \A s \in Routines \ {r} : WorkOf'[s] = WorkOf[s]
    BY Finishes, Zenon DEF TableInv, l1Vars, FailBatchProof
  <1>3. p \in WorkOf[r]
    BY <1>1, WorkIs DEF TableInv
  <1>. HIDE DEF p
  <1>4. ASSUME "cleanup" \notin faults PROVE Sound(proofs', verified, WorkOf', SenderWork)
    <2>1. Sound(proofs, verified, WorkOf', SenderWork) /\ NoWorkOn(p, WorkOf', SenderWork)
      BY <1>2, <1>3, <1>4, EndSound, Zenon DEF TableInv, Table, Typed
    <2>2. ASSUME NEW row \in proofs \ proofs', NEW q, Backed(proofs, verified, q), ~Overlap(q, p)
          PROVE  ~Overlap(q, row.proof)
      BY <1>1, <2>2, SMTT(30) DEF Overlap, IsRange, Backed, Deleted, TableInv, Typed
    <2>3. \A row \in proofs \ proofs' : NoWorkOn(row.proof, WorkOf', SenderWork)
      BY <2>1, <2>2 DEF NoWorkOn, Sound
    <2>4. proofs' \subseteq proofs
      BY <1>1 DEF Deleted
    <2>. QED  BY <2>1, <2>3, <2>4, RemoveSound DEF TableInv, Typed
  <1>5. \A row \in proofs' : IsRange(row.proof)
    BY <1>1 DEF TableInv, Typed, Deleted
  <1>. QED  BY <1>1, <1>2, <1>4, <1>5, SenderKeeps DEF TableInv, Typed, Table, FailBatchProof, l1Vars

LEMMA RoutineKeeps ==
    ASSUME TableInv, NEW r \in Routines, ProverStep(r) \/ ProverFault(r)
    PROVE  TableInv'
  BY CanVerifyKeeps, CannotVerifyKeeps, SyncKeeps, LockReadyKeeps, ValidateKeeps, BuildKeeps,
     SendKeeps, StoreKeeps, LockToAggregateKeeps, AggregateKeeps, LockBatchKeeps, DisconnectKeeps,
     FailFinalKeeps, FailAggregateKeeps, FailBatchKeeps
     DEF ProverStep, ProverFault

-----------------------------------------------------------------------------
(* So does every other step                                                  *)

\* The last verified batch on L1.
LEMMA VerifiedL1Is ==
    ASSUME Typed
    PROVE  VerifiedL1 \in roots /\ VerifiedL1 \in Nat /\ \A c \in roots : c <= VerifiedL1
  BY Zenon DEF Typed, VerifiedL1

LEMMA RoutinesStay ==
    ASSUME TableInv, UNCHANGED routine, verified' \in Nat, verified <= verified'
    PROVE  Controlled' /\ WorkOf' = WorkOf
  BY SMTT(30) DEF TableInv, Typed, RoutineStates, Controlled, Control, WorkOf, Work

\* The sender moves on with its proof, or drops it.
LEMMA SenderMoves ==
    ASSUME TableInv, UNCHANGED <<mode, backend, l1Vars, proofs, routine>>, faults \subseteq faults',
           sender' \in [pc : SenderPoints, proof : Nat \X Nat],
           sender'.pc \in {"start", "settle", "wait", "cleanup", "bootCleanup"} => IsRange(sender'.proof),
           SenderWork' \subseteq SenderWork,
           \A tx \in txs' : tx \in [proof : Nat \X Nat, status : {"sent", "mined", "done"}] /\ IsRange(tx.proof)
    PROVE  TableInv'
  <1>1. Controlled' /\ WorkOf' = WorkOf
    <2>1. verified' \in Nat /\ verified <= verified' /\ UNCHANGED routine
      BY DEF TableInv, Typed, l1Vars
    <2>. QED  BY <2>1, RoutinesStay
  <1>2. ASSUME "cleanup" \notin faults PROVE Sound(proofs, verified, WorkOf, SenderWork')
    <2>1. Sound(proofs, verified, WorkOf, SenderWork) /\ verified \in Nat
      BY <1>2 DEF TableInv, Table, Typed
    <2>. QED  BY <2>1, ShrinkSound
  <1>. QED  BY <1>1, <1>2 DEF TableInv, Typed, Table, l1Vars

\* The sender gives a proof up: its row is free again.
LEMMA SenderReleases ==
    ASSUME TableInv, UNCHANGED <<mode, backend, l1Vars, routine, txs>>, faults \subseteq faults',
           sender.pc \in {"settle", "wait"}, sender' = Idle,
           proofs' = Updated(proofs, sender.proof, FALSE)
    PROVE  TableInv'
  <1>1. Controlled' /\ WorkOf' = WorkOf
    BY RoutinesStay DEF TableInv, Typed, l1Vars
  <1>2. SenderWork = {sender.proof} /\ SenderWork' = {} /\ IsRange(sender.proof)
    BY DEF SenderWork, Idle, TableInv, Typed
  <1>3. ASSUME "cleanup" \notin faults PROVE Sound(proofs', verified, WorkOf, {})
    <2>1. Sound(proofs, verified, WorkOf, {sender.proof}) /\ verified \in Nat
      BY <1>2, <1>3 DEF TableInv, Table, Typed
    <2>2. Sound(proofs, verified, WorkOf, {}) /\ NoWorkOn(sender.proof, WorkOf, {})
      BY <2>1, SenderEndSound
    <2>. QED  BY <1>2, <2>1, <2>2, UpdateSound, Zenon
  <1>4. \A row \in proofs' : IsRange(row.proof)
    BY DEF TableInv, Typed, Updated, Row
  <1>5. sender' \in [pc : SenderPoints, proof : Nat \X Nat] /\ sender'.pc = "idle"
    BY DEF Idle, SenderPoints, NoProof
  <1>. QED  BY <1>1, <1>2, <1>3, <1>4, <1>5, Zenon DEF TableInv, Typed, Table, l1Vars

\* What a change of a verification's status leaves.
LEMMA StatusKept ==
    ASSUME Typed, NEW tx \in txs, NEW st \in {"sent", "mined", "done"},
           txs' = (txs \ {tx}) \cup {[tx EXCEPT !.status = st]}
    PROVE  \A t \in txs' : t \in [proof : Nat \X Nat, status : {"sent", "mined", "done"}] /\ IsRange(t.proof)
  BY DEF Typed

LEMMA SettleKeeps ==
    ASSUME TableInv, Settle
    PROVE  TableInv'
  <1>1. CASE sender' = Idle /\ proofs' = Updated(proofs, sender.proof, FALSE) /\ UNCHANGED txs
    BY <1>1, SenderReleases DEF Settle
  <1>2. CASE /\ txs' = txs \cup {[proof |-> sender.proof, status |-> "sent"]}
             /\ sender' = [sender EXCEPT !.pc = "wait"]
             /\ UNCHANGED <<proofs, verifyingProof>>
    <2>1. IsRange(sender.proof) /\ sender.proof \in Nat \X Nat /\ sender.pc = "settle"
      BY DEF TableInv, Typed, Settle
    <2>2. sender' \in [pc : SenderPoints, proof : Nat \X Nat] /\ sender'.pc = "wait"
          /\ sender'.proof = sender.proof
      BY <1>2 DEF TableInv, Typed, SenderPoints
    <2>3. SenderWork' = SenderWork
      BY <2>1, <2>2 DEF SenderWork
    <2>4. \A tx \in txs' : tx \in [proof : Nat \X Nat, status : {"sent", "mined", "done"}] /\ IsRange(tx.proof)
      BY <1>2, <2>1 DEF TableInv, Typed
    <2>. QED  BY <1>2, <2>1, <2>2, <2>3, <2>4, SenderMoves DEF Settle
  <1>. QED  BY <1>1, <1>2, Zenon DEF Settle

LEMMA SettledKeeps ==
    ASSUME TableInv, Settled
    PROVE  TableInv'
  <1>1. \A t \in txs' : t \in [proof : Nat \X Nat, status : {"sent", "mined", "done"}] /\ IsRange(t.proof)
    BY StatusKept DEF TableInv, Settled
  <1>2. /\ IsRange(sender.proof) /\ sender' \in [pc : SenderPoints, proof : Nat \X Nat]
        /\ sender'.pc \in {"cleanup", "end"} /\ sender'.proof = sender.proof
    BY DEF TableInv, Typed, Settled, SenderPoints
  <1>3. SenderWork' \subseteq SenderWork
    BY <1>2 DEF SenderWork, Settled
  <1>. QED  BY <1>1, <1>2, <1>3, SenderMoves DEF Settled

LEMMA SenderEndsKeeps ==
    ASSUME TableInv, StartVerification \/ BatchNotFound \/ EndVerification
    PROVE  TableInv'
  <1>1. /\ sender' \in [pc : SenderPoints, proof : Nat \X Nat]
        /\ sender'.pc \in {"settle", "idle"}
        /\ sender'.pc = "settle" => sender'.proof = sender.proof /\ sender.pc = "start"
    BY DEF TableInv, Typed, StartVerification, BatchNotFound, EndVerification, SenderPoints, Idle, NoProof
  <1>2. SenderWork' \subseteq SenderWork
    BY <1>1 DEF SenderWork
  <1>3. faults \subseteq faults' /\ UNCHANGED <<mode, backend, l1Vars, proofs, routine, txs>>
    BY DEF StartVerification, BatchNotFound, EndVerification, Fault
  <1>. QED  BY <1>1, <1>2, <1>3, SenderMoves, SMTT(30) DEF TableInv, Typed

LEMMA CleanupGeneratedKeeps ==
    ASSUME TableInv, CleanupGeneratedProofs
    PROVE  TableInv'
  <1>1. /\ sender' \in [pc : SenderPoints, proof : Nat \X Nat] /\ sender'.pc \in {"end", "boot"}
        /\ IsRange(sender.proof) /\ UNCHANGED <<mode, backend, sequenced, verified, roots, routine, txs, faults>>
    BY SMTT(30) DEF TableInv, Typed, CleanupGeneratedProofs, SenderPoints, Idle, NoProof, l1Vars
  <1>2. Controlled' /\ WorkOf' = WorkOf
    BY <1>1, RoutinesStay DEF TableInv, Typed
  <1>3. proofs' \subseteq proofs /\ \A row \in proofs \ proofs' : row.proof[2] <= verified
    BY <1>1 DEF CleanupGeneratedProofs, TableInv, Typed, IsRange
  <1>4. SenderWork' = {}
    BY <1>1 DEF SenderWork
  <1>5. ASSUME "cleanup" \notin faults PROVE Sound(proofs', verified, WorkOf, {})
    <2>1. Sound(proofs, verified, WorkOf, SenderWork) /\ verified \in Nat
      BY <1>5 DEF TableInv, Table, Typed
    <2>2. Sound(proofs, verified, WorkOf, {})
      BY <2>1, ShrinkSound
    <2>. QED  BY <1>3, <2>1, <2>2, RemoveSound
  <1>. QED  BY <1>1, <1>2, <1>3, <1>4, <1>5 DEF TableInv, Typed, Table

LEMMA BootPendingKeeps ==
    ASSUME TableInv, BootPending
    PROVE  TableInv'
  <1>1. PICK tx \in txs : /\ txs' = (txs \ {tx}) \cup {[tx EXCEPT !.status = "done"]}
                          /\ sender' = [pc |-> "bootCleanup", proof |-> tx.proof]
    BY DEF BootPending
  <1>2. \A t \in txs' : t \in [proof : Nat \X Nat, status : {"sent", "mined", "done"}] /\ IsRange(t.proof)
    BY <1>1, StatusKept DEF TableInv
  <1>3. IsRange(sender'.proof) /\ sender' \in [pc : SenderPoints, proof : Nat \X Nat]
    BY <1>1 DEF TableInv, Typed, SenderPoints
  <1>4. SenderWork' \subseteq SenderWork
    BY <1>1 DEF SenderWork
  <1>. QED  BY <1>2, <1>3, <1>4, SenderMoves DEF BootPending

\* All routines are at a head, as after a start or a crash.
LEMMA RestartKeeps ==
    ASSUME TableInv, NEW h \in [Routines -> Loops],
           routine' = [r \in Routines |-> AtHead(h[r])], faults \subseteq faults',
           proofs' \subseteq proofs, UNCHANGED <<mode, backend, l1Vars, txs>>,
           sender' \in [pc : {"idle", "boot"}, proof : Nat \X Nat]
    PROVE  TableInv'
  <1>1. \A r \in Routines : AtHead(h[r]) \in RoutineStates
    BY DEF AtHead, RoutineStates, Points, NoProof
  <1>2. routine' \in [Routines -> RoutineStates]
    BY <1>1
  <1>3. ASSUME NEW r \in Routines PROVE Control(r)' /\ Work(r)' = {}
    BY DEF Control, Work, AtHead, NoProof, TableInv, Typed, l1Vars
  <1>4. \A r \in Routines : WorkOf'[r] = {}
    BY <1>3 DEF WorkOf
  <1>5. SenderWork' = {}
    BY DEF SenderWork
  <1>6. ASSUME "cleanup" \notin faults PROVE Sound(proofs', verified, WorkOf', SenderWork')
    <2>1. Sound(proofs, verified, WorkOf, SenderWork) /\ verified \in Nat
      BY <1>6 DEF TableInv, Table, Typed
    <2>2. Sound(proofs, verified, WorkOf', SenderWork')
      BY <1>4, <1>5, <2>1, ShrinkSound
    <2>3. \A p : NoWorkOn(p, WorkOf', SenderWork')
      BY <1>4, <1>5 DEF NoWorkOn
    <2>. QED  BY <2>1, <2>2, <2>3, RemoveSound
  <1>7. sender' \in [pc : SenderPoints, proof : Nat \X Nat]
    BY DEF SenderPoints
  <1>. QED  BY <1>2, <1>3, <1>6, <1>7 DEF TableInv, Typed, Table, Controlled, l1Vars

LEMMA BootKeeps ==
    ASSUME TableInv, Boot \/ Crash
    PROVE  TableInv'
  <1>1. sender' \in [pc : {"idle", "boot"}, proof : Nat \X Nat]
    BY DEF Boot, Crash, Idle, NoProof
  <1>2. CASE Boot
    <2>. DEFINE h == [r \in Routines |-> FirstHead(mode[r])]
    <2>1. h \in [Routines -> Loops] /\ routine' = [r \in Routines |-> AtHead(h[r])]
      BY <1>2, HeadIsLoop, Zenon DEF Boot, TableInv
    <2>. HIDE DEF h
    <2>. QED  BY <1>1, <1>2, <2>1, RestartKeeps DEF Boot
  <1>3. CASE Crash
    <2>. DEFINE h == [r \in Routines |-> "off"]
    <2>1. h \in [Routines -> Loops] /\ routine' = [r \in Routines |-> AtHead(h[r])]
      BY <1>3 DEF Crash, Loops
    <2>. HIDE DEF h
    <2>. QED  BY <1>1, <1>3, <2>1, RestartKeeps DEF Crash, Fault
  <1>. QED  BY <1>2, <1>3

LEMMA CleanupKeeps ==
    ASSUME TableInv, CleanupLost \/ CleanupSlow
    PROVE  TableInv'
  <1>1. /\ UNCHANGED <<mode, backend, sequenced, verified, roots, routine, sender, txs>>
        /\ proofs' \subseteq proofs
    BY DEF CleanupLost, CleanupSlow, l1Vars
  <1>2. Controlled' /\ WorkOf' = WorkOf /\ SenderWork' = SenderWork
    BY <1>1, RoutinesStay, SenderKeeps DEF TableInv, Typed
  <1>3. ASSUME "cleanup" \notin faults' PROVE Sound(proofs', verified, WorkOf, SenderWork)
    <2>1. CleanupLost /\ "cleanup" \notin faults
      BY <1>3 DEF CleanupLost, CleanupSlow, Fault
    <2>2. Sound(proofs, verified, WorkOf, SenderWork) /\ verified \in Nat
      BY <2>1 DEF TableInv, Table, Typed
    <2>3. ASSUME NEW row \in proofs \ proofs', NEW q \in InWork, Overlap(q, row.proof),
                 Backed(proofs, verified, q)
          PROVE  FALSE
      <3>1. row.proof \notin InWork
        BY <2>1 DEF CleanupLost
      <3>2. Overlap(row.proof, q) /\ IsRange(row.proof)
        BY <2>3 DEF Overlap, TableInv, Typed
      <3>3. row.proof = q
        BY <2>2, <2>3, <3>2, OwnRow DEF Sound
      <3>. QED  BY <2>3, <3>1, <3>3
    <2>4. /\ \A r \in Routines : \A q \in WorkOf[r] : q \in InWork /\ Backed(proofs, verified, q)
          /\ \A q \in SenderWork : q \in InWork /\ Backed(proofs, verified, q)
      BY <2>2 DEF InWork, WorkOf, Sound
    <2>5. \A row \in proofs \ proofs' : NoWorkOn(row.proof, WorkOf, SenderWork)
      BY <2>3, <2>4 DEF NoWorkOn
    <2>. QED  BY <1>1, <2>2, <2>5, RemoveSound
  <1>. QED  BY <1>1, <1>2, <1>3 DEF TableInv, Typed, Table

LEMMA L1Keeps ==
    ASSUME TableInv, SyncSequence \/ Mine \/ SyncVerified
    PROVE  TableInv'
  <1>1. /\ UNCHANGED <<mode, backend, proofs, routine, sender, faults>>
        /\ verified' \in Nat /\ verified <= verified'
        /\ sequenced' \in 0 .. Len(Sequences)
    <2>1. Len(Sequences) \in Nat
      BY AggregatorAssumption
    <2>. QED  BY <2>1, VerifiedL1Is DEF SyncSequence, Mine, SyncVerified, TableInv, Typed
  <1>2. Controlled' /\ WorkOf' = WorkOf /\ SenderWork' = SenderWork
    BY <1>1, RoutinesStay, SenderKeeps
  <1>3. roots' \subseteq Nat /\ \E b \in roots' : \A c \in roots' : c <= b
    <2>1. CASE UNCHANGED roots
      BY <2>1 DEF TableInv, Typed
    <2>2. ASSUME NEW tx \in txs, Accepts(tx.proof), roots' = roots \cup {tx.proof[2]}
          PROVE  roots' \subseteq Nat /\ \E b \in roots' : \A c \in roots' : c <= b
      <3>1. tx.proof[2] \in Nat
        BY DEF TableInv, Typed, IsRange
      <3>2. \A c \in roots : c \in Nat /\ c <= tx.proof[2]
        BY <2>2, <3>1, VerifiedL1Is DEF Accepts, TableInv, Typed
      <3>. QED  BY <2>2, <3>1, <3>2
    <2>. QED  BY <2>1, <2>2 DEF SyncSequence, Mine, SyncVerified
  <1>4. \A t \in txs' : t \in [proof : Nat \X Nat, status : {"sent", "mined", "done"}] /\ IsRange(t.proof)
    <2>1. CASE txs' \subseteq txs
      BY <2>1 DEF TableInv, Typed
    <2>2. CASE \E tx \in txs : txs' = (txs \ {tx}) \cup {[tx EXCEPT !.status = "mined"]}
      BY <2>2, StatusKept DEF TableInv
    <2>. QED  BY <2>1, <2>2 DEF SyncSequence, Mine, SyncVerified
  <1>5. ASSUME "cleanup" \notin faults PROVE Sound(proofs, verified', WorkOf, SenderWork)
    <2>1. Sound(proofs, verified, WorkOf, SenderWork) /\ verified \in Nat
      BY <1>5 DEF TableInv, Table, Typed
    <2>. QED  BY <1>1, <2>1, ShrinkSound
  <1>. QED  BY <1>1, <1>2, <1>3, <1>4, <1>5, Zenon DEF TableInv, Typed, Table

LEMMA TimeoutKeeps ==
    ASSUME TableInv, AggLayerTimeout
    PROVE  TableInv'
  BY SenderReleases DEF AggLayerTimeout, Fault

LEMMA TableInitial ==
    ASSUME Init
    PROVE  TableInv
  <1>1. sequenced \in 0 .. Len(Sequences)
    BY AggregatorAssumption DEF Init
  <1>2. /\ mode \in Modes /\ backend \in {"direct", "agglayer"} /\ verified \in Nat /\ proofs = {} /\ txs = {} /\ sender.pc = "idle"
        /\ sender \in [pc : SenderPoints, proof : Nat \X Nat]
        /\ roots \subseteq Nat /\ \E b \in roots : \A c \in roots : c <= b
    BY AggregatorAssumption DEF Init, Idle, NoProof, SenderPoints
  <1>3. ASSUME NEW r \in Routines
        PROVE  AtHead(FirstHead(mode[r])) \in RoutineStates /\ Control(r) /\ WorkOf[r] = {}
    <2>1. FirstHead(mode[r]) \in Loops
      BY <1>2, AggregatorAssumption DEF FirstHead, Loops, Heads
    <2>. QED  BY <1>2, <2>1 DEF AtHead, RoutineStates, Points, NoProof, Control, WorkOf, Work, Init
  <1>4. routine \in [Routines -> RoutineStates]
    BY <1>3 DEF Init
  <1>5. Sound(proofs, verified, WorkOf, SenderWork)
    BY <1>2, <1>3, SMTT(30) DEF Sound, SenderWork
  <1>. QED  BY <1>1, <1>2, <1>3, <1>4, <1>5 DEF TableInv, Typed, Controlled, Table

LEMMA TableStays ==
    ASSUME TableInv, UNCHANGED vars
    PROVE  TableInv'
  BY DEF TableInv, Typed, Controlled, Control, Table, WorkOf, Work, SenderWork, vars, l1Vars

LEMMA TableNext ==
    ASSUME TableInv, [Next]_vars
    PROVE  TableInv'
  BY RoutineKeeps, SettleKeeps, SettledKeeps, SenderEndsKeeps, CleanupGeneratedKeeps,
     BootPendingKeeps, BootKeeps, TimeoutKeeps, CleanupKeeps, L1Keeps, TableStays
     DEF Next, SenderStep

\* The rows and the work of the goroutines fit together in every state.
THEOREM TableInvariant == Spec => []TableInv
  BY TableInitial, TableNext, PTL DEF Spec

(***************************************************************************)
(* No batch is ever in two rows of state.proof, whatever the number of     *)
(* provers, their mode, their failures and the crashes: unless             *)
(* cleanupLockedProofs deleted a row whose work was still going on.        *)
(***************************************************************************)
THEOREM NoBatchInTwoProofs == Spec => []ProofsDisjoint
  <1>1. TableInv => ProofsDisjoint
    BY DEF TableInv, Table, ProofsDisjoint, Sound
  <1>. QED  BY <1>1, TableInvariant, PTL

(***************************************************************************)
(* No two goroutines, the sender included, work on the same batch.         *)
(***************************************************************************)
THEOREM NoBatchProvedTwice == Spec => []NoDoubleWork
  <1>1. TableInv => NoDoubleWork
    BY DEF TableInv, Table, NoDoubleWork, Sound, WorkOf
  <1>. QED  BY <1>1, TableInvariant, PTL

-----------------------------------------------------------------------------
(* Settlements                                                               *)

Awaited(tx) ==
    \/ sender.pc = "wait" /\ sender.proof = tx.proof
    \/ sender.pc = "boot" /\ backend = "direct"

\* A verification that is not done is the only one, and waited for.
Settlements ==
    ~SettlementGivenUp =>
        /\ \A tx, other \in txs : tx.status # "done" /\ other.status # "done" => tx = other
        /\ \A tx \in txs : tx.status = "sent" => Accepts(tx.proof)
        /\ \A tx \in txs : tx.status # "done" => Awaited(tx)

\* While settlements and the contract stay, what matters is who waits.
LEMMA SettlementsStay ==
    ASSUME Settlements, UNCHANGED <<backend, txs, roots>>, faults \subseteq faults',
           \A tx \in txs : ~SettlementGivenUp' /\ Awaited(tx) /\ tx.status # "done" => Awaited(tx)'
    PROVE  Settlements'
  <1>1. SettlementGivenUp => SettlementGivenUp'
    BY DEF SettlementGivenUp
  <1>2. \A p : Accepts(p)' <=> Accepts(p)
    BY DEF Accepts, VerifiedL1
  <1>. QED  BY <1>1, <1>2 DEF Settlements

LEMMA RoutineSettlements ==
    ASSUME Settlements, NEW r \in Routines, ProverStep(r) \/ ProverFault(r)
    PROVE  Settlements'
  <1>1. UNCHANGED <<backend, txs, roots>> /\ faults \subseteq faults'
    BY Zenon DEF ProverStep, ProverFault, CanVerifyProof, CannotVerifyProof, Sync, LockReadyToVerify,
           ValidateEligible, BuildFinalProof, SendFinalProof, Store, LockToAggregate, Aggregate,
           LockBatchToProve, GenerateBatchProof, Disconnect, FailFinalProof, FailAggregate,
           FailBatchProof, Fault, l1Vars
  <1>2. UNCHANGED sender \/ sender.pc = "idle"
    BY Zenon DEF ProverStep, ProverFault, CanVerifyProof, CannotVerifyProof, Sync, LockReadyToVerify,
           ValidateEligible, BuildFinalProof, SendFinalProof, Store, LockToAggregate, Aggregate,
           LockBatchToProve, GenerateBatchProof, Disconnect, FailFinalProof, FailAggregate,
           FailBatchProof
  <1>. QED  BY <1>1, <1>2, SettlementsStay DEF Awaited

\* A verification that was awaited is done: none is left.
LEMMA DoneSettlements ==
    ASSUME Typed, Settlements, NEW tx \in txs, tx.status = "mined",
           txs' = (txs \ {tx}) \cup {[tx EXCEPT !.status = "done"]},
           UNCHANGED <<backend, faults, roots>>
    PROVE  Settlements'
  <1>1. SettlementGivenUp' <=> SettlementGivenUp
    BY DEF SettlementGivenUp
  <1>2. ASSUME ~SettlementGivenUp, NEW t \in txs' PROVE t.status = "done"
    BY <1>2 DEF Settlements, Typed
  <1>. QED  BY <1>1, <1>2 DEF Settlements

LEMMA SenderSettlements ==
    ASSUME TableInv, Settlements, SenderStep
    PROVE  Settlements'
  <1>0. Typed
    BY DEF TableInv
  <1>1. CASE StartVerification \/ CleanupGeneratedProofs \/ EndVerification
    <2>1. /\ UNCHANGED <<backend, txs, roots, faults>>
          /\ sender.pc \notin {"wait", "boot"}
      BY <1>1 DEF StartVerification, CleanupGeneratedProofs, EndVerification, l1Vars
    <2>. QED  BY <2>1, SettlementsStay DEF Awaited
  <1>2. CASE Settle
    <2>0. /\ sender.pc = "settle" /\ UNCHANGED <<backend, roots, faults>>
      BY <1>2 DEF Settle, l1Vars
    <2>1. CASE UNCHANGED txs
      BY <2>0, <2>1, SettlementsStay DEF Awaited
    <2>2. CASE /\ txs' = txs \cup {[proof |-> sender.proof, status |-> "sent"]}
               /\ sender' = [sender EXCEPT !.pc = "wait"] /\ Accepts(sender.proof)
      <3>1. SettlementGivenUp' <=> SettlementGivenUp
        BY <2>0 DEF SettlementGivenUp
      <3>2. \A p : Accepts(p)' <=> Accepts(p)
        BY <2>0 DEF Accepts, VerifiedL1
      <3>3. ASSUME ~SettlementGivenUp, NEW t \in txs PROVE t.status = "done"
        BY <2>0, <3>3 DEF Settlements, Awaited
      <3>4. sender'.pc = "wait" /\ sender'.proof = sender.proof
        BY <1>0, <2>2 DEF Typed
      <3>. QED  BY <2>2, <3>1, <3>2, <3>3, <3>4 DEF Settlements, Awaited
    <2>. QED  BY <1>2, <2>1, <2>2, Zenon DEF Settle
  <1>3. CASE Settled
    BY <1>0, <1>3, DoneSettlements DEF Settled, l1Vars
  <1>4. CASE BootPending
    BY <1>0, <1>4, DoneSettlements DEF BootPending, l1Vars
  <1>5. CASE Boot
    <2>1. /\ UNCHANGED <<backend, txs, roots, faults>> /\ sender.pc = "boot"
          /\ backend = "direct" => \A tx \in txs : tx.status = "done"
      BY <1>5 DEF Boot, l1Vars
    <2>. QED  BY <2>1, SettlementsStay DEF Awaited
  <1>. QED  BY <1>1, <1>2, <1>3, <1>4, <1>5 DEF SenderStep

LEMMA OtherSettlements ==
    ASSUME TableInv, Settlements,
           \/ BatchNotFound \/ AggLayerTimeout \/ Crash \/ CleanupLost \/ CleanupSlow
           \/ SyncSequence \/ SyncVerified
    PROVE  Settlements'
  <1>1. UNCHANGED <<backend, txs, roots>> /\ faults \subseteq faults'
    BY Zenon DEF BatchNotFound, AggLayerTimeout, Crash, CleanupLost, CleanupSlow, SyncSequence,
           SyncVerified, Fault, l1Vars
  <1>2. CASE UNCHANGED sender \/ sender.pc = "settle"
    BY <1>1, <1>2, SettlementsStay DEF Awaited
  <1>3. CASE AggLayerTimeout
    <2>1. SettlementGivenUp'
      BY <1>3 DEF AggLayerTimeout, Fault, SettlementGivenUp
    <2>. QED  BY <2>1 DEF Settlements
  <1>4. CASE Crash
    <2>1. CASE backend = "agglayer"
      <3>1. SettlementGivenUp'
        BY <1>4, <2>1 DEF Crash, Fault, SettlementGivenUp
      <3>. QED  BY <3>1 DEF Settlements
    <2>2. CASE backend # "agglayer"
      <3>1. ASSUME NEW tx \in txs, Awaited(tx) PROVE Awaited(tx)' \/ backend # "direct"
        BY <1>1, <1>4 DEF Crash, Awaited, Idle
      <3>2. CASE backend = "direct"
        BY <1>1, <3>1, <3>2, SettlementsStay
      <3>. QED  BY <2>2, <3>2 DEF TableInv, Typed
    <2>. QED  BY <2>1, <2>2
  <1>. QED  BY <1>2, <1>3, <1>4 DEF BatchNotFound, CleanupLost, CleanupSlow, SyncSequence, SyncVerified

LEMMA MineSettlements ==
    ASSUME TableInv, Settlements, Mine
    PROVE  Settlements'
  <1>1. PICK tx \in txs :
          /\ tx.status = "sent"
          /\ IF Accepts(tx.proof)
             THEN txs' = (txs \ {tx}) \cup {[tx EXCEPT !.status = "mined"]}
             ELSE txs' = txs \ {tx}
    BY DEF Mine
  <1>2. (SettlementGivenUp' <=> SettlementGivenUp) /\ \A t : Awaited(t)' <=> Awaited(t)
    BY DEF Mine, SettlementGivenUp, Awaited
  <1>3. ASSUME ~SettlementGivenUp PROVE Settlements'
    <2>1. txs' = (txs \ {tx}) \cup {[tx EXCEPT !.status = "mined"]}
      BY <1>1, <1>3 DEF Settlements
    <2>. DEFINE new == [tx EXCEPT !.status = "mined"]
    <2>2. new.status = "mined" /\ new.proof = tx.proof
      BY DEF TableInv, Typed
    <2>3. \A t \in txs \ {tx} : t.status = "done"
      BY <1>1, <1>3 DEF Settlements
    <2>4. Awaited(tx)
      BY <1>1, <1>3 DEF Settlements
    <2>5. Awaited(new)
      BY <2>2, <2>4 DEF Awaited
    <2>. HIDE DEF new
    <2>6. txs' = (txs \ {tx}) \cup {new}
      BY <2>1 DEF new
    <2>. QED  BY <1>2, <2>2, <2>3, <2>5, <2>6 DEF Settlements
  <1>. QED  BY <1>2, <1>3 DEF Settlements

LEMMA SettlementsNext ==
    ASSUME TableInv, Settlements, [Next]_vars
    PROVE  Settlements'
  <1>1. CASE UNCHANGED vars
    BY <1>1, SettlementsStay DEF vars, l1Vars, Awaited
  <1>. QED  BY <1>1, RoutineSettlements, SenderSettlements, OtherSettlements, MineSettlements, SMTT(30) DEF Next

(***************************************************************************)
(* A verification on its way to L1 is the only one and L1 accepts it, for  *)
(* both backends, with the crashes Start recovers from: unless a           *)
(* settlement through the AggLayer was given up and may be mined still.    *)
(***************************************************************************)
THEOREM VerificationNotWasted == Spec => []NoWastedVerification
  <1>1. Init => Settlements
    BY DEF Init, Settlements
  <1>2. Settlements => NoWastedVerification
    BY DEF Settlements, NoWastedVerification
  <1>. QED  BY <1>1, <1>2, SettlementsNext, TableInvariant, PTL DEF Spec
=============================================================================
