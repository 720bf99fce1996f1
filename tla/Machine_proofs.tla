--------------------------- MODULE Machine_proofs ----------------------------
(***************************************************************************)
(* What execute does with try statements, for the programs of              *)
(* Blocks_proofs: the history of try statements that a frame keeps is the  *)
(* one of the handlers around its ip (MachineInv).  So exceptions are      *)
(* dealt with, finally blocks run, and END_TRY restores the stack.  With   *)
(* one catch block per try statement, an exception that the block names is *)
(* caught by it (CatchInv, NamedInv).                                      *)
(***************************************************************************)
EXTENDS Blocks_proofs

-----------------------------------------------------------------------------
(* The code of a finished program. *)

HandlerOK(code, r) ==
  /\ r.start \in DOMAIN code /\ r.start < r.first /\ r.first < r.end /\ r.end \in DOMAIN code
  /\ code[r.start].op = "TRY" /\ code[r.end].op = "END_TRY"
  /\ r.finally # NoAddress => r.first < r.finally /\ r.finally <= r.end
  /\ JumpBefore(code, r.first) /\ JumpBefore(code, r.finally)

\* What code and the handlers hs promise whoever runs them.
Sound(code, hs) ==
  /\ code \in Seq(Instruction) /\ hs \in Seq(Handler)
  /\ \A h \in DOMAIN hs : HandlerOK(code, hs[h])
  /\ \A g, h \in DOMAIN hs :
       g < h => hs[g].end < hs[h].end /\ (hs[h].start < hs[g].start \/ hs[g].end < hs[h].start)
  /\ \A g, h \in DOMAIN hs : g # h => Part(hs[h], hs[g].start) = Part(hs[h], hs[g].end)
  /\ EndsInReturn(code)

\* Handler h of hs is around address x; error: has left the one (gone) whose
\* END_TRY found an exception pending.
AroundAt(hs, x, gone) ==
  {h \in DOMAIN hs : Part(hs[h], x) # 0 /\ (gone => x # hs[h].end)}

\* The parts of a try statement, by its addresses.
LEMMA Parts ==
  ASSUME NEW code, NEW hs, Sound(code, hs), NEW h \in DOMAIN hs, NEW x \in Nat
  PROVE  /\ hs[h].start \in Nat \ {0} /\ hs[h].first \in Nat /\ hs[h].end \in Nat
         /\ hs[h].finally \in Nat
         /\ hs[h].start < hs[h].first /\ hs[h].first < hs[h].end
         /\ hs[h].finally # NoAddress => hs[h].first < hs[h].finally /\ hs[h].finally <= hs[h].end
         /\ Part(hs[h], x) \in 0 .. 3
         /\ Part(hs[h], x) # 0 <=> hs[h].start < x /\ x <= hs[h].end
         /\ Part(hs[h], x) = 1 <=> hs[h].start < x /\ x < hs[h].first
         /\ Part(hs[h], x) = 2 <=>
              hs[h].first <= x /\ x <= hs[h].end /\ (hs[h].finally = NoAddress \/ x < hs[h].finally)
         /\ Part(hs[h], x) = 3 <=>
              hs[h].finally # NoAddress /\ hs[h].finally <= x /\ x <= hs[h].end
<1>1. PICK r : r = hs[h]
  OBVIOUS
<1>2. r \in Handler /\ HandlerOK(code, r) /\ code \in Seq(Instruction)
  BY <1>1 DEF Sound
<1>3. r.start \in Nat /\ r.first \in Nat /\ r.end \in Nat /\ r.finally \in Nat
  BY <1>2 DEF Handler
<1>4. /\ r.start \in 1 .. Len(code) /\ r.start < r.first /\ r.first < r.end
      /\ r.finally # NoAddress => r.first < r.finally /\ r.finally <= r.end
  BY <1>2 DEF HandlerOK
<1>5. /\ Part(r, x) \in 0 .. 3
      /\ Part(r, x) # 0 <=> r.start < x /\ x <= r.end
      /\ Part(r, x) = 1 <=> r.start < x /\ x < r.first
      /\ Part(r, x) = 2 <=>
           r.first <= x /\ x <= r.end /\ (r.finally = NoAddress \/ x < r.finally)
      /\ Part(r, x) = 3 <=>
           r.finally # NoAddress /\ r.finally <= x /\ x <= r.end
  BY <1>3, <1>4 DEF Part, NoAddress
<1> QED
  BY <1>1, <1>3, <1>4, <1>5

\* The next instruction is in the same parts, unless this one begins or ends a
\* try statement or jumps.
LEMMA Onward ==
  ASSUME NEW code, NEW hs, Sound(code, hs), NEW a \in DOMAIN code, code[a].op # "RETURN"
  PROVE  /\ a + 1 \in DOMAIN code /\ a \in Nat
         /\ code[a].op # "JMP" => \A h \in DOMAIN hs :
              /\ hs[h].first # a + 1 /\ hs[h].finally # a + 1
              /\ hs[h].start # a /\ hs[h].end # a => Part(hs[h], a + 1) = Part(hs[h], a)
         /\ code[a].op # "TRY" => \A h \in DOMAIN hs : hs[h].start # a
         /\ code[a].op # "END_TRY" => \A h \in DOMAIN hs : hs[h].end # a
<1>1. /\ code \in Seq(Instruction) /\ DOMAIN code = 1 .. Len(code) /\ Len(code) \in Nat
      /\ code[Len(code)].op = "RETURN" /\ a \in Nat
      /\ \A h \in DOMAIN hs : HandlerOK(code, hs[h])
  BY DEF Sound, EndsInReturn
<1>2. a # Len(code)
  BY <1>1
<1>3. a + 1 \in DOMAIN code /\ a + 1 \in Nat /\ a + 1 - 1 = a
  BY <1>1, <1>2
<1>4. ASSUME code[a].op # "JMP", NEW h \in DOMAIN hs
      PROVE  /\ hs[h].first # a + 1 /\ hs[h].finally # a + 1
             /\ hs[h].start # a /\ hs[h].end # a => Part(hs[h], a + 1) = Part(hs[h], a)
  <2>1. PICK x, r : x = a + 1 /\ r = hs[h]
    OBVIOUS
  <2>2. x \in Nat /\ x # NoAddress /\ code[x - 1].op # "JMP"
    BY <1>1, <1>3, <1>4, <2>1 DEF NoAddress
  <2>3. r.first # x /\ r.finally # x
    BY <1>1, <2>1, <2>2 DEF HandlerOK, JumpBefore
  <2>4. ASSUME r.start # a, r.end # a PROVE Part(r, x) = Part(r, a)
    <3>1. /\ r.start \in Nat /\ r.first \in Nat /\ r.end \in Nat /\ r.finally \in Nat
          /\ r.start < r.first /\ r.first < r.end
          /\ r.finally # NoAddress => r.first < r.finally /\ r.finally <= r.end
      BY <1>1, <2>1, Parts
    <3> QED
      BY <1>1, <2>1, <2>3, <2>4, <3>1 DEF Part, NoAddress
  <2> QED
    BY <2>1, <2>3, <2>4
<1>5. code[a].op # "TRY" => \A h \in DOMAIN hs : hs[h].start # a
  BY <1>1 DEF HandlerOK
<1>6. code[a].op # "END_TRY" => \A h \in DOMAIN hs : hs[h].end # a
  BY <1>1 DEF HandlerOK
<1> QED
  BY <1>1, <1>3, <1>4, <1>5, <1>6

\* Of two handlers around an address the first is in one part of the other.
LEMMA Nested ==
  ASSUME NEW code, NEW hs, Sound(code, hs), NEW g \in DOMAIN hs, NEW h \in DOMAIN hs, g < h,
         NEW x \in Nat, Part(hs[g], x) # 0, Part(hs[h], x) # 0,
         NEW y \in Nat, hs[g].start <= y, y <= hs[g].end
  PROVE  /\ Part(hs[h], y) = Part(hs[h], x) /\ hs[h].start < hs[g].start /\ hs[g].end < hs[h].end
         /\ Part(hs[h], hs[g].start) = Part(hs[h], x)
<1>1. PICK q, r : q = hs[g] /\ r = hs[h]
  OBVIOUS
<1>2. /\ q.end < r.end /\ (r.start < q.start \/ q.end < r.start)
      /\ Part(r, q.start) = Part(r, q.end)
  <2>1. \A i, j \in DOMAIN hs :
          i < j => hs[i].end < hs[j].end /\ (hs[j].start < hs[i].start \/ hs[i].end < hs[j].start)
    BY DEF Sound
  <2>2. \A i, j \in DOMAIN hs : i # j => Part(hs[j], hs[i].start) = Part(hs[j], hs[i].end)
    BY DEF Sound
  <2>3. g # h
    BY DEF Sound
  <2> QED
    BY <1>1, <2>1, <2>2, <2>3
<1>3. /\ q.start \in Nat /\ q.end \in Nat /\ q.start < x /\ x <= q.end
  BY <1>1, Parts
<1>4. /\ r.start \in Nat /\ r.first \in Nat /\ r.end \in Nat /\ r.finally \in Nat
      /\ r.start < r.first /\ r.first < r.end /\ r.start < x /\ x <= r.end
      /\ r.finally # NoAddress => r.first < r.finally /\ r.finally <= r.end
  BY <1>1, Parts
<1>5. r.start < q.start
  BY <1>2, <1>3, <1>4
<1>6. \A z \in Nat : q.start <= z /\ z <= q.end => Part(r, z) = Part(r, q.start)
  BY <1>2, <1>3, <1>4, <1>5 DEF Part, NoAddress
<1>7. Part(r, y) = Part(r, q.start) /\ Part(r, x) = Part(r, q.start)
  BY <1>1, <1>3, <1>6
<1> QED
  BY <1>1, <1>2, <1>5, <1>7

\* A jump stays in the try statements it is in; of the innermost one it may end
\* a block.
LEMMA JumpTo ==
  ASSUME NEW code, NEW hs, Sound(code, hs), NEW a \in Nat, NEW t \in Nat,
         \A h \in DOMAIN hs : StaysIn(hs[h], a, t)
  PROVE  \A h \in DOMAIN hs :
           /\ Part(hs[h], t) # 0 <=> Part(hs[h], a) # 0
           /\ Part(hs[h], t) # Part(hs[h], a) =>
                /\ Part(hs[h], a) \in {1, 2} /\ t = Exit(hs[h])
                /\ Part(hs[h], t) = IF hs[h].finally = NoAddress THEN 2 ELSE 3
                /\ \A g \in DOMAIN hs : Part(hs[g], a) # 0 => h <= g
<1>1. ASSUME NEW h \in DOMAIN hs, Part(hs[h], t) # Part(hs[h], a)
      PROVE  /\ Part(hs[h], a) \in {1, 2} /\ t = Exit(hs[h])
             /\ Part(hs[h], t) = IF hs[h].finally = NoAddress THEN 2 ELSE 3
  <2>1. Part(hs[h], a) \in {1, 2} /\ t = Exit(hs[h])
    BY <1>1 DEF StaysIn
  <2>2. Part(hs[h], t) = IF hs[h].finally = NoAddress THEN 2 ELSE 3
    BY <2>1, Parts DEF Exit, NoAddress
  <2> QED
    BY <2>1, <2>2
<1>2. \A h \in DOMAIN hs : Part(hs[h], t) # 0 <=> Part(hs[h], a) # 0
  BY <1>1
<1>3. ASSUME NEW h \in DOMAIN hs, Part(hs[h], t) # Part(hs[h], a),
             NEW g \in DOMAIN hs, Part(hs[g], a) # 0, ~(h <= g)
      PROVE  FALSE
  <2>1. g < h
    BY <1>3 DEF Sound
  <2>2. Part(hs[h], a) # 0 /\ Part(hs[g], t) # 0
    BY <1>1, <1>2, <1>3
  <2>3. hs[g].start <= t /\ t <= hs[g].end
    BY <2>2, Parts
  <2> QED
    BY <1>3, <2>1, <2>2, <2>3, Nested
<1> QED
  BY <1>1, <1>2, <1>3

LandedAt(hs, x, h, t) ==
  /\ AroundAt(hs, t, FALSE) = AroundAt(hs, x, TRUE)
  /\ \A g \in AroundAt(hs, x, TRUE) \ {h} : Part(hs[g], t) = Part(hs[g], x)
LandsAt(hs, h, t) ==
  t \in Nat /\ t # NoAddress /\ t \in {hs[h].first, hs[h].finally, hs[h].end}

\* error: goes on in the innermost handler around x, at the beginning of one of
\* its blocks or at its END_TRY.
LEMMA Lands ==
  ASSUME NEW code, NEW hs, Sound(code, hs), NEW x \in Nat, NEW h \in AroundAt(hs, x, TRUE),
         \A g \in AroundAt(hs, x, TRUE) : h <= g, NEW t, LandsAt(hs, h, t)
  PROVE  LandedAt(hs, x, h, t)
<1> USE DEF LandsAt, LandedAt
<1>1. PICK r : r = hs[h]
  OBVIOUS
<1>2. /\ r.start \in Nat /\ r.first \in Nat /\ r.end \in Nat /\ r.finally \in Nat
      /\ r.start < r.first /\ r.first < r.end /\ r.start < x /\ x < r.end
      /\ r.finally # NoAddress => r.first < r.finally /\ r.finally <= r.end
      /\ h \in DOMAIN hs /\ Part(r, x) # 0 /\ h \in Nat
  <2>1. h \in DOMAIN hs /\ Part(r, x) # 0 /\ x # r.end
    BY <1>1 DEF AroundAt
  <2>2. h \in Nat
    BY <2>1 DEF Sound
  <2> QED
    BY <1>1, <2>1, <2>2, Parts
<1>3. r.start < t /\ t <= r.end
  BY <1>1, <1>2
<1>4. Part(r, t) # 0
  BY <1>1, <1>2, <1>3, Parts
<1>5. ASSUME NEW g \in DOMAIN hs, g # h, Part(hs[g], x) # 0, x # hs[g].end
      PROVE  Part(hs[g], t) = Part(hs[g], x)
  <2>1. h <= g /\ g \in Nat
    BY <1>5 DEF AroundAt, Sound
  <2>2. h < g
    BY <1>2, <1>5, <2>1
  <2>3. hs[h].start <= t /\ t <= hs[h].end /\ Part(hs[h], x) # 0
    BY <1>1, <1>2, <1>3
  <2> QED
    BY <1>2, <1>5, <2>2, <2>3, Nested
<1>6. ASSUME NEW g \in DOMAIN hs, g # h, Part(hs[g], t) # 0
      PROVE  Part(hs[g], x) # 0 /\ x # hs[g].end
  <2>1. PICK q : q = hs[g]
    OBVIOUS
  <2>2. /\ q.start \in Nat /\ q.end \in Nat /\ q.start < q.end /\ q.start < t /\ t <= q.end
        /\ g \in Nat
    <3>1. g \in Nat
      BY DEF Sound
    <3> QED
      BY <1>6, <2>1, <3>1, Parts
  <2>3. \A i, j \in DOMAIN hs :
          i < j => hs[i].end < hs[j].end /\ (hs[j].start < hs[i].start \/ hs[i].end < hs[j].start)
    BY DEF Sound
  <2>4. CASE g < h
    <3>1. q.end < r.end /\ (r.start < q.start \/ q.end < r.start)
      BY <1>1, <1>2, <2>1, <2>3, <2>4
    <3>2. r.start < q.start /\ q.start < t /\ t <= q.end /\ q.end < r.end
      BY <1>2, <1>3, <2>2, <3>1
    <3>3. Part(r, q.start) = Part(r, q.end)
      BY <1>1, <1>2, <1>6, <2>1 DEF Sound
    <3>4. t = r.first \/ t = r.finally
      BY <1>1, <2>2, <3>2
    <3> QED
      BY <1>2, <2>2, <3>2, <3>3, <3>4 DEF Part, NoAddress
  <2>5. CASE h < g
    <3>1. r.end < q.end /\ (q.start < r.start \/ r.end < q.start)
      BY <1>1, <1>2, <2>1, <2>3, <2>5
    <3>2. q.start < x /\ x < q.end
      BY <1>2, <1>3, <2>2, <3>1
    <3> QED
      BY <2>1, <2>2, <3>2, Parts
  <2> QED
    BY <1>2, <1>6, <2>2, <2>4, <2>5
<1>7. \A g : g \in AroundAt(hs, t, FALSE) <=> g \in DOMAIN hs /\ Part(hs[g], t) # 0
  BY DEF AroundAt
<1>8. \A g : g \in AroundAt(hs, x, TRUE) <=> g \in DOMAIN hs /\ Part(hs[g], x) # 0 /\ x # hs[g].end
  BY DEF AroundAt
<1>9. \A g : g \in AroundAt(hs, t, FALSE) <=> g \in AroundAt(hs, x, TRUE)
  BY <1>1, <1>4, <1>5, <1>6, <1>7, <1>8
<1>10. AroundAt(hs, t, FALSE) = AroundAt(hs, x, TRUE)
  BY <1>9
<1> QED
  BY <1>5, <1>8, <1>10

StartsAt(hs, h, a) == a = hs[h].start
EndsAt(hs, h, a) == a = hs[h].end

BegunBy(hs, h, a, b) ==
  /\ \A g \in DOMAIN hs : hs[g].start = a => g = h
  /\ AroundAt(hs, b, FALSE) = AroundAt(hs, a, FALSE) \cup {h}
  /\ h \notin AroundAt(hs, a, FALSE) /\ Part(hs[h], b) = 1
  /\ \A g \in AroundAt(hs, a, FALSE) : h < g /\ Part(hs[g], b) = Part(hs[g], a)
EndedBy(hs, h, a, b) ==
  /\ \A g \in DOMAIN hs : hs[g].end = a => g = h
  /\ h \in AroundAt(hs, a, FALSE)
  /\ AroundAt(hs, a, TRUE) = AroundAt(hs, a, FALSE) \ {h}
  /\ AroundAt(hs, b, FALSE) = AroundAt(hs, a, FALSE) \ {h}
  /\ \A g \in AroundAt(hs, a, FALSE) : h <= g
  /\ \A g \in AroundAt(hs, a, FALSE) : g # h => Part(hs[g], b) = Part(hs[g], a)

\* TRY begins the innermost try statement.
LEMMA Begins ==
  ASSUME NEW code, NEW hs, Sound(code, hs), NEW h \in DOMAIN hs, NEW a, StartsAt(hs, h, a)
  PROVE  BegunBy(hs, h, a, a + 1)
<1> USE DEF StartsAt, BegunBy
<1>1. HandlerOK(code, hs[h]) /\ code \in Seq(Instruction) /\ h \in Nat
  BY DEF Sound
<1>2. a \in DOMAIN code /\ code[a].op = "TRY" /\ a \in Nat
  BY <1>1 DEF HandlerOK
<1>3. /\ \A g \in DOMAIN hs :
           /\ hs[g].first # a + 1 /\ hs[g].finally # a + 1
           /\ hs[g].start # a /\ hs[g].end # a => Part(hs[g], a + 1) = Part(hs[g], a)
      /\ \A g \in DOMAIN hs : hs[g].end # a
  BY <1>2, Onward
<1>4. /\ \A i, j \in DOMAIN hs :
           i < j => hs[i].end < hs[j].end /\ (hs[j].start < hs[i].start \/ hs[i].end < hs[j].start)
      /\ \A i \in DOMAIN hs : i \in Nat
  BY DEF Sound
<1>5. \A g \in DOMAIN hs : hs[g].start \in Nat /\ hs[g].end \in Nat /\ hs[g].start < hs[g].end
  BY <1>1, Parts
<1>6. ASSUME NEW g \in DOMAIN hs, hs[g].start = a, g # h PROVE FALSE
  <2>1. g < h \/ h < g
    BY <1>4, <1>6
  <2> QED
    BY <1>4, <1>5, <1>6, <2>1
<1>7. Part(hs[h], a + 1) = 1 /\ Part(hs[h], a) = 0
  <2>1. /\ hs[h].start \in Nat /\ hs[h].first \in Nat /\ hs[h].start < hs[h].first
        /\ hs[h].first # a + 1
    BY <1>2, <1>3, Parts
  <2>2. a + 1 \in Nat /\ hs[h].start < a + 1 /\ a + 1 < hs[h].first
    BY <1>2, <2>1
  <2> QED
    BY <1>2, <2>2, Parts
<1>8. ASSUME NEW g \in DOMAIN hs, Part(hs[g], a) # 0 PROVE h < g
  <2>1. g # h
    BY <1>7, <1>8
  <2>2. hs[g].start < a /\ a <= hs[g].end
    BY <1>2, <1>8, Parts
  <2>3. ~(g < h)
    BY <1>4, <1>5, <2>2
  <2> QED
    BY <1>4, <2>1, <2>3
<1>9. \A g \in DOMAIN hs : g # h => Part(hs[g], a + 1) = Part(hs[g], a)
  BY <1>3, <1>6
<1>10. /\ \A g : g \in AroundAt(hs, a + 1, FALSE) <=> g \in DOMAIN hs /\ Part(hs[g], a + 1) # 0
       /\ \A g : g \in AroundAt(hs, a, FALSE) <=> g \in DOMAIN hs /\ Part(hs[g], a) # 0
  BY DEF AroundAt
<1>11. ASSUME NEW g
       PROVE  g \in AroundAt(hs, a + 1, FALSE) <=> g \in AroundAt(hs, a, FALSE) \/ g = h
  <2>1. CASE g = h
    <3>1. Part(hs[h], a + 1) # 0
      BY <1>7
    <3> QED
      BY <1>10, <2>1, <3>1, Zenon
  <2>2. CASE g # h
    BY <1>9, <1>10, <2>2, Zenon
  <2> QED
    BY <2>1, <2>2
<1> QED
  BY <1>6, <1>7, <1>8, <1>9, <1>10, <1>11

\* END_TRY ends the innermost try statement.
LEMMA Ends ==
  ASSUME NEW code, NEW hs, Sound(code, hs), NEW h \in DOMAIN hs, NEW a, EndsAt(hs, h, a)
  PROVE  EndedBy(hs, h, a, a + 1)
<1> USE DEF EndsAt, EndedBy
<1>1. HandlerOK(code, hs[h]) /\ code \in Seq(Instruction) /\ h \in Nat
  BY DEF Sound
<1>2. a \in DOMAIN code /\ code[a].op = "END_TRY" /\ a \in Nat
  BY <1>1 DEF HandlerOK
<1>3. /\ \A g \in DOMAIN hs :
           hs[g].start # a /\ hs[g].end # a => Part(hs[g], a + 1) = Part(hs[g], a)
      /\ \A g \in DOMAIN hs : hs[g].start # a
  BY <1>2, Onward
<1>4. /\ \A i, j \in DOMAIN hs : i < j => hs[i].end < hs[j].end
      /\ \A i \in DOMAIN hs : i \in Nat
  BY DEF Sound
<1>5. \A g \in DOMAIN hs : hs[g].start \in Nat /\ hs[g].end \in Nat /\ hs[g].start < hs[g].end
  BY <1>1, Parts
<1>6. ASSUME NEW g \in DOMAIN hs, hs[g].end = a, g # h PROVE FALSE
  <2>1. g < h \/ h < g
    BY <1>4, <1>6
  <2> QED
    BY <1>4, <1>5, <1>6, <2>1
<1>7. Part(hs[h], a + 1) = 0 /\ Part(hs[h], a) # 0
  <2>1. hs[h].start < a /\ a <= hs[h].end /\ ~(a + 1 <= hs[h].end) /\ a + 1 \in Nat
    BY <1>2, <1>5
  <2> QED
    BY <1>2, <2>1, Parts
<1>8. ASSUME NEW g \in DOMAIN hs, Part(hs[g], a) # 0 PROVE h <= g
  <2>1. a <= hs[g].end
    BY <1>2, <1>8, Parts
  <2>2. ~(g < h)
    BY <1>4, <1>5, <2>1
  <2> QED
    BY <1>4, <2>2
<1>9. \A g \in DOMAIN hs : g # h => Part(hs[g], a + 1) = Part(hs[g], a)
  BY <1>3, <1>6
<1>10. /\ \A g : g \in AroundAt(hs, a + 1, FALSE) <=> g \in DOMAIN hs /\ Part(hs[g], a + 1) # 0
       /\ \A g : g \in AroundAt(hs, a, FALSE) <=> g \in DOMAIN hs /\ Part(hs[g], a) # 0
       /\ \A g : g \in AroundAt(hs, a, TRUE) <=>
                   g \in DOMAIN hs /\ Part(hs[g], a) # 0 /\ a # hs[g].end
  BY DEF AroundAt
<1>11. ASSUME NEW g
       PROVE  g \in AroundAt(hs, a + 1, FALSE) <=> g \in AroundAt(hs, a, FALSE) /\ g # h
  <2>1. CASE g = h
    BY <1>7, <1>10, <2>1, Zenon
  <2>2. CASE g # h
    <3>1. g \in DOMAIN hs => Part(hs[g], a + 1) = Part(hs[g], a)
      BY <1>9, <2>2
    <3>2. g \in AroundAt(hs, a + 1, FALSE) <=> g \in DOMAIN hs /\ Part(hs[g], a + 1) # 0
      BY <1>10
    <3>3. g \in AroundAt(hs, a, FALSE) <=> g \in DOMAIN hs /\ Part(hs[g], a) # 0
      BY <1>10
    <3> QED
      BY <2>2, <3>1, <3>2, <3>3
  <2> QED
    BY <2>1, <2>2
<1>12. \A g : g \in AroundAt(hs, a, TRUE) <=> g \in AroundAt(hs, a, FALSE) /\ g # h
  BY <1>6, <1>10
<1> QED
  BY <1>6, <1>7, <1>8, <1>9, <1>10, <1>11, <1>12

\* Elsewhere both readings of around agree.
LEMMA NotGone ==
  ASSUME NEW code, NEW hs, Sound(code, hs), NEW a \in DOMAIN code, code[a].op # "END_TRY"
  PROVE  AroundAt(hs, a, TRUE) = AroundAt(hs, a, FALSE)
<1>1. \A h \in DOMAIN hs : hs[h].end # a
  BY DEF Sound, HandlerOK
<1> QED
  BY <1>1 DEF AroundAt

-----------------------------------------------------------------------------
(* The history of the try statements that a frame is in. *)

\* An entry of the history of try statement h; bound is not looked at here.
Entry == [h : Nat, sp : Int, raised : Nat, caught : BOOLEAN, lost : BOOLEAN,
          finally : BOOLEAN, pending : Nat]

\* What part p of its try statement says of an entry.
EntryOK(e, p) ==
  /\ p = 1 => ~e.caught
  /\ e.finally <=> p = 3
  /\ ~e.finally => e.pending = NoException

\* The history is the one of a frame at address x, the outer statements first.
HistoryAt(hs, x, gone, tries) ==
  /\ tries \in Seq(Entry)
  /\ \A k \in DOMAIN tries :
       tries[k].h \in AroundAt(hs, x, gone) /\ EntryOK(tries[k], Part(hs[tries[k].h], x))
  /\ \A h \in AroundAt(hs, x, gone) : \E k \in DOMAIN tries : tries[k].h = h
  /\ \A k, l \in DOMAIN tries : k < l => tries[l].h < tries[k].h

\* The statements around stay, and so do their entries but for what EntryOK says.
LEMMA HistoryMoves ==
  ASSUME NEW hs, NEW x, NEW y, NEW gone, NEW gone2, NEW tries, NEW tries2,
         HistoryAt(hs, x, gone, tries), tries2 \in Seq(Entry),
         AroundAt(hs, y, gone2) = AroundAt(hs, x, gone), DOMAIN tries2 = DOMAIN tries,
         \A k \in DOMAIN tries :
           tries2[k].h = tries[k].h /\ EntryOK(tries2[k], Part(hs[tries[k].h], y))
  PROVE  HistoryAt(hs, y, gone2, tries2)
BY DEF HistoryAt

\* When the parts stay as well, the history does.
LEMMA HistoryStays ==
  ASSUME NEW hs, NEW x, NEW y, NEW gone, NEW gone2, NEW tries,
         HistoryAt(hs, x, gone, tries), AroundAt(hs, y, gone2) = AroundAt(hs, x, gone),
         \A h \in AroundAt(hs, x, gone) : Part(hs[h], y) = Part(hs[h], x)
  PROVE  HistoryAt(hs, y, gone2, tries)
BY DEF HistoryAt

\* The last entry is the one of the innermost statement.
LEMMA LastInnermost ==
  ASSUME NEW hs \in Seq(Handler), NEW x, NEW gone, NEW tries, HistoryAt(hs, x, gone, tries),
         tries # <<>>
  PROVE  /\ Len(tries) \in DOMAIN tries /\ Len(tries) \in Nat /\ DOMAIN tries = 1 .. Len(tries)
         /\ Last(tries) = tries[Len(tries)]
         /\ tries[Len(tries)].h \in AroundAt(hs, x, gone)
         /\ \A h \in AroundAt(hs, x, gone) : tries[Len(tries)].h <= h
         /\ \A k \in DOMAIN tries : k # Len(tries) => tries[Len(tries)].h < tries[k].h
<1>1. PICK n : n = Len(tries)
  OBVIOUS
<1>2. tries \in Seq(Entry) /\ n \in Nat /\ DOMAIN tries = 1 .. n /\ n \in 1 .. n
  BY <1>1, EmptySeq DEF HistoryAt
<1>3. tries[n].h \in AroundAt(hs, x, gone)
  BY <1>2 DEF HistoryAt
<1>4. \A k \in DOMAIN tries : k # n => tries[n].h < tries[k].h
  <2>1. ASSUME NEW k \in 1 .. n, k # n PROVE k < n
    BY <1>2, <2>1
  <2> QED
    BY <1>2, <2>1 DEF HistoryAt
<1>5. ASSUME NEW h \in AroundAt(hs, x, gone) PROVE tries[n].h <= h
  <2>1. PICK k \in DOMAIN tries : tries[k].h = h
    BY DEF HistoryAt
  <2>2. tries[n].h \in Nat /\ h \in Nat
    BY <1>3 DEF AroundAt
  <2> QED
    BY <1>4, <2>1, <2>2
<1>6. Last(tries) = tries[n]
  BY <1>1 DEF Last
<1> QED
  BY <1>1, <1>2, <1>3, <1>4, <1>5, <1>6

\* The innermost statement has the last entry.
LEMMA InnermostLast ==
  ASSUME NEW hs \in Seq(Handler), NEW x, NEW gone, NEW tries, HistoryAt(hs, x, gone, tries),
         NEW h \in AroundAt(hs, x, gone), \A g \in AroundAt(hs, x, gone) : h <= g
  PROVE  tries # <<>> /\ tries[Len(tries)].h = h
<1>1. tries # <<>>
  BY DEF HistoryAt
<1>2. tries[Len(tries)].h \in AroundAt(hs, x, gone) /\ tries[Len(tries)].h <= h
  BY <1>1, LastInnermost
<1>3. h <= tries[Len(tries)].h /\ h \in Nat /\ tries[Len(tries)].h \in Nat
  BY <1>2 DEF AroundAt
<1> QED
  BY <1>1, <1>2, <1>3

\* The last entry is replaced.
LEMMA LastReplaced ==
  ASSUME NEW tries \in Seq(Entry), tries # <<>>, NEW e \in Entry,
         NEW tries2, tries2 = [tries EXCEPT ![Len(tries)] = e]
  PROVE  /\ tries2 \in Seq(Entry) /\ DOMAIN tries2 = DOMAIN tries /\ Len(tries2) = Len(tries)
         /\ tries2[Len(tries)] = e /\ tries[Len(tries)] \in Entry
         /\ \A k \in DOMAIN tries : k # Len(tries) => tries2[k] = tries[k]
<1>1. Len(tries) \in DOMAIN tries
  BY EmptySeq
<1> QED
  BY <1>1

\* An instruction in a row leaves the history as it is, and so does an exception.
LEMMA HistoryOnward ==
  ASSUME NEW code, NEW hs, Sound(code, hs), NEW a \in DOMAIN code, NEW tries,
         HistoryAt(hs, a, FALSE, tries),
         code[a].op \notin {"RETURN", "JMP", "TRY", "END_TRY"}
  PROVE  /\ HistoryAt(hs, a + 1, FALSE, tries) /\ HistoryAt(hs, a, TRUE, tries)
         /\ a + 1 \in DOMAIN code
         /\ \A h \in DOMAIN hs : hs[h].finally # a + 1
<1>1. PICK b : b = a + 1
  OBVIOUS
<1>2. \A h \in DOMAIN hs : Part(hs[h], b) = Part(hs[h], a) /\ hs[h].finally # b
  BY <1>1, Onward
<1>3. b \in DOMAIN code
  BY <1>1, Onward
<1>4. AroundAt(hs, b, FALSE) = AroundAt(hs, a, FALSE)
  BY <1>2 DEF AroundAt
<1>5. \A h \in AroundAt(hs, a, FALSE) : h \in DOMAIN hs
  BY DEF AroundAt
<1>6. HistoryAt(hs, b, FALSE, tries)
  BY <1>2, <1>4, <1>5, HistoryStays
<1>7. AroundAt(hs, a, TRUE) = AroundAt(hs, a, FALSE)
  BY NotGone
<1>8. HistoryAt(hs, a, TRUE, tries)
  BY <1>7, HistoryStays
<1> QED
  BY <1>1, <1>2, <1>3, <1>6, <1>8

\* Control reaches the finally block of the last entry.
Enters(hs, tries, x) ==
  tries # <<>> /\ hs[tries[Len(tries)].h].finally = x /\ ~tries[Len(tries)].finally
InFinallyWith(e, pending) == [e EXCEPT !.finally = TRUE, !.pending = pending]
SeenAt(hs, tries, x, pending) ==
  IF Enters(hs, tries, x)
  THEN [tries EXCEPT ![Len(tries)] = InFinallyWith(tries[Len(tries)], pending)]
  ELSE tries

\* That changes this entry only, and what it says of the finally block.
SeenIs(hs, tries, x, pending, tries2) ==
  /\ tries2 \in Seq(Entry) /\ DOMAIN tries2 = DOMAIN tries /\ Len(tries2) = Len(tries)
  /\ \A k \in DOMAIN tries :
       /\ tries2[k].h = tries[k].h /\ tries2[k].sp = tries[k].sp
       /\ tries2[k].raised = tries[k].raised /\ tries2[k].caught = tries[k].caught
       /\ tries2[k].lost = tries[k].lost
       /\ k # Len(tries) \/ ~Enters(hs, tries, x) => tries2[k] = tries[k]
       /\ k = Len(tries) /\ Enters(hs, tries, x) =>
            tries2[k].finally /\ tries2[k].pending = pending

\* What Goto makes of the history.
LEMMA SeenTypes ==
  ASSUME NEW hs, NEW tries \in Seq(Entry), NEW x, NEW pending \in Nat
  PROVE  SeenIs(hs, tries, x, pending, SeenAt(hs, tries, x, pending))
<1>1. CASE ~Enters(hs, tries, x)
  BY <1>1 DEF SeenAt, SeenIs
<1>2. CASE Enters(hs, tries, x)
  <2>1. PICK e, e2, n : e = tries[n] /\ e2 = InFinallyWith(e, pending) /\ n = Len(tries)
    OBVIOUS
  <2>2. tries # <<>> /\ e \in Entry /\ n \in DOMAIN tries
    <3>1. tries # <<>>
      BY <1>2 DEF Enters
    <3> QED
      BY <2>1, <3>1, EmptySeq
  <2>3. /\ e2 \in Entry /\ e2.h = e.h /\ e2.sp = e.sp /\ e2.raised = e.raised
        /\ e2.caught = e.caught /\ e2.lost = e.lost /\ e2.finally /\ e2.pending = pending
    BY <2>1, <2>2 DEF InFinallyWith, Entry
  <2>4. PICK tries2 : tries2 = [tries EXCEPT ![Len(tries)] = e2]
    OBVIOUS
  <2>5. /\ tries2 \in Seq(Entry) /\ DOMAIN tries2 = DOMAIN tries /\ Len(tries2) = n
        /\ tries2[n] = e2
        /\ \A k \in DOMAIN tries : k # n => tries2[k] = tries[k]
    BY <2>1, <2>2, <2>3, <2>4, LastReplaced
  <2>6. SeenAt(hs, tries, x, pending) = tries2
    BY <1>2, <2>1, <2>4 DEF SeenAt
  <2>7. SeenIs(hs, tries, x, pending, tries2)
    BY <1>2, <2>1, <2>3, <2>5 DEF SeenIs
  <2> QED
    BY <2>6, <2>7
<1> QED
  BY <1>1, <1>2

\* A jump that stays in the try statements around it.
LEMMA HistoryJumps ==
  ASSUME NEW code, NEW hs, Sound(code, hs), NEW a \in Nat, NEW t \in Nat, t # NoAddress,
         \A h \in DOMAIN hs : StaysIn(hs[h], a, t),
         NEW tries, HistoryAt(hs, a, FALSE, tries), NEW pending \in Nat
  PROVE  HistoryAt(hs, t, FALSE, SeenAt(hs, tries, t, pending))
<1>1. PICK n, tries2 : n = Len(tries) /\ tries2 = SeenAt(hs, tries, t, pending)
  OBVIOUS
<1>2. tries \in Seq(Entry) /\ hs \in Seq(Handler)
  BY DEF HistoryAt, Sound
<1>3. \A h \in DOMAIN hs :
        /\ Part(hs[h], t) # 0 <=> Part(hs[h], a) # 0
        /\ Part(hs[h], t) # Part(hs[h], a) =>
             /\ Part(hs[h], a) \in {1, 2} /\ t = Exit(hs[h])
             /\ Part(hs[h], t) = IF hs[h].finally = NoAddress THEN 2 ELSE 3
             /\ \A g \in DOMAIN hs : Part(hs[g], a) # 0 => h <= g
  BY JumpTo
<1>4. AroundAt(hs, t, FALSE) = AroundAt(hs, a, FALSE)
  BY <1>3 DEF AroundAt
<1>5. /\ tries2 \in Seq(Entry) /\ DOMAIN tries2 = DOMAIN tries
      /\ \A k \in DOMAIN tries :
           /\ tries2[k].h = tries[k].h /\ tries2[k].caught = tries[k].caught
           /\ k # n \/ ~Enters(hs, tries, t) => tries2[k] = tries[k]
           /\ k = n /\ Enters(hs, tries, t) =>
                tries2[k].finally /\ tries2[k].pending = pending
  <2>1. SeenIs(hs, tries, t, pending, tries2)
    BY <1>1, <1>2, SeenTypes
  <2> QED
    BY <1>1, <2>1 DEF SeenIs
<1>6. ASSUME NEW k \in DOMAIN tries
      PROVE  EntryOK(tries2[k], Part(hs[tries[k].h], t))
  <2>1. PICK h, e, e2, r, p : h = tries[k].h /\ e = tries[k] /\ e2 = tries2[k] /\ r = hs[h]
                              /\ p = Part(hs[h], a)
    OBVIOUS
  <2>2. h \in AroundAt(hs, a, FALSE) /\ EntryOK(e, p)
    BY <2>1 DEF HistoryAt
  <2>3. h \in DOMAIN hs
    BY <2>2 DEF AroundAt
  <2>4. /\ e2.caught = e.caught
        /\ k # n \/ ~Enters(hs, tries, t) => e2 = e
        /\ k = n /\ Enters(hs, tries, t) => e2.finally /\ e2.pending = pending
    BY <1>5, <2>1
  <2>5. CASE Part(r, t) = p
    <3>1. ~(k = n /\ Enters(hs, tries, t))
      <4> SUFFICES ASSUME k = n, Enters(hs, tries, t) PROVE FALSE
        OBVIOUS
      <4>1. r.finally = t /\ ~e.finally
        BY <1>1, <2>1 DEF Enters
      <4>2. Part(r, t) = 3
        BY <2>1, <2>3, <4>1, Parts
      <4> QED
        BY <2>2, <2>5, <4>1, <4>2 DEF EntryOK
    <3> QED
      BY <2>1, <2>2, <2>4, <2>5, <3>1
  <2>6. CASE Part(r, t) # p
    <3>1. /\ p \in {1, 2} /\ t = Exit(r)
          /\ Part(r, t) = IF r.finally = NoAddress THEN 2 ELSE 3
          /\ \A g \in AroundAt(hs, a, FALSE) : h <= g
      BY <1>3, <2>1, <2>3, <2>6 DEF AroundAt
    <3>2. ~e.finally /\ e.pending = NoException
      BY <2>2, <3>1 DEF EntryOK
    <3>3. k = n
      <4>1. tries[n].h = h /\ tries # <<>>
        BY <1>1, <1>2, <2>2, <3>1, InnermostLast
      <4>2. k # n => tries[n].h < tries[k].h
        BY <1>1, <1>2, <4>1, LastInnermost
      <4>3. h \in Nat
        BY <1>2, <2>3
      <4> QED
        BY <2>1, <4>1, <4>2, <4>3
    <3>4. CASE r.finally = NoAddress
      <4>1. ~Enters(hs, tries, t)
        BY <1>1, <2>1, <3>3, <3>4 DEF Enters
      <4> QED
        BY <2>1, <2>4, <3>1, <3>2, <3>4, <4>1 DEF EntryOK
    <3>5. CASE r.finally # NoAddress
      <4>1. t = r.finally /\ Part(r, t) = 3
        BY <3>1, <3>5 DEF Exit
      <4>2. Enters(hs, tries, t)
        BY <1>1, <2>1, <3>2, <3>3, <4>1 DEF Enters, HistoryAt
      <4> QED
        BY <2>1, <2>4, <3>3, <4>1, <4>2 DEF EntryOK
    <3> QED
      BY <3>4, <3>5
  <2> QED
    BY <2>5, <2>6
<1>7. HistoryAt(hs, t, FALSE, tries2)
  <2>1. /\ tries2 \in Seq(Entry) /\ DOMAIN tries2 = DOMAIN tries
        /\ \A k \in DOMAIN tries :
             tries2[k].h = tries[k].h /\ EntryOK(tries2[k], Part(hs[tries[k].h], t))
    BY <1>5, <1>6
  <2> QED
    BY <1>4, <2>1, HistoryMoves
<1> QED
  BY <1>1, <1>7

\* A statement that has not begun has no entry.
LEMMA OutsideNone ==
  ASSUME NEW tries, NEW h, \A k \in DOMAIN tries : tries[k].h # h
  PROVE  Outside(tries, h) = tries
BY DEF Outside

FrontOf(tries2, tries) ==
  /\ tries2 \in Seq(Entry) /\ Len(tries2) = Len(tries) - 1
  /\ DOMAIN tries2 = DOMAIN tries \ {Len(tries)}
  /\ \A k \in DOMAIN tries2 : tries2[k] = tries[k]

\* The entry of the innermost one is the last.
LEMMA OutsideLast ==
  ASSUME NEW tries \in Seq(Entry), tries # <<>>, NEW h, tries[Len(tries)].h = h,
         \A k \in DOMAIN tries : k # Len(tries) => tries[k].h # h
  PROVE  FrontOf(Outside(tries, h), tries)
<1>1. PICK n : n = Len(tries)
  OBVIOUS
<1>2. n \in Nat \ {0} /\ DOMAIN tries = 1 .. n /\ n \in DOMAIN tries
  BY <1>1, EmptySeq
<1>3. {k \in DOMAIN tries : tries[k].h = h} = {n}
  BY <1>1, <1>2
<1>4. Min({n}) = n
  BY <1>2 DEF Min
<1>5. PICK tries2 : tries2 = SubSeq(tries, 1, n - 1)
  OBVIOUS
<1>6. Outside(tries, h) = tries2
  <2>1. Outside(tries, h) = SubSeq(tries, 1, Min({n}) - 1)
    BY <1>3 DEF Outside
  <2> QED
    BY <1>4, <1>5, <2>1
<1>7. /\ tries2 \in Seq(Entry) /\ Len(tries2) = n - 1
      /\ \A k \in 1 .. n - 1 : tries2[k] = tries[k]
  BY <1>1, <1>2, <1>5
<1>8. DOMAIN tries2 = 1 .. n - 1
  BY <1>7
<1>9. 1 .. n - 1 = (1 .. n) \ {n}
  BY <1>2
<1> QED
  BY <1>1, <1>2, <1>6, <1>7, <1>8, <1>9 DEF FrontOf

\* TRY.
LEMMA HistoryBegins ==
  ASSUME NEW code, NEW hs, Sound(code, hs), NEW h \in DOMAIN hs, NEW a, StartsAt(hs, h, a),
         NEW tries, HistoryAt(hs, a, FALSE, tries), NEW sp \in Int
  PROVE  /\ Outside(tries, h) = tries /\ Try(h, sp) \in Entry
         /\ HistoryAt(hs, a + 1, FALSE, Append(tries, Try(h, sp)))
<1>1. PICK b, e, n, tries2 :
        b = a + 1 /\ e = Try(h, sp) /\ n = Len(tries) /\ tries2 = Append(tries, e)
  OBVIOUS
<1>2. /\ AroundAt(hs, b, FALSE) = AroundAt(hs, a, FALSE) \cup {h}
      /\ h \notin AroundAt(hs, a, FALSE) /\ Part(hs[h], b) = 1
      /\ \A g \in AroundAt(hs, a, FALSE) : h < g /\ Part(hs[g], b) = Part(hs[g], a)
  <2>1. BegunBy(hs, h, a, a + 1)
    BY Begins
  <2>2. b = a + 1
    BY <1>1
  <2> QED
    BY <2>1, <2>2 DEF BegunBy
<1>3. h \in Nat
  BY DEF Sound
<1>4. e \in Entry /\ e.h = h /\ ~e.caught /\ ~e.finally /\ e.pending = NoException
  BY <1>1, <1>3 DEF Entry, Try, NoException
<1>5. /\ tries \in Seq(Entry) /\ n \in Nat /\ DOMAIN tries = 1 .. n
      /\ \A k \in DOMAIN tries :
           tries[k].h \in AroundAt(hs, a, FALSE) /\ EntryOK(tries[k], Part(hs[tries[k].h], a))
  <2>1. /\ tries \in Seq(Entry)
        /\ \A k \in DOMAIN tries :
             tries[k].h \in AroundAt(hs, a, FALSE) /\ EntryOK(tries[k], Part(hs[tries[k].h], a))
    BY DEF HistoryAt
  <2>2. n \in Nat /\ DOMAIN tries = 1 .. n
    BY <1>1, <2>1
  <2> QED
    BY <2>1, <2>2
<1>6. PICK m : m = n + 1
  OBVIOUS
<1>7. /\ tries2 \in Seq(Entry) /\ DOMAIN tries2 = DOMAIN tries \cup {m} /\ m \notin DOMAIN tries
      /\ tries2[m] = e /\ \A k \in DOMAIN tries : tries2[k] = tries[k] /\ k < m
  BY <1>1, <1>4, <1>5, <1>6
<1>8. Outside(tries, h) = tries
  <2>1. \A k \in DOMAIN tries : tries[k].h # h
    BY <1>2, <1>5
  <2> QED
    BY <2>1, OutsideNone
<1>9. ASSUME NEW k \in DOMAIN tries2
      PROVE  /\ tries2[k].h \in AroundAt(hs, b, FALSE)
             /\ EntryOK(tries2[k], Part(hs[tries2[k].h], b))
  <2>1. CASE k = m
    <3>1. EntryOK(e, 1)
      BY <1>4 DEF EntryOK
    <3> QED
      BY <1>2, <1>4, <1>7, <2>1, <3>1
  <2>2. CASE k \in DOMAIN tries
    BY <1>2, <1>5, <1>7, <2>2
  <2> QED
    BY <1>7, <2>1, <2>2
<1>10. ASSUME NEW g \in AroundAt(hs, b, FALSE) PROVE \E k \in DOMAIN tries2 : tries2[k].h = g
  <2>1. CASE g = h
    BY <1>4, <1>7, <2>1
  <2>2. CASE g \in AroundAt(hs, a, FALSE)
    <3>1. PICK k \in DOMAIN tries : tries[k].h = g
      BY <2>2 DEF HistoryAt
    <3> QED
      BY <1>7, <3>1
  <2> QED
    BY <1>2, <2>1, <2>2
<1>11. ASSUME NEW k \in DOMAIN tries2, NEW l \in DOMAIN tries2, k < l
       PROVE  tries2[l].h < tries2[k].h
  <2>1. k \in DOMAIN tries
    <3>1. \A i \in DOMAIN tries2 : i \in Nat /\ i <= m
      BY <1>5, <1>6, <1>7
    <3> QED
      BY <1>6, <1>7, <1>11, <3>1
  <2>2. CASE l = m
    BY <1>2, <1>4, <1>5, <1>7, <2>1, <2>2
  <2>3. CASE l \in DOMAIN tries
    BY <1>7, <1>11, <2>1, <2>3 DEF HistoryAt
  <2> QED
    BY <1>7, <2>2, <2>3
<1>12. HistoryAt(hs, b, FALSE, tries2)
  BY <1>7, <1>9, <1>10, <1>11 DEF HistoryAt
<1> QED
  BY <1>1, <1>4, <1>8, <1>12

EndedHistory(hs, h, a, b, tries, tries2) ==
  /\ tries # <<>> /\ tries[Len(tries)].h = h
  /\ HistoryAt(hs, b, FALSE, tries2) /\ HistoryAt(hs, a, TRUE, tries2)
  /\ DOMAIN tries2 = DOMAIN tries \ {Len(tries)}
  /\ \A k \in DOMAIN tries2 : tries2[k] = tries[k]

\* END_TRY, whether execute goes on after it or the exception does.
LEMMA HistoryEnds ==
  ASSUME NEW code, NEW hs, Sound(code, hs), NEW h \in DOMAIN hs, NEW a, EndsAt(hs, h, a),
         NEW tries, HistoryAt(hs, a, FALSE, tries)
  PROVE  EndedHistory(hs, h, a, a + 1, tries, Outside(tries, h))
<1>1. PICK b, n, tries2 : b = a + 1 /\ n = Len(tries) /\ tries2 = Outside(tries, h)
  OBVIOUS
<1>2. /\ h \in AroundAt(hs, a, FALSE)
      /\ AroundAt(hs, a, TRUE) = AroundAt(hs, a, FALSE) \ {h}
      /\ AroundAt(hs, b, FALSE) = AroundAt(hs, a, FALSE) \ {h}
      /\ \A g \in AroundAt(hs, a, FALSE) : h <= g
      /\ \A g \in AroundAt(hs, a, FALSE) : g # h => Part(hs[g], b) = Part(hs[g], a)
  <2>1. EndedBy(hs, h, a, a + 1)
    BY Ends
  <2>2. b = a + 1
    BY <1>1
  <2> QED
    BY <2>1, <2>2 DEF EndedBy
<1>3. hs \in Seq(Handler) /\ tries \in Seq(Entry)
  BY DEF Sound, HistoryAt
<1>4. tries # <<>> /\ tries[n].h = h
  BY <1>1, <1>2, <1>3, InnermostLast
<1>5. n \in DOMAIN tries /\ \A k \in DOMAIN tries : k # n => tries[k].h # h
  <2>1. n \in DOMAIN tries /\ \A k \in DOMAIN tries : k # n => tries[n].h < tries[k].h
    BY <1>1, <1>3, <1>4, LastInnermost
  <2>2. h \in Nat
    BY <1>3
  <2> QED
    BY <1>4, <2>1, <2>2
<1>6. /\ tries2 \in Seq(Entry) /\ DOMAIN tries2 = DOMAIN tries \ {n}
      /\ \A k \in DOMAIN tries2 : tries2[k] = tries[k]
  <2>1. FrontOf(tries2, tries)
    BY <1>1, <1>3, <1>4, <1>5, OutsideLast
  <2> QED
    BY <1>1, <2>1 DEF FrontOf
<1>7. ASSUME NEW k \in DOMAIN tries2
      PROVE  /\ tries2[k].h \in AroundAt(hs, a, FALSE) \ {h}
             /\ EntryOK(tries2[k], Part(hs[tries2[k].h], a))
             /\ EntryOK(tries2[k], Part(hs[tries2[k].h], b))
  <2>1. /\ k \in DOMAIN tries /\ tries2[k] = tries[k] /\ tries[k].h # h
        /\ tries[k].h \in AroundAt(hs, a, FALSE)
        /\ EntryOK(tries[k], Part(hs[tries[k].h], a))
    BY <1>5, <1>6 DEF HistoryAt
  <2> QED
    BY <1>2, <2>1
<1>8. ASSUME NEW g \in AroundAt(hs, a, FALSE) \ {h} PROVE \E k \in DOMAIN tries2 : tries2[k].h = g
  <2>1. PICK k \in DOMAIN tries : tries[k].h = g
    BY DEF HistoryAt
  <2> QED
    BY <1>4, <1>6, <2>1
<1>9. \A k, l \in DOMAIN tries2 : k < l => tries2[l].h < tries2[k].h
  BY <1>6 DEF HistoryAt
<1>10. HistoryAt(hs, a, TRUE, tries2) /\ HistoryAt(hs, b, FALSE, tries2)
  BY <1>2, <1>6, <1>7, <1>8, <1>9 DEF HistoryAt
<1>11. EndedHistory(hs, h, a, b, tries, tries2)
  BY <1>1, <1>4, <1>6, <1>10 DEF EndedHistory
<1> QED
  BY <1>1, <1>11

\* Only the last entry differs.
LastIs(tries2, tries, h, p) ==
  /\ \A k \in DOMAIN tries : k # Len(tries) => tries2[k] = tries[k]
  /\ tries2[Len(tries)].h = h /\ EntryOK(tries2[Len(tries)], p)

\* error: goes on in the innermost handler.
LEMMA HistoryLands ==
  ASSUME NEW code, NEW hs, Sound(code, hs), NEW x \in Nat, NEW h \in AroundAt(hs, x, TRUE),
         \A g \in AroundAt(hs, x, TRUE) : h <= g, NEW t, LandsAt(hs, h, t),
         NEW tries, HistoryAt(hs, x, TRUE, tries), NEW tries2 \in Seq(Entry),
         DOMAIN tries2 = DOMAIN tries,
         LastIs(tries2, tries, h, Part(hs[h], t))
  PROVE  HistoryAt(hs, t, FALSE, tries2)
<1>1. /\ AroundAt(hs, t, FALSE) = AroundAt(hs, x, TRUE)
      /\ \A g \in AroundAt(hs, x, TRUE) \ {h} : Part(hs[g], t) = Part(hs[g], x)
  <2>1. LandedAt(hs, x, h, t)
    BY Lands
  <2> QED
    BY <2>1 DEF LandedAt
<1>2. PICK n : n = Len(tries)
  OBVIOUS
<1>3. hs \in Seq(Handler) /\ tries # <<>> /\ tries[n].h = h
  <2>1. hs \in Seq(Handler)
    BY DEF Sound
  <2> QED
    BY <1>2, <2>1, InnermostLast
<1>4. \A k \in DOMAIN tries : k # n => tries[k].h # h
  <2>1. \A k \in DOMAIN tries : k # n => h < tries[k].h
    BY <1>2, <1>3, LastInnermost
  <2>2. h \in Nat
    BY <1>3 DEF AroundAt
  <2> QED
    BY <2>1, <2>2
<1>5. \A k \in DOMAIN tries :
        tries[k].h \in AroundAt(hs, x, TRUE) /\ EntryOK(tries[k], Part(hs[tries[k].h], x))
  BY DEF HistoryAt
<1>6. ASSUME NEW k \in DOMAIN tries
      PROVE  tries2[k].h = tries[k].h /\ EntryOK(tries2[k], Part(hs[tries[k].h], t))
  <2>1. CASE k = n
    BY <1>2, <1>3, <2>1 DEF LastIs
  <2>2. CASE k # n
    <3>1. tries2[k] = tries[k]
      BY <1>2, <2>2 DEF LastIs
    <3>2. Part(hs[tries[k].h], t) = Part(hs[tries[k].h], x)
      BY <1>1, <1>4, <1>5, <2>2
    <3> QED
      BY <1>5, <3>1, <3>2
  <2> QED
    BY <2>1, <2>2
<1> QED
  BY <1>1, <1>6, HistoryMoves

-----------------------------------------------------------------------------
(* The running program. *)

Frame == [co : Nat, ip : Nat, sp : Int, bound : SUBSET Nat, tries : Seq(Entry)]
OpAt(f) == codes[f.co].code[f.ip].op

\* The frame is at an instruction, and its history is the one of this address.
FrameOK(f, gone) ==
  /\ f \in Frame /\ f.co \in DOMAIN codes /\ f.ip \in DOMAIN codes[f.co].code
  /\ HistoryAt(codes[f.co].handlers, f.ip, gone, f.tries)

\* Callers are in an expression.
FramesOK ==
  /\ frames \in Seq(Frame)
  /\ phase # "done" => frames # <<>>
  /\ \A i \in DOMAIN frames :
       i # Len(frames) \/ phase # "error" => FrameOK(frames[i], FALSE)
  /\ phase = "error" => FrameOK(frames[Len(frames)], TRUE)
  /\ \A i \in DOMAIN frames : i # Len(frames) => OpAt(frames[i]) = "EVAL"
  /\ exc \in Nat /\ defined \subseteq DOMAIN codes

\* An exception that ended a protected block and that no catch block took, or one
\* that was pending when the finally block began.
EntryPending(e) ==
  \/ e.raised # NoException /\ ~e.caught
  \/ e.finally /\ e.pending # NoException
FramePending(f) == \E k \in DOMAIN f.tries : EntryPending(f.tries[k])
RunPending ==
  phase = "run" /\ exc # NoException /\ OpAt(frames[Len(frames)]) # "END_TRY" =>
    \E i \in DOMAIN frames : FramePending(frames[i])

\* Without try statements in finally blocks, callers are in none of these, and
\* the exception that was pending when one began still is.
PendingLeft(f) == \A k \in DOMAIN f.tries : f.tries[k].pending = NoException
NotInFinally(f) == \A k \in DOMAIN f.tries : ~f.tries[k].finally
NoTryInFinally ==
  "tryInFinally" \notin used =>
    /\ \A i \in DOMAIN frames : i # Len(frames) => NotInFinally(frames[i])
    /\ frames # <<>> /\ exc = NoException => PendingLeft(frames[Len(frames)])

\* Without recursion, stackTop has what each TRY wrote.
TopsOf(f) ==
  \A k \in DOMAIN f.tries : stackTop[f.co][f.tries[k].h] = f.tries[k].sp
StackTops ==
  /\ DOMAIN stackTop = DOMAIN codes
  /\ \A c \in DOMAIN codes : stackTop[c] \in [DOMAIN codes[c].handlers -> Int]
  /\ "recursiveTry" \notin used =>
       /\ \A i, j \in DOMAIN frames :
            i # j /\ frames[i].co = frames[j].co => codes[frames[i].co].handlers = <<>>
       /\ \A i \in DOMAIN frames : TopsOf(frames[i])

MachineInv ==
  /\ phase = "compile" => frames = <<NewFrame(1, 1)>> /\ exc = NoException /\ defined = {}
  /\ Straight /\ phase # "compile" => FramesOK /\ RunPending /\ NoTryInFinally /\ StackTops

\* An entry whose finally block is still to come is kept.
Unfinished(f, k) ==
  codes[f.co].handlers[f.tries[k].h].finally # NoAddress /\ ~f.tries[k].finally
FrameKept(f, f2) ==
  /\ f2.co = f.co
  /\ \A k \in DOMAIN f.tries :
       Unfinished(f, k) => k \in DOMAIN f2.tries /\ f2.tries[k].h = f.tries[k].h
EntriesKept ==
  \A i \in DOMAIN frames :
    \/ \A k \in DOMAIN frames[i].tries : ~Unfinished(frames[i], k)
    \/ i \in DOMAIN frames' /\ FrameKept(frames[i], frames'[i])

\* What a finished program promises of the instruction at address a.
PromisedAt(code, hs, D, a) ==
  /\ code[a].op \in Jumps =>
       /\ code[a].arg \in DOMAIN code /\ code[a].arg \in Nat /\ code[a].arg # NoAddress
       /\ \A h \in DOMAIN hs : StaysIn(hs[h], a, code[a].arg)
  /\ code[a].op = "TRY" => \E h \in DOMAIN hs : hs[h].start = a
  /\ code[a].op = "END_TRY" => \E h \in DOMAIN hs : hs[h].end = a
  /\ code[a].op = "RETURN" => \A h \in DOMAIN hs : Part(hs[h], a) = 0
  /\ code[a].op = "CATCH" =>
       \E g \in DOMAIN hs :
         Part(hs[g], a) = 2 /\ \A h \in DOMAIN hs : Part(hs[h], a) # 0 => hs[h].start <= hs[g].start
  /\ code[a].op = "MAKE_FUNCTION" => code[a - 1].arg \in D
Ready(c) ==
  /\ Sound(codes[c].code, codes[c].handlers)
  /\ \A a \in DOMAIN codes[c].code :
       PromisedAt(codes[c].code, codes[c].handlers, DOMAIN codes, a)
  /\ "tryInFinally" \notin used =>
       \A g, h \in DOMAIN codes[c].handlers :
         Part(codes[c].handlers[h], codes[c].handlers[g].start) # 3

\* The code that runs is what the compiler promised.
LEMMA SoundCode ==
  ASSUME CodeInv, BlockInv, Straight, phase # "compile", NEW c \in DOMAIN codes
  PROVE  Ready(c)
<1>1. PICK code, hs, H : code = codes[c].code /\ hs = codes[c].handlers /\ H = Range(hs)
  OBVIOUS
<1>2. code \in Seq(Instruction) /\ hs \in Seq(Handler)
  <2>1. codes[c] \in CodeObject
    BY DEF CodeInv, CodesOK
  <2> QED
    BY <1>1, <2>1 DEF CodeObject
<1>3. HandlersIn(c) = H /\ Spans(c) = H
  <2>1. open = <<>>
    BY DEF BlockInv
  <2>2. OpenTries(c) = {}
    BY <2>1 DEF OpenTries
  <2> QED
    BY <1>1, <2>2 DEF HandlersIn, Spans
<1>4. \A h \in DOMAIN hs : hs[h] \in H
  BY <1>1, <1>2 DEF Range
<1>5. \A r \in H : \E h \in DOMAIN hs : hs[h] = r
  BY <1>1, <1>2 DEF Range
<1>6. /\ GoodCode(code, H, H, DOMAIN codes) /\ EndsInReturn(code)
      /\ "tryInFinally" \notin used => FreeFinally(H)
  <2>1. /\ CodeGood(c) /\ EndsInReturn(codes[c].code)
        /\ "tryInFinally" \notin used => FreeFinally(Spans(c))
    BY DEF BlockInv, Lives
  <2> QED
    BY <1>1, <1>3, <2>1 DEF CodeGood
<1>7. ASSUME NEW h \in DOMAIN hs PROVE HandlerOK(code, hs[h])
  <2>1. PICK r : r = hs[h] /\ r \in H
    BY <1>4
  <2>2. /\ r.start < r.first /\ r.first < r.end /\ r.end \in DOMAIN code
        /\ code[r.start].op = "TRY" /\ code[r.end].op = "END_TRY"
        /\ r.finally # NoAddress => r.first < r.finally /\ r.finally <= r.end
    BY <1>1, <2>1 DEF CodeInv, HandlersOrdered
  <2>3. r.start \in DOMAIN code
    BY <1>1, <2>1 DEF CodeInv, HandlersStart
  <2>4. JumpBefore(code, r.first) /\ JumpBefore(code, r.finally)
    BY <1>6, <2>1 DEF GoodCode, BlocksEnd
  <2> QED
    BY <2>1, <2>2, <2>3, <2>4 DEF HandlerOK
<1>8. \A g, h \in DOMAIN hs :
        g < h => hs[g].end < hs[h].end /\ (hs[h].start < hs[g].start \/ hs[g].end < hs[h].start)
  <2>1. InnerHandlerFirst
    BY DEF CodeInv
  <2>2. ASSUME NEW g \in DOMAIN hs, NEW h \in DOMAIN hs, g < h
        PROVE  hs[h].end > hs[g].end /\ (hs[h].start < hs[g].start \/ hs[g].end < hs[h].start)
    BY <1>1, <2>1, <2>2 DEF InnerHandlerFirst
  <2>3. \A h \in DOMAIN hs : hs[h] \in Handler
    BY <1>2
  <2>4. \A h \in DOMAIN hs : hs[h].end \in Nat
    BY <2>3 DEF Handler
  <2> QED
    BY <2>2, <2>4
<1>9. ASSUME NEW g \in DOMAIN hs, NEW h \in DOMAIN hs, g # h
      PROVE  Part(hs[h], hs[g].start) = Part(hs[h], hs[g].end)
  <2>1. hs[g] # hs[h]
    <3>1. g < h \/ h < g
      BY <1>2, <1>9
    <3>2. hs[g] \in Handler /\ hs[h] \in Handler
      BY <1>2
    <3>3. hs[g].end \in Nat /\ hs[h].end \in Nat
      BY <3>2 DEF Handler
    <3> QED
      BY <1>8, <3>1, <3>3
  <2>2. NotStraddling(H, H)
    BY <1>6 DEF GoodCode
  <2> QED
    BY <1>4, <2>1, <2>2 DEF NotStraddling
<1>10. Sound(code, hs)
  BY <1>2, <1>6, <1>7, <1>8, <1>9 DEF Sound
<1>11. ASSUME NEW a \in DOMAIN code PROVE PromisedAt(code, hs, DOMAIN codes, a)
  <2>1. InstructionOK(code, H, H, DOMAIN codes, a)
    BY <1>6 DEF GoodCode
  <2>2. ASSUME code[a].op \in Jumps
        PROVE  /\ code[a].arg \in DOMAIN code /\ code[a].arg \in Nat /\ code[a].arg # NoAddress
               /\ \A h \in DOMAIN hs : StaysIn(hs[h], a, code[a].arg)
    <3>1. code[a].arg \in DOMAIN code
      <4>1. JumpsLand
        BY DEF CodeInv, Straight
      <4>2. code \in CodesOf
        BY <1>1 DEF CodesOf
      <4> QED
        BY <2>2, <4>1, <4>2 DEF JumpsLand
    <3>2. code[a].arg \in Nat /\ code[a].arg # NoAddress
      BY <1>2, <3>1 DEF NoAddress
    <3>3. TargetOK(code, H, a)
      BY <2>1, <2>2, <3>2 DEF InstructionOK
    <3> QED
      BY <1>4, <3>1, <3>2, <3>3 DEF TargetOK
  <2>3. code[a].op = "TRY" => \E h \in DOMAIN hs : hs[h].start = a
    BY <1>5, <2>1 DEF InstructionOK
  <2>4. code[a].op = "END_TRY" => \E h \in DOMAIN hs : hs[h].end = a
    BY <1>5, <2>1 DEF InstructionOK
  <2>5. code[a].op = "RETURN" => \A h \in DOMAIN hs : Part(hs[h], a) = 0
    BY <1>4, <2>1 DEF InstructionOK
  <2>6. code[a].op = "CATCH" =>
          \E g \in DOMAIN hs :
            /\ Part(hs[g], a) = 2
            /\ \A h \in DOMAIN hs : Part(hs[h], a) # 0 => hs[h].start <= hs[g].start
    BY <1>4, <1>5, <2>1 DEF InstructionOK, InCatch
  <2>7. code[a].op = "MAKE_FUNCTION" => code[a - 1].arg \in DOMAIN codes
    BY <2>1 DEF InstructionOK
  <2> QED
    BY <2>2, <2>3, <2>4, <2>5, <2>6, <2>7 DEF PromisedAt
<1>12. "tryInFinally" \notin used => \A g, h \in DOMAIN hs : Part(hs[h], hs[g].start) # 3
  BY <1>4, <1>6 DEF FreeFinally
<1> QED
  BY <1>1, <1>10, <1>11, <1>12 DEF Ready

-----------------------------------------------------------------------------
(* Steps of the current frame. *)

IsTop(f) == frames # <<>> /\ f = Top
\* The code stays; what a function can be made of is code.
CodeStays == codes' = codes /\ used' = used /\ defined' \subseteq DOMAIN codes
\* The current frame f becomes f2.
Moved(f, f2) ==
  /\ SetTop(f2) /\ f2.co = f.co /\ exc' \in Nat
  /\ \/ phase' = "run" /\ FrameOK(f2, FALSE)
     \/ phase' = "error" /\ FrameOK(f2, TRUE)
PendingGoes(f, f2) ==
  phase' = "run" /\ exc' # NoException /\ OpAt(f2) # "END_TRY" =>
    \/ FramePending(f2)
    \/ /\ phase = "run" /\ exc # NoException /\ OpAt(f) # "END_TRY"
       /\ FramePending(f) => FramePending(f2)
PendingStays(f2) == "tryInFinally" \notin used /\ exc' = NoException => PendingLeft(f2)
TopsWritten(f, f2) ==
  /\ DOMAIN stackTop' = DOMAIN stackTop
  /\ stackTop'[f.co] \in [DOMAIN codes[f.co].handlers -> Int]
  /\ \A c \in DOMAIN codes : c # f.co => stackTop'[c] = stackTop[c]
  /\ "recursiveTry" \notin used => TopsOf(f2)'

\* A frame of code without handlers has no history.
LEMMA NoHandlers ==
  ASSUME NEW f, FrameOK(f, FALSE), codes[f.co].handlers = <<>>
  PROVE  DOMAIN f.tries = {}
BY DEF FrameOK, HistoryAt, AroundAt

ReplacedLast(s2, s, f) ==
  /\ s2 \in Seq(Frame) /\ DOMAIN s2 = DOMAIN s /\ Len(s2) = Len(s) /\ s2 # <<>>
  /\ Len(s) \in DOMAIN s /\ s2[Len(s)] = f
  /\ \A i \in DOMAIN s : i # Len(s) => s2[i] = s[i]

\* The last frame is replaced.
LEMMA FrameReplaced ==
  ASSUME NEW s \in Seq(Frame), s # <<>>, NEW f \in Frame
  PROVE  ReplacedLast([s EXCEPT ![Len(s)] = f], s, f)
<1>1. Len(s) \in DOMAIN s
  BY EmptySeq
<1>2. PICK s2 : s2 = [s EXCEPT ![Len(s)] = f]
  OBVIOUS
<1>3. /\ s2 \in Seq(Frame) /\ DOMAIN s2 = DOMAIN s /\ Len(s2) = Len(s) /\ s2[Len(s)] = f
      /\ \A i \in DOMAIN s : i # Len(s) => s2[i] = s[i]
  BY <1>1, <1>2
<1>4. s2 # <<>>
  BY <1>1, <1>3
<1> QED
  BY <1>1, <1>2, <1>3, <1>4 DEF ReplacedLast

\* Such a step keeps the invariant, and the entries that are not finished.
LEMMA TopMoves ==
  ASSUME MachineInv, Straight, phase \in {"run", "error"}, CodeStays,
         NEW f, IsTop(f), NEW f2, Moved(f, f2), PendingGoes(f, f2), PendingStays(f2),
         TopsWritten(f, f2), FrameKept(f, f2)
  PROVE  MachineInv' /\ EntriesKept
<1>1. FramesOK /\ RunPending /\ NoTryInFinally /\ StackTops
  BY DEF MachineInv
<1>2. PICK s, s2, n : s = frames /\ s2 = frames' /\ n = Len(frames)
  OBVIOUS
<1>3. s \in Seq(Frame) /\ s # <<>> /\ f = s[n] /\ f2 \in Frame /\ s2 = [s EXCEPT ![n] = f2]
  <2>1. s \in Seq(Frame)
    BY <1>1, <1>2 DEF FramesOK
  <2>2. s # <<>> /\ f = s[n]
    BY <1>2 DEF IsTop, Top
  <2>3. f2 \in Frame
    BY DEF Moved, FrameOK
  <2>4. s2 = [s EXCEPT ![n] = f2]
    BY <1>2 DEF Moved, SetTop
  <2> QED
    BY <2>1, <2>2, <2>3, <2>4
<1>4. /\ s2 \in Seq(Frame) /\ DOMAIN s2 = DOMAIN s /\ Len(s2) = n /\ s2 # <<>>
      /\ n \in DOMAIN s /\ s2[n] = f2
      /\ \A i \in DOMAIN s : i # n => s2[i] = s[i]
  <2>1. ReplacedLast(s2, s, f2)
    BY <1>2, <1>3, FrameReplaced
  <2>2. Len(s) = n
    BY <1>2
  <2> QED
    BY <2>1, <2>2 DEF ReplacedLast
<1>5. \A g, gone : FrameOK(g, gone)' <=> FrameOK(g, gone)
  BY DEF CodeStays, FrameOK
<1>6. \A g : OpAt(g)' = OpAt(g)
  BY DEF CodeStays, OpAt
<1>7. \A i \in DOMAIN s : i # n => FrameOK(s[i], FALSE) /\ OpAt(s[i]) = "EVAL"
  BY <1>1, <1>2 DEF FramesOK
<1>8. FramesOK'
  <2>1. ASSUME NEW i \in DOMAIN s2, i # n \/ phase' # "error" PROVE FrameOK(s2[i], FALSE)
    BY <1>4, <1>7, <2>1 DEF Moved
  <2>2. phase' = "error" => FrameOK(s2[n], TRUE)
    BY <1>4 DEF Moved
  <2>3. \A i \in DOMAIN s2 : i # n => OpAt(s2[i]) = "EVAL"
    BY <1>4, <1>7
  <2>4. exc' \in Nat /\ defined' \subseteq DOMAIN codes'
    BY DEF Moved, CodeStays
  <2>5. Len(frames') = n /\ frames' = s2
    BY <1>2, <1>4
  <2> QED
    BY <1>4, <1>5, <1>6, <2>1, <2>2, <2>3, <2>4, <2>5 DEF FramesOK
<1>9. RunPending'
  <2>1. SUFFICES ASSUME phase' = "run", exc' # NoException, OpAt(f2) # "END_TRY"
                 PROVE  \E i \in DOMAIN s2 : FramePending(s2[i])
    BY <1>2, <1>4, <1>6 DEF RunPending, FramePending, EntryPending
  <2>2. CASE FramePending(f2)
    BY <1>4, <2>2
  <2>3. CASE /\ phase = "run" /\ exc # NoException /\ OpAt(f) # "END_TRY"
             /\ FramePending(f) => FramePending(f2)
    <3>1. PICK i \in DOMAIN s : FramePending(s[i])
      BY <1>1, <1>2, <1>3, <2>3 DEF RunPending
    <3>2. FramePending(s2[i])
      BY <1>3, <1>4, <2>3, <3>1
    <3> QED
      BY <1>4, <3>1, <3>2
  <2> QED
    BY <2>1, <2>2, <2>3 DEF PendingGoes
<1>10. NoTryInFinally'
  <2>1. SUFFICES ASSUME "tryInFinally" \notin used
                 PROVE  /\ \A i \in DOMAIN s2 : i # n => NotInFinally(s2[i])
                        /\ exc' = NoException => PendingLeft(s2[n])
    <3>1. used' = used
      BY DEF CodeStays
    <3> QED
      BY <1>2, <1>4, <3>1 DEF NoTryInFinally, NotInFinally, PendingLeft
  <2>2. \A i \in DOMAIN s : i # n => NotInFinally(s[i])
    BY <1>1, <1>2, <2>1 DEF NoTryInFinally
  <2> QED
    BY <1>4, <2>1, <2>2 DEF PendingStays
<1>11. StackTops'
  <2>1. codes' = codes /\ used' = used
    BY DEF CodeStays
  <2>2. /\ DOMAIN stackTop' = DOMAIN codes
        /\ \A c \in DOMAIN codes : stackTop'[c] \in [DOMAIN codes[c].handlers -> Int]
    BY <1>1 DEF StackTops, TopsWritten
  <2>3. ASSUME "recursiveTry" \notin used
        PROVE  /\ \A i, j \in DOMAIN s2 :
                    i # j /\ s2[i].co = s2[j].co => codes[s2[i].co].handlers = <<>>
               /\ \A i \in DOMAIN s2 : TopsOf(s2[i])'
    <3>1. /\ \A i, j \in DOMAIN s :
               i # j /\ s[i].co = s[j].co => codes[s[i].co].handlers = <<>>
          /\ \A i \in DOMAIN s : TopsOf(s[i])
      BY <1>1, <1>2, <2>3 DEF StackTops
    <3>2. \A i \in DOMAIN s : s2[i].co = s[i].co
      BY <1>3, <1>4 DEF Moved
    <3>3. ASSUME NEW i \in DOMAIN s PROVE TopsOf(s2[i])'
      <4>1. CASE i = n
        BY <1>4, <2>3, <4>1 DEF TopsWritten
      <4>2. CASE i # n
        <5>1. s2[i] = s[i] /\ FrameOK(s[i], FALSE) /\ TopsOf(s[i])
          BY <1>4, <1>7, <3>1, <4>2
        <5>2. CASE s[i].co = f.co
          <6>1. DOMAIN s[i].tries = {}
            BY <1>3, <1>4, <3>1, <4>2, <5>1, <5>2, NoHandlers
          <6> QED
            BY <5>1, <6>1 DEF TopsOf
        <5>3. CASE s[i].co # f.co
          <6>1. stackTop'[s[i].co] = stackTop[s[i].co]
            BY <5>1, <5>3 DEF TopsWritten, FrameOK
          <6> QED
            BY <5>1, <6>1 DEF TopsOf
        <5> QED
          BY <5>2, <5>3
      <4> QED
        BY <4>1, <4>2
    <3> QED
      BY <1>4, <3>1, <3>2, <3>3
  <2>4. frames' = s2
    BY <1>2
  <2> QED
    BY <2>1, <2>2, <2>3, <2>4 DEF StackTops
<1>12. MachineInv'
  <2>1. phase' # "compile"
    BY DEF Moved
  <2> QED
    BY <1>8, <1>9, <1>10, <1>11, <2>1 DEF MachineInv
<1>13. EntriesKept
  <2>1. \A i \in DOMAIN s : i # n => FrameKept(s[i], s2[i])
    BY <1>4 DEF FrameKept
  <2>2. \A i \in DOMAIN s : FrameKept(s[i], s2[i])
    BY <1>3, <1>4, <2>1
  <2> QED
    BY <1>2, <1>4, <2>2 DEF EntriesKept
<1> QED
  BY <1>12, <1>13

KeepsEntries(f, f2) ==
  /\ f2.co = f.co /\ DOMAIN f2.tries = DOMAIN f.tries
  /\ \A k \in DOMAIN f.tries : f2.tries[k].h = f.tries[k].h /\ f2.tries[k].sp = f.tries[k].sp
TopsStay == stackTop' = stackTop

\* Neither TRY nor END_TRY.
LEMMA EntriesSame ==
  ASSUME MachineInv, Straight, phase # "compile", NEW f, IsTop(f), f.co \in DOMAIN codes,
         NEW f2, KeepsEntries(f, f2), TopsStay
  PROVE  TopsWritten(f, f2) /\ FrameKept(f, f2)
<1>1. StackTops /\ frames \in Seq(Frame)
  BY DEF MachineInv, FramesOK
<1>2. f = frames[Len(frames)] /\ Len(frames) \in DOMAIN frames
  <2>1. frames # <<>> /\ f = frames[Len(frames)]
    BY DEF IsTop, Top
  <2> QED
    BY <1>1, <2>1, EmptySeq
<1>3. "recursiveTry" \notin used => TopsOf(f)
  BY <1>1, <1>2 DEF StackTops
<1>4. TopsOf(f) => TopsOf(f2)'
  BY DEF TopsOf, KeepsEntries, TopsStay
<1>5. TopsWritten(f, f2)
  BY <1>1, <1>3, <1>4 DEF TopsWritten, TopsStay, StackTops
<1>6. FrameKept(f, f2)
  BY DEF FrameKept, KeepsEntries
<1> QED
  BY <1>5, <1>6

\* The current frame is about to execute an instruction.
Running(f) ==
  /\ IsTop(f) /\ FrameOK(f, FALSE) /\ Ready(f.co) /\ phase = "run"
  /\ f \in Frame /\ f.co \in DOMAIN codes /\ f.ip \in DOMAIN codes[f.co].code
  /\ Sound(codes[f.co].code, codes[f.co].handlers) /\ exc \in Nat

\* Such is the current frame of a program that runs.
LEMMA Runs ==
  ASSUME CodeInv, BlockInv, MachineInv, Straight, phase = "run"
  PROVE  Running(Top)
<1>1. FramesOK
  BY DEF MachineInv
<1>2. frames # <<>> /\ Len(frames) \in DOMAIN frames
  BY <1>1, EmptySeq DEF FramesOK
<1>3. FrameOK(Top, FALSE)
  BY <1>1, <1>2 DEF FramesOK, Top
<1>4. Top \in Frame /\ Top.co \in DOMAIN codes /\ Top.ip \in DOMAIN codes[Top.co].code
  BY <1>3 DEF FrameOK
<1>5. Ready(Top.co)
  BY <1>4, SoundCode
<1>6. exc \in Nat /\ IsTop(Top)
  BY <1>1, <1>2 DEF FramesOK, IsTop
<1> QED
  BY <1>3, <1>4, <1>5, <1>6 DEF Running, Ready

\* Where an instruction that is not TRY, END_TRY or RETURN goes on.
Onwards == Ops \ {"RETURN", "JMP", "TRY", "END_TRY"}
Reaches(f, ip) ==
  \/ OpAt(f) \in Onwards /\ ip = f.ip + 1
  \/ OpAt(f) \in Jumps /\ ip = codes[f.co].code[f.ip].arg
GoesTo(f, f2, ip) ==
  /\ f2 \in Frame /\ f2.co = f.co /\ f2.ip = ip
  /\ f2.tries = SeenAt(codes[f.co].handlers, f.tries, ip, exc)
KeepsOn == UNCHANGED <<phase, exc>>

\* The history is the one of the new address.
LEMMA GoesSound ==
  ASSUME NEW f, Running(f), NEW f2, NEW ip, Reaches(f, ip), GoesTo(f, f2, ip)
  PROVE  FrameOK(f2, FALSE)
<1>1. PICK code, hs, a, tries, tries2 :
        /\ code = codes[f.co].code /\ hs = codes[f.co].handlers /\ a = f.ip
        /\ tries = f.tries /\ tries2 = f2.tries
  OBVIOUS
<1>2. /\ Sound(code, hs) /\ a \in DOMAIN code /\ HistoryAt(hs, a, FALSE, tries) /\ exc \in Nat
      /\ a \in Nat /\ PromisedAt(code, hs, DOMAIN codes, a) /\ f.co \in DOMAIN codes
  <2>1. Sound(code, hs) /\ a \in DOMAIN code /\ exc \in Nat /\ f.co \in DOMAIN codes /\ f \in Frame
    BY <1>1 DEF Running
  <2>2. HistoryAt(hs, a, FALSE, tries)
    BY <1>1 DEF Running, FrameOK
  <2>3. PromisedAt(code, hs, DOMAIN codes, a)
    BY <1>1, <2>1 DEF Running, Ready
  <2>4. a \in Nat
    BY <2>1, <1>1 DEF Frame
  <2> QED
    BY <2>1, <2>2, <2>3, <2>4
<1>3. tries2 = SeenAt(hs, tries, ip, exc) /\ f2 \in Frame /\ f2.co = f.co /\ f2.ip = ip
  BY <1>1 DEF GoesTo
<1>4. CASE code[a].op \in Onwards /\ ip = a + 1
  <2>1. code[a].op \notin {"RETURN", "JMP", "TRY", "END_TRY"}
    BY <1>4 DEF Onwards
  <2>2. /\ HistoryAt(hs, a + 1, FALSE, tries) /\ a + 1 \in DOMAIN code
        /\ \A h \in DOMAIN hs : hs[h].finally # a + 1
    BY <1>2, <2>1, HistoryOnward
  <2>3. ~Enters(hs, tries, ip)
    <3> SUFFICES ASSUME tries # <<>> PROVE hs[tries[Len(tries)].h].finally # ip
      BY DEF Enters
    <3>1. hs \in Seq(Handler)
      BY <1>2 DEF Sound
    <3>2. tries[Len(tries)].h \in DOMAIN hs
      BY <1>2, <3>1, LastInnermost DEF AroundAt
    <3> QED
      BY <1>4, <2>2, <3>2
  <2>4. tries2 = tries
    BY <1>3, <2>3 DEF SeenAt
  <2> QED
    BY <1>1, <1>2, <1>3, <1>4, <2>2, <2>4 DEF FrameOK
<1>5. CASE code[a].op \in Jumps /\ ip = code[a].arg
  <2>1. /\ ip \in DOMAIN code /\ ip \in Nat /\ ip # NoAddress
        /\ \A h \in DOMAIN hs : StaysIn(hs[h], a, ip)
    BY <1>2, <1>5 DEF PromisedAt
  <2>2. HistoryAt(hs, ip, FALSE, tries2)
    BY <1>2, <1>3, <2>1, HistoryJumps
  <2> QED
    BY <1>1, <1>2, <1>3, <2>1, <2>2 DEF FrameOK
<1> QED
  BY <1>1, <1>4, <1>5 DEF Reaches, OpAt

\* An instruction after which execute goes on with the next one or a jump.
LEMMA GoesOn ==
  ASSUME MachineInv, Straight, CodeStays, TopsStay, KeepsOn, NEW f, Running(f), NEW f2, SetTop(f2),
         NEW ip, Reaches(f, ip), GoesTo(f, f2, ip)
  PROVE  MachineInv' /\ EntriesKept
<1>1. PICK hs, tries, tries2 :
        hs = codes[f.co].handlers /\ tries = f.tries /\ tries2 = f2.tries
  OBVIOUS
<1>2. FrameOK(f2, FALSE)
  BY GoesSound
<1>3. IsTop(f) /\ f.co \in DOMAIN codes /\ exc \in Nat /\ phase = "run" /\ tries \in Seq(Entry)
  <2>1. tries \in Seq(Entry)
    BY <1>1 DEF Running, Frame
  <2> QED
    BY <2>1 DEF Running
<1>4. SeenIs(hs, tries, ip, exc, tries2)
  BY <1>1, <1>3, SeenTypes DEF GoesTo
<1>5. /\ DOMAIN tries2 = DOMAIN tries
      /\ \A k \in DOMAIN tries :
           /\ tries2[k].h = tries[k].h /\ tries2[k].sp = tries[k].sp
           /\ tries2[k].raised = tries[k].raised /\ tries2[k].caught = tries[k].caught
           /\ \/ tries2[k] = tries[k]
              \/ tries2[k].finally /\ tries2[k].pending = exc
  BY <1>4 DEF SeenIs
<1>6. Moved(f, f2)
  BY <1>2, <1>3 DEF Moved, GoesTo, KeepsOn
<1>7. PendingGoes(f, f2)
  <2>1. SUFFICES ASSUME exc # NoException, OpAt(f2) # "END_TRY"
                 PROVE  OpAt(f) # "END_TRY" /\ (FramePending(f) => FramePending(f2))
    BY <1>3 DEF PendingGoes, KeepsOn
  <2>2. OpAt(f) # "END_TRY"
    BY DEF Reaches, Onwards, Jumps
  <2>3. \A k \in DOMAIN tries : EntryPending(tries[k]) => EntryPending(tries2[k])
    BY <1>5, <2>1 DEF EntryPending
  <2> QED
    BY <1>1, <1>5, <2>2, <2>3 DEF FramePending
<1>8. PendingStays(f2)
  <2>1. SUFFICES ASSUME "tryInFinally" \notin used, exc = NoException PROVE PendingLeft(f2)
    BY DEF PendingStays, KeepsOn
  <2>2. PendingLeft(f)
    BY <1>3, <2>1 DEF MachineInv, NoTryInFinally, IsTop, Top
  <2> QED
    BY <1>1, <1>5, <2>1, <2>2 DEF PendingLeft
<1>9. KeepsEntries(f, f2)
  BY <1>1, <1>5 DEF KeepsEntries, GoesTo
<1>10. TopsWritten(f, f2) /\ FrameKept(f, f2)
  BY <1>3, <1>9, EntriesSame
<1> QED
  BY <1>3, <1>6, <1>7, <1>8, <1>10, TopMoves

\* What Goto makes of the history is what SeenAt says.
LEMMA SeenSame ==
  ASSUME NEW f, IsTop(f), f.tries \in Seq(Entry), NEW ip
  PROVE  Seen(f.tries, ip) = SeenAt(codes[f.co].handlers, f.tries, ip, exc)
<1>1. PICK hs, tries, n, e :
        hs = codes[f.co].handlers /\ tries = f.tries /\ n = Len(tries) /\ e = tries[n]
  OBVIOUS
<1>2. tries \in Seq(Entry) /\ Handlers = hs /\ f.tries = tries
  BY <1>1 DEF IsTop, Handlers
<1>3. Last(tries) = e
  BY <1>1 DEF Last
<1>4. CASE ~Enters(hs, tries, ip)
  <2>1. Seen(tries, ip) = tries
    BY <1>1, <1>2, <1>3, <1>4 DEF Seen, Enters
  <2> QED
    BY <1>1, <1>4, <2>1 DEF SeenAt
<1>5. CASE Enters(hs, tries, ip)
  <2>1. PICK t1, t2, e1, e2 :
          /\ t1 = [tries EXCEPT ![n].finally = TRUE] /\ t2 = [t1 EXCEPT ![n].pending = exc]
          /\ e1 = [e EXCEPT !.finally = TRUE] /\ e2 = [e1 EXCEPT !.pending = exc]
    OBVIOUS
  <2>2. n \in DOMAIN tries
    <3>1. tries # <<>>
      BY <1>5 DEF Enters
    <3> QED
      BY <1>1, <1>2, <3>1, EmptySeq
  <2>3. t1 = [tries EXCEPT ![n] = e1]
    BY <1>1, <2>1
  <2>4. t1[n] = e1 /\ DOMAIN t1 = DOMAIN tries
    BY <2>2, <2>3
  <2>5. t2 = [t1 EXCEPT ![n] = e2]
    BY <2>1, <2>4
  <2>6. t2 = [tries EXCEPT ![n] = e2]
    BY <2>2, <2>3, <2>5
  <2>7. e2 = InFinallyWith(e, exc)
    BY <2>1 DEF InFinallyWith
  <2>8. Seen(tries, ip) = t2
    BY <1>1, <1>2, <1>3, <1>5, <2>1 DEF Seen, Enters
  <2>9. SeenAt(hs, tries, ip, exc) = [tries EXCEPT ![n] = e2]
    BY <1>1, <1>5, <2>7 DEF SeenAt
  <2> QED
    BY <1>1, <1>2, <2>6, <2>8, <2>9
<1> QED
  BY <1>4, <1>5

\* Goto.
LEMMA GotoFrame ==
  ASSUME NEW f, IsTop(f), f \in Frame, exc \in Nat, NEW sp \in Int, NEW ip \in Nat, Goto(sp, ip)
  PROVE  \E f2 : SetTop(f2) /\ GoesTo(f, f2, ip)
<1>1. PICK tries, tries2, f2 :
        /\ tries = f.tries /\ tries2 = SeenAt(codes[f.co].handlers, tries, ip, exc)
        /\ f2 = [f EXCEPT !.sp = sp, !.ip = ip, !.tries = tries2]
  OBVIOUS
<1>2. tries \in Seq(Entry)
  BY <1>1 DEF Frame
<1>3. tries2 = Seen(tries, ip)
  BY <1>1, <1>2, SeenSame
<1>4. tries2 \in Seq(Entry)
  BY <1>1, <1>2, SeenTypes DEF SeenIs
<1>5. f2 \in Frame /\ f2.co = f.co /\ f2.ip = ip /\ f2.tries = tries2
  BY <1>1, <1>4 DEF Frame
<1>6. SetTop(f2)
  <2>1. f = Top
    BY DEF IsTop
  <2>2. [Top EXCEPT !.sp = sp, !.ip = ip, !.tries = Seen(@, ip)] = f2
    BY <1>1, <1>3, <2>1
  <2> QED
    BY <2>2 DEF Goto
<1>7. GoesTo(f, f2, ip)
  BY <1>1, <1>5 DEF GoesTo
<1> QED
  BY <1>6, <1>7

\* So the instructions that end in Goto keep the invariant.
LEMMA GotoStep ==
  ASSUME MachineInv, Straight, CodeStays, TopsStay, KeepsOn, NEW f, Running(f),
         NEW sp \in Int, NEW ip, Reaches(f, ip), Goto(sp, ip)
  PROVE  MachineInv' /\ EntriesKept
<1>1. IsTop(f) /\ f \in Frame /\ exc \in Nat
  BY DEF Running
<1>2. ip \in Nat
  <2>1. CASE ip = f.ip + 1
    BY <1>1, <2>1 DEF Frame
  <2>2. CASE OpAt(f) \in Jumps /\ ip = codes[f.co].code[f.ip].arg
    BY <2>2 DEF Running, Ready, PromisedAt, OpAt
  <2> QED
    BY <2>1, <2>2 DEF Reaches
<1>3. PICK f2 : SetTop(f2) /\ GoesTo(f, f2, ip)
  BY <1>1, <1>2, GotoFrame
<1> QED
  BY <1>3, GoesOn

\* An instruction that fails: only lost, in the history, may change.
FailsIn(f, f2) ==
  /\ f2 \in Frame /\ f2.co = f.co /\ f2.ip = f.ip /\ DOMAIN f2.tries = DOMAIN f.tries
  /\ \A k \in DOMAIN f.tries :
       /\ f2.tries[k].h = f.tries[k].h /\ f2.tries[k].sp = f.tries[k].sp
       /\ f2.tries[k].caught = f.tries[k].caught /\ f2.tries[k].finally = f.tries[k].finally
       /\ f2.tries[k].pending = f.tries[k].pending
Raises == phase' = "error" /\ exc' \in Nat \ {NoException}

\* The instruction fails with a new exception; the history stays.
LEMMA FailsAt ==
  ASSUME MachineInv, Straight, CodeStays, TopsStay, Raises, NEW f, Running(f), OpAt(f) \in Onwards,
         NEW f2, SetTop(f2), FailsIn(f, f2)
  PROVE  MachineInv' /\ EntriesKept
<1>1. PICK code, hs, a, tries, tries2 :
        /\ code = codes[f.co].code /\ hs = codes[f.co].handlers /\ a = f.ip
        /\ tries = f.tries /\ tries2 = f2.tries
  OBVIOUS
<1>2. /\ Sound(code, hs) /\ a \in DOMAIN code /\ f.co \in DOMAIN codes /\ IsTop(f)
      /\ phase = "run"
  BY <1>1 DEF Running
<1>3. HistoryAt(hs, a, FALSE, tries)
  BY <1>1 DEF Running, FrameOK
<1>4. /\ f2 \in Frame /\ f2.co = f.co /\ f2.ip = a /\ DOMAIN tries2 = DOMAIN tries
      /\ \A k \in DOMAIN tries :
           /\ tries2[k].h = tries[k].h /\ tries2[k].sp = tries[k].sp
           /\ tries2[k].caught = tries[k].caught /\ tries2[k].finally = tries[k].finally
           /\ tries2[k].pending = tries[k].pending
  BY <1>1 DEF FailsIn
<1>5. HistoryAt(hs, a, TRUE, tries2)
  <2>1. code[a].op # "END_TRY"
    BY <1>1 DEF OpAt, Onwards
  <2>2. AroundAt(hs, a, TRUE) = AroundAt(hs, a, FALSE)
    BY <1>2, <2>1, NotGone
  <2>3. tries2 \in Seq(Entry)
    BY <1>1, <1>4 DEF Frame
  <2>4. ASSUME NEW k \in DOMAIN tries
        PROVE  tries2[k].h = tries[k].h /\ EntryOK(tries2[k], Part(hs[tries[k].h], a))
    <3>1. EntryOK(tries[k], Part(hs[tries[k].h], a))
      BY <1>3 DEF HistoryAt
    <3> QED
      BY <1>4, <3>1 DEF EntryOK
  <2> QED
    <3>1. DOMAIN tries2 = DOMAIN tries
      BY <1>4
    <3> QED
      BY <1>3, <2>2, <2>3, <2>4, <3>1, HistoryMoves
<1>6. FrameOK(f2, TRUE)
  BY <1>1, <1>2, <1>4, <1>5 DEF FrameOK
<1>7. Moved(f, f2)
  BY <1>4, <1>6 DEF Moved, Raises
<1>8. PendingGoes(f, f2) /\ PendingStays(f2)
  BY DEF PendingGoes, PendingStays, Raises
<1>9. KeepsEntries(f, f2)
  BY <1>1, <1>4 DEF KeepsEntries
<1>10. TopsWritten(f, f2) /\ FrameKept(f, f2)
  BY <1>2, <1>9, EntriesSame
<1> QED
  BY <1>2, <1>7, <1>8, <1>10, TopMoves

-----------------------------------------------------------------------------
(* The instructions. *)

\* What stays when an instruction changes the frames and the stack only.
LEMMA SameStays ==
  ASSUME MachineInv, Straight, phase = "run", Same
  PROVE  CodeStays /\ TopsStay /\ exc' = exc
<1>1. defined \subseteq DOMAIN codes
  BY DEF MachineInv, FramesOK
<1> QED
  BY <1>1 DEF Same, compilerVars, CodeStays, TopsStay

\* They go on with the next instruction or a jump.
LEMMA GoingOn ==
  ASSUME CodeInv, BlockInv, MachineInv, Straight,
         \/ Eval \/ Pop \/ Load \/ MakeFunction \/ Jump \/ JumpIfFalse \/ GetIter \/ ForEach
         \/ CatchDoesNot
  PROVE  MachineInv' /\ EntriesKept
<1> USE DEF Executing
<1>1. phase = "run" /\ Running(Top)
  <2>1. phase = "run"
    BY DEF Eval, Pop, Load, MakeFunction, Jump, JumpIfFalse, GetIter, ForEach, CatchDoesNot
  <2> QED
    BY <2>1, Runs
<1>2. Top.sp \in Int /\ Top.sp - 1 \in Int /\ Top.sp + 1 \in Int
  BY <1>1 DEF Running, Frame
<1>3. OpAt(Top) = Instr.op
  BY DEF OpAt, Instr
<1>4. /\ Instr.op \in Onwards => Reaches(Top, Top.ip + 1)
      /\ Instr.op \in Jumps => Reaches(Top, Instr.arg)
  BY <1>3 DEF Reaches, Instr
<1>5. ASSUME Same, phase' = phase, NEW sp \in Int, NEW ip, Reaches(Top, ip), Goto(sp, ip)
      PROVE  MachineInv' /\ EntriesKept
  <2>1. CodeStays /\ TopsStay /\ KeepsOn
    BY <1>1, <1>5, SameStays DEF KeepsOn
  <2> QED
    BY <1>1, <1>5, <2>1, GotoStep
<1>6. {"EVAL", "POP", "STORE", "LOAD", "LOAD_CONST", "MAKE_FUNCTION", "GET_ITER", "FOR_EACH",
       "JMP_IF_FALSE", "CATCH"} \subseteq Onwards
  BY DEF Onwards, Ops
<1>7. {"FOR_EACH", "JMP", "JMP_IF_FALSE", "CATCH"} \subseteq Jumps
  BY DEF Jumps
<1>8. CASE Eval
  <2>1. Instr.op = "EVAL" /\ Goto(Top.sp + 1, Top.ip + 1) /\ Same /\ phase' = phase
    BY <1>8 DEF Eval, PushTo
  <2> QED
    BY <1>2, <1>4, <1>5, <1>6, <2>1
<1>9. CASE Pop
  <2>1. Instr.op \in {"POP", "STORE"} /\ Goto(Top.sp - 1, Top.ip + 1) /\ Same /\ phase' = phase
    BY <1>9 DEF Pop, PopTo
  <2> QED
    BY <1>2, <1>4, <1>5, <1>6, <2>1
<1>10. CASE Load
  <2>1. Instr.op \in {"LOAD", "LOAD_CONST"} /\ Goto(Top.sp + 1, Top.ip + 1) /\ Same /\ phase' = phase
    BY <1>10 DEF Load, PushTo
  <2> QED
    BY <1>2, <1>4, <1>5, <1>6, <2>1
<1>11. CASE MakeFunction
  <2>1. /\ Instr.op = "MAKE_FUNCTION" /\ Goto(Top.sp, Top.ip + 1) /\ phase' = phase
        /\ defined' = defined \cup {codes[Top.co].code[Top.ip - 1].arg}
        /\ UNCHANGED <<compilerVars, used, exc, stackTop>>
    BY <1>11 DEF MakeFunction, PopTo
  <2>2. codes[Top.co].code[Top.ip - 1].arg \in DOMAIN codes
    BY <1>1, <1>3, <2>1 DEF Running, Ready, PromisedAt, OpAt
  <2>3. defined \subseteq DOMAIN codes
    BY <1>1 DEF MachineInv, FramesOK
  <2>4. CodeStays /\ TopsStay /\ KeepsOn
    BY <2>1, <2>2, <2>3 DEF CodeStays, TopsStay, KeepsOn, compilerVars
  <2>5. Reaches(Top, Top.ip + 1)
    BY <1>4, <1>6, <2>1
  <2> QED
    BY <1>1, <1>2, <2>1, <2>4, <2>5, GotoStep
<1>12. CASE Jump
  <2>1. Instr.op = "JMP" /\ Goto(Top.sp, Instr.arg) /\ Same /\ phase' = phase
    BY <1>12 DEF Jump, PopTo
  <2> QED
    BY <1>2, <1>4, <1>5, <1>7, <2>1
<1>13. CASE JumpIfFalse
  <2>1. PICK ip \in {Top.ip + 1, Instr.arg} :
          Instr.op = "JMP_IF_FALSE" /\ Goto(Top.sp - 1, ip) /\ Same /\ phase' = phase
    BY <1>13 DEF JumpIfFalse, PopTo
  <2>2. Reaches(Top, ip)
    BY <1>4, <1>6, <1>7, <2>1
  <2> QED
    BY <1>2, <1>5, <2>1, <2>2
<1>14. CASE GetIter
  <2>1. Instr.op = "GET_ITER" /\ Goto(Top.sp, Top.ip + 1) /\ Same /\ phase' = phase
    BY <1>14 DEF GetIter
  <2> QED
    BY <1>2, <1>4, <1>5, <1>6, <2>1
<1>15. CASE ForEach
  <2>1. /\ Instr.op = "FOR_EACH" /\ Same /\ phase' = phase
        /\ Goto(Top.sp + 1, Top.ip + 1) \/ Goto(Top.sp - 1, Instr.arg)
    BY <1>15 DEF ForEach, PushTo, PopTo
  <2> QED
    BY <1>2, <1>4, <1>5, <1>6, <1>7, <2>1
<1>16. CASE CatchDoesNot
  <2>1. Instr.op = "CATCH" /\ Goto(Top.sp, Instr.arg) /\ Same /\ phase' = phase
    BY <1>16 DEF CatchDoesNot, PopTo
  <2> QED
    BY <1>2, <1>4, <1>5, <1>7, <2>1
<1> QED
  BY <1>8, <1>9, <1>10, <1>11, <1>12, <1>13, <1>14, <1>15, <1>16

\* An instruction in a row that has nothing to do with try statements.
LEMMA RowStep ==
  ASSUME CodeInv, BlockInv, MachineInv, Straight, phase = "run", Same, phase' = phase,
         OpAt(Top) \in Onwards, NEW sp \in Int, NEW bound \in SUBSET Nat,
         SetTop([Top EXCEPT !.sp = sp, !.ip = @ + 1, !.bound = bound])
  PROVE  MachineInv' /\ EntriesKept
<1>1. PICK f, f2, ip :
        f = Top /\ ip = f.ip + 1 /\ f2 = [f EXCEPT !.sp = sp, !.ip = ip, !.bound = bound]
  OBVIOUS
<1>2. Running(f) /\ Reaches(f, ip)
  BY <1>1, Runs DEF Reaches
<1>3. SetTop(f2)
  BY <1>1
<1>4. f \in Frame /\ ip \in Nat /\ f.tries \in Seq(Entry)
  BY <1>1, <1>2 DEF Running, Frame
<1>5. f2 \in Frame /\ f2.co = f.co /\ f2.ip = ip /\ f2.tries = f.tries
  BY <1>1, <1>4 DEF Frame
<1>6. SeenAt(codes[f.co].handlers, f.tries, ip, exc) = f.tries
  <2>1. PICK code, hs, a, tries :
          code = codes[f.co].code /\ hs = codes[f.co].handlers /\ a = f.ip /\ tries = f.tries
    OBVIOUS
  <2>2. /\ Sound(code, hs) /\ a \in DOMAIN code /\ HistoryAt(hs, a, FALSE, tries)
        /\ code[a].op \notin {"RETURN", "JMP", "TRY", "END_TRY"}
    <3>1. Sound(code, hs) /\ a \in DOMAIN code
      BY <1>2, <2>1 DEF Running
    <3>2. HistoryAt(hs, a, FALSE, tries)
      BY <1>2, <2>1 DEF Running, FrameOK
    <3>3. code[a].op \notin {"RETURN", "JMP", "TRY", "END_TRY"}
      BY <1>1, <2>1 DEF OpAt, Onwards
    <3> QED
      BY <3>1, <3>2, <3>3
  <2>3. \A h \in DOMAIN hs : hs[h].finally # a + 1
    BY <2>2, HistoryOnward
  <2>4. tries # <<>> => tries[Len(tries)].h \in DOMAIN hs
    <3>1. hs \in Seq(Handler)
      BY <2>2 DEF Sound
    <3> QED
      BY <2>2, <3>1, LastInnermost DEF AroundAt
  <2>5. ~Enters(hs, tries, a + 1)
    BY <2>3, <2>4 DEF Enters
  <2> QED
    BY <1>1, <2>1, <2>5 DEF SeenAt
<1>7. GoesTo(f, f2, ip)
  BY <1>5, <1>6 DEF GoesTo
<1>8. CodeStays /\ TopsStay /\ KeepsOn
  BY SameStays DEF KeepsOn
<1> QED
  BY <1>2, <1>3, <1>7, <1>8, GoesOn

\* A variable of a catch block is set or deleted.
LEMMA VariableSteps ==
  ASSUME CodeInv, BlockInv, MachineInv, Straight, Store \/ Delete
  PROVE  MachineInv' /\ EntriesKept
<1> USE DEF Executing
<1>1. /\ phase = "run" /\ Same /\ phase' = phase /\ OpAt(Top) \in Onwards
  BY DEF Store, Delete, OpAt, Instr, Onwards, Ops
<1>2. Top \in Frame /\ Top.sp \in Int /\ Top.sp - 1 \in Int /\ Top.bound \in SUBSET Nat
  BY <1>1, Runs DEF Running, Frame
<1>3. CASE Store
  <2>1. Instr.arg \in Nat
    <3>1. codes[Top.co].code \in Seq(Instruction) /\ Top.ip \in DOMAIN codes[Top.co].code
      BY <1>1, Runs DEF Running, Sound
    <3>2. Instr \in Instruction
      BY <3>1 DEF Instr
    <3> QED
      BY <3>2 DEF Instruction
  <2>2. Top.bound \cup {Instr.arg} \in SUBSET Nat
    BY <1>2, <2>1
  <2>3. SetTop([Top EXCEPT !.sp = Top.sp - 1, !.ip = @ + 1, !.bound = Top.bound \cup {Instr.arg}])
    BY <1>3 DEF Store
  <2> QED
    BY <1>1, <1>2, <2>2, <2>3, RowStep
<1>4. CASE Delete
  <2>1. Top.bound \ {Instr.arg} \in SUBSET Nat
    BY <1>2
  <2>2. [Top EXCEPT !.ip = @ + 1, !.bound = @ \ {Instr.arg}] =
          [Top EXCEPT !.sp = Top.sp, !.ip = @ + 1, !.bound = Top.bound \ {Instr.arg}]
    BY <1>2 DEF Frame
  <2>3. SetTop([Top EXCEPT !.sp = Top.sp, !.ip = @ + 1, !.bound = Top.bound \ {Instr.arg}])
    BY <1>4, <2>2 DEF Delete
  <2> QED
    BY <1>1, <1>2, <2>1, <2>3, RowStep
<1> QED
  BY <1>3, <1>4

\* They fail.
LEMMA Failing ==
  ASSUME CodeInv, BlockInv, MachineInv, Straight,
         EvalFails \/ DeleteFails \/ JumpIfFalseFails \/ GetIterFails \/ ForEachFails \/ RaiseException
  PROVE  MachineInv' /\ EntriesKept
<1> USE DEF Executing
<1>1. phase = "run" /\ Running(Top) /\ OpAt(Top) \in Onwards
  <2>1. phase = "run" /\ OpAt(Top) \in Onwards
    BY DEF EvalFails, DeleteFails, JumpIfFalseFails, GetIterFails, ForEachFails, RaiseException,
       OpAt, Instr, Onwards, Ops
  <2> QED
    BY <2>1, Runs
<1>2. Top \in Frame /\ Top.sp \in Int /\ Top.sp - 1 \in Int
  BY <1>1 DEF Running, Frame
<1>3. PICK sp \in Int :
        /\ SetTop([Top EXCEPT !.sp = sp]) /\ phase' = "error"
        /\ UNCHANGED <<compilerVars, used, stackTop, defined>>
        /\ exc' \in Types \/ (exc' = exc /\ exc # NoException)
  BY <1>2 DEF EvalFails, DeleteFails, JumpIfFalseFails, GetIterFails, ForEachFails,
     RaiseException, Fail
<1>4. CodeStays /\ TopsStay
  BY <1>1, <1>3 DEF CodeStays, TopsStay, MachineInv, FramesOK, compilerVars
<1>5. Raises
  BY <1>1, <1>3, ProgramAssumption DEF Raises, Running, NoException
<1>6. PICK f, f2 : f = Top /\ f2 = [f EXCEPT !.sp = sp]
  OBVIOUS
<1>7. FailsIn(f, f2)
  BY <1>2, <1>6 DEF FailsIn, Frame
<1>8. SetTop(f2) /\ Running(f) /\ OpAt(f) \in Onwards
  BY <1>1, <1>3, <1>6
<1> QED
  BY <1>4, <1>5, <1>7, <1>8, FailsAt

\* The name of a catch block's type is not defined.
LEMMA LoadFailing ==
  ASSUME CodeInv, BlockInv, MachineInv, Straight, LoadFails
  PROVE  MachineInv' /\ EntriesKept
<1> USE DEF Executing
<1>1. phase = "run" /\ Running(Top) /\ OpAt(Top) \in Onwards
  <2>1. phase = "run" /\ OpAt(Top) \in Onwards
    BY DEF LoadFails, OpAt, Instr, Onwards, Ops
  <2> QED
    BY <2>1, Runs
<1>2. CodeStays /\ TopsStay /\ Raises
  BY <1>1, ProgramAssumption DEF LoadFails, CodeStays, TopsStay, MachineInv, FramesOK, compilerVars,
     Raises, NoException
<1>3. PICK f, tries, n, tries2, f2 :
        /\ f = Top /\ tries = f.tries /\ n = Len(tries)
        /\ tries2 = [tries EXCEPT ![n].lost = TRUE] /\ f2 = [f EXCEPT !.tries = tries2]
  OBVIOUS
<1>4. f \in Frame /\ tries \in Seq(Entry)
  BY <1>1, <1>3 DEF Running, Frame
<1>5. /\ tries2 \in Seq(Entry) /\ DOMAIN tries2 = DOMAIN tries
      /\ \A k \in DOMAIN tries :
           /\ tries2[k].h = tries[k].h /\ tries2[k].sp = tries[k].sp
           /\ tries2[k].caught = tries[k].caught /\ tries2[k].finally = tries[k].finally
           /\ tries2[k].pending = tries[k].pending
  <2>1. CASE tries = <<>>
    <3>1. n = 0 /\ DOMAIN tries = {} /\ DOMAIN tries2 = {}
      BY <1>3, <2>1
    <3>2. tries2 = <<>>
      BY <1>3, <2>1, <3>1
    <3> QED
      BY <3>1, <3>2
  <2>2. CASE tries # <<>>
    <3>1. PICK e, e2 : e = tries[n] /\ e2 = [e EXCEPT !.lost = TRUE]
      OBVIOUS
    <3>2. n \in DOMAIN tries
      BY <1>3, <1>4, <2>2, EmptySeq
    <3>3. e \in Entry
      BY <1>4, <3>1, <3>2
    <3>4. /\ e2 \in Entry /\ e2.h = e.h /\ e2.sp = e.sp /\ e2.caught = e.caught
          /\ e2.finally = e.finally /\ e2.pending = e.pending
      BY <3>1, <3>3 DEF Entry
    <3>5. tries2 = [tries EXCEPT ![Len(tries)] = e2]
      BY <1>3, <3>1
    <3>6. /\ tries2 \in Seq(Entry) /\ DOMAIN tries2 = DOMAIN tries
          /\ tries2[n] = e2 /\ \A k \in DOMAIN tries : k # n => tries2[k] = tries[k]
      BY <1>3, <1>4, <2>2, <3>4, <3>5, LastReplaced
    <3> QED
      BY <3>1, <3>4, <3>6
  <2> QED
    BY <2>1, <2>2
<1>6. f2 \in Frame /\ f2.co = f.co /\ f2.ip = f.ip /\ f2.tries = tries2
  BY <1>3, <1>4, <1>5 DEF Frame
<1>7. FailsIn(f, f2)
  BY <1>3, <1>5, <1>6 DEF FailsIn
<1>8. SetTop(f2)
  <2>1. SetTop([Top EXCEPT !.tries[Len(Top.tries)].lost = TRUE])
    BY DEF LoadFails
  <2>2. [Top EXCEPT !.tries[Len(Top.tries)].lost = TRUE] = f2
    BY <1>3
  <2> QED
    BY <2>1, <2>2
<1>9. Running(f) /\ OpAt(f) \in Onwards
  BY <1>1, <1>3
<1> QED
  BY <1>2, <1>7, <1>8, <1>9, FailsAt

\* A catch block takes the exception.
LEMMA Catching ==
  ASSUME CodeInv, BlockInv, MachineInv, Straight, CatchMatches
  PROVE  MachineInv' /\ EntriesKept
<1> USE DEF Executing
<1>1. phase = "run" /\ OpAt(Top) = "CATCH" /\ phase' = phase /\ exc' = NoException
  BY DEF CatchMatches, OpAt, Instr
<1>2. Running(Top)
  BY <1>1, Runs
<1>3. CodeStays /\ TopsStay
  BY <1>1 DEF CatchMatches, CodeStays, TopsStay, MachineInv, FramesOK, compilerVars
<1>4. PICK f, code, hs, a, b, tries, n, e, e2, tries2, f2 :
        /\ f = Top /\ tries = f.tries /\ n = Len(tries) /\ e = tries[n]
        /\ code = codes[f.co].code /\ hs = codes[f.co].handlers /\ a = f.ip /\ b = a + 1
        /\ e2 = [e EXCEPT !.caught = TRUE]
        /\ tries2 = [tries EXCEPT ![n] = e2]
        /\ f2 = [f EXCEPT !.sp = @ + 1, !.ip = b, !.tries = tries2]
  OBVIOUS
<1>5. /\ f \in Frame /\ tries \in Seq(Entry) /\ a \in Nat /\ f.co \in DOMAIN codes
      /\ Sound(code, hs) /\ a \in DOMAIN code /\ code[a].op = "CATCH" /\ hs \in Seq(Handler)
  <2>1. f \in Frame /\ f.co \in DOMAIN codes
    BY <1>2, <1>4 DEF Running
  <2>2. Sound(code, hs) /\ a \in DOMAIN code
    BY <1>2, <1>4 DEF Running
  <2>3. tries \in Seq(Entry) /\ a \in Nat
    BY <1>4, <2>1 DEF Frame
  <2>4. code[a].op = "CATCH" /\ hs \in Seq(Handler)
    BY <1>1, <1>4, <2>2 DEF OpAt, Sound
  <2> QED
    BY <2>1, <2>2, <2>3, <2>4
<1>6. HistoryAt(hs, a, FALSE, tries)
  BY <1>2, <1>4 DEF Running, FrameOK
<1>7. PICK g \in DOMAIN hs :
        Part(hs[g], a) = 2 /\ \A h \in DOMAIN hs : Part(hs[h], a) # 0 => hs[h].start <= hs[g].start
  <2>1. PromisedAt(code, hs, DOMAIN codes, a)
    BY <1>2, <1>4, <1>5 DEF Running, Ready
  <2> QED
    BY <1>5, <2>1 DEF PromisedAt
<1>8. ASSUME NEW h \in DOMAIN hs, Part(hs[h], a) # 0, h # g
      PROVE  g < h /\ Part(hs[h], hs[g].start) = Part(hs[h], a)
  <2>1. hs[h].start <= hs[g].start /\ hs[h].start \in Nat /\ hs[g].start \in Nat /\ g \in Nat /\ h \in Nat
    BY <1>5, <1>7, <1>8, Parts
  <2>2. hs[g].start <= a /\ a <= hs[g].end /\ hs[h].start <= a /\ a <= hs[h].end
    BY <1>5, <1>7, <1>8, Parts
  <2>3. ASSUME h < g PROVE FALSE
    <3>1. hs[g].start < hs[h].start
      BY <1>5, <1>7, <1>8, <2>2, <2>3, Nested
    <3> QED
      BY <2>1, <3>1
  <2>4. g < h
    BY <1>8, <2>1, <2>3
  <2> QED
    BY <1>5, <1>7, <1>8, <2>2, <2>4, Nested
<1>9. tries # <<>> /\ e.h = g
  <2>1. g \in AroundAt(hs, a, FALSE)
    BY <1>7 DEF AroundAt
  <2>2. \A h \in AroundAt(hs, a, FALSE) : g <= h
    BY <1>5, <1>8 DEF AroundAt
  <2>3. hs \in Seq(Handler)
    BY <1>5
  <2>4. tries # <<>> /\ tries[Len(tries)].h = g
    BY <1>6, <2>1, <2>2, <2>3, InnermostLast
  <2>5. e = tries[Len(tries)]
    BY <1>4
  <2> QED
    BY <2>4, <2>5
<1>10. n \in DOMAIN tries /\ e \in Entry /\ EntryOK(e, 2)
  <2>1. n \in DOMAIN tries
    BY <1>4, <1>5, <1>9, EmptySeq
  <2>2. tries[n] \in Entry /\ EntryOK(tries[n], Part(hs[tries[n].h], a))
    <3>1. tries[n] \in Entry
      BY <1>5, <2>1
    <3>2. EntryOK(tries[n], Part(hs[tries[n].h], a))
      BY <1>6, <2>1 DEF HistoryAt
    <3> QED
      BY <3>1, <3>2
  <2>3. tries[n] = e /\ e.h = g /\ Part(hs[g], a) = 2
    BY <1>4, <1>7, <1>9
  <2> QED
    BY <2>1, <2>2, <2>3
<1>11. /\ e2 \in Entry /\ e2.h = e.h /\ e2.sp = e.sp /\ e2.finally = e.finally
       /\ e2.pending = e.pending /\ EntryOK(e2, 2)
  <2>1. /\ e2 \in Entry /\ e2.h = e.h /\ e2.sp = e.sp /\ e2.finally = e.finally
        /\ e2.pending = e.pending
    <3>1. e2 = [e EXCEPT !.caught = TRUE] /\ e \in Entry
      BY <1>4, <1>10
    <3> QED
      BY <3>1 DEF Entry
  <2> QED
    BY <1>10, <2>1 DEF EntryOK
<1>12. /\ tries2 \in Seq(Entry) /\ DOMAIN tries2 = DOMAIN tries
       /\ tries2[n] = e2 /\ \A k \in DOMAIN tries : k # n => tries2[k] = tries[k]
  BY <1>4, <1>5, <1>9, <1>11, LastReplaced
<1>13. HistoryAt(hs, a, FALSE, tries2)
  <2>1. ASSUME NEW k \in DOMAIN tries
        PROVE  tries2[k].h = tries[k].h /\ EntryOK(tries2[k], Part(hs[tries[k].h], a))
    <3>1. CASE k = n
      BY <1>4, <1>7, <1>9, <1>11, <1>12, <3>1
    <3>2. CASE k # n
      BY <1>6, <1>12, <3>2 DEF HistoryAt
    <3> QED
      BY <3>1, <3>2
  <2>2. tries2 \in Seq(Entry) /\ DOMAIN tries2 = DOMAIN tries
    BY <1>12
  <2> QED
    BY <1>6, <2>1, <2>2, HistoryMoves
<1>14. HistoryAt(hs, b, FALSE, tries2) /\ b \in DOMAIN code
  <2>1. code[a].op \notin {"RETURN", "JMP", "TRY", "END_TRY"}
    BY <1>5
  <2>2. HistoryAt(hs, a + 1, FALSE, tries2) /\ a + 1 \in DOMAIN code
    BY <1>5, <1>13, <2>1, HistoryOnward
  <2> QED
    BY <1>4, <2>2
<1>15. f2 \in Frame /\ f2.co = f.co /\ f2.ip = b /\ f2.tries = tries2
  <2>1. b \in Nat
    BY <1>4, <1>5
  <2>2. PICK sp : sp = f.sp + 1
    OBVIOUS
  <2>3. /\ f2 = [f EXCEPT !.sp = sp, !.ip = b, !.tries = tries2] /\ f \in Frame
        /\ tries2 \in Seq(Entry)
    BY <1>4, <1>5, <1>12, <2>2
  <2>4. sp \in Int
    BY <2>2, <2>3 DEF Frame
  <2> QED
    BY <2>1, <2>3, <2>4 DEF Frame
<1>16. SetTop(f2)
  <2>1. SetTop([Top EXCEPT !.sp = @ + 1, !.ip = @ + 1, !.tries[Len(Top.tries)].caught = TRUE])
    BY DEF CatchMatches
  <2>2. [Top EXCEPT !.sp = @ + 1, !.ip = @ + 1, !.tries[Len(Top.tries)].caught = TRUE] = f2
    BY <1>4
  <2> QED
    BY <2>1, <2>2
<1>17. Moved(f, f2)
  <2>1. FrameOK(f2, FALSE)
    BY <1>4, <1>5, <1>14, <1>15 DEF FrameOK
  <2>2. exc' \in Nat
    BY <1>1 DEF NoException
  <2> QED
    BY <1>1, <1>15, <1>16, <2>1, <2>2 DEF Moved
<1>18. PendingGoes(f, f2)
  BY <1>1 DEF PendingGoes
<1>19. PendingStays(f2)
  <2>1. SUFFICES ASSUME "tryInFinally" \notin used, NEW k \in DOMAIN tries
                 PROVE  tries2[k].pending = NoException
    BY <1>12, <1>15 DEF PendingStays, PendingLeft
  <2>2. tries2[k].pending = tries[k].pending
    BY <1>4, <1>11, <1>12
  <2>3. tries[k].h \in AroundAt(hs, a, FALSE) /\ EntryOK(tries[k], Part(hs[tries[k].h], a))
    BY <1>6 DEF HistoryAt
  <2>4. Part(hs[tries[k].h], a) # 3
    <3>1. PICK h : h = tries[k].h
      OBVIOUS
    <3>2. h \in DOMAIN hs /\ Part(hs[h], a) # 0
      BY <2>3, <3>1 DEF AroundAt
    <3>3. \A i, j \in DOMAIN hs : Part(hs[j], hs[i].start) # 3
      BY <1>2, <1>4, <2>1 DEF Running, Ready
    <3>4. CASE h = g
      BY <1>7, <3>1, <3>4
    <3>5. CASE h # g
      BY <1>7, <1>8, <3>1, <3>2, <3>3, <3>5
    <3> QED
      BY <3>4, <3>5
  <2> QED
    BY <2>2, <2>3, <2>4 DEF EntryOK
<1>20. KeepsEntries(f, f2)
  <2>1. \A k \in DOMAIN tries : tries2[k].h = tries[k].h /\ tries2[k].sp = tries[k].sp
    BY <1>4, <1>11, <1>12
  <2> QED
    BY <1>4, <1>12, <1>15, <2>1 DEF KeepsEntries
<1>21. IsTop(f) /\ f.co \in DOMAIN codes /\ phase # "compile" /\ phase \in {"run", "error"}
  BY <1>1, <1>2, <1>4, <1>5 DEF Running
<1>22. TopsWritten(f, f2) /\ FrameKept(f, f2)
  BY <1>3, <1>20, <1>21, EntriesSame
<1> QED
  BY <1>3, <1>17, <1>18, <1>19, <1>21, <1>22, TopMoves

WritesTop(c, h, v) == stackTop' = [stackTop EXCEPT ![c][h] = v]
TopWritten(c, h, v) ==
  /\ DOMAIN stackTop' = DOMAIN stackTop
  /\ stackTop'[c] \in [DOMAIN codes[c].handlers -> Int]
  /\ \A o \in DOMAIN codes : o # c => stackTop'[o] = stackTop[o]
  /\ stackTop'[c][h] = v
  /\ \A g \in DOMAIN codes[c].handlers : g # h => stackTop'[c][g] = stackTop[c][g]

\* TRY and END_TRY write one stackTop.
LEMMA TopWrites ==
  ASSUME StackTops, NEW c \in DOMAIN codes, NEW h \in DOMAIN codes[c].handlers, NEW v \in Int,
         WritesTop(c, h, v)
  PROVE  TopWritten(c, h, v)
<1>1. PICK s, s2, D, H, t, t2 :
        /\ s = stackTop /\ s2 = stackTop' /\ D = DOMAIN codes /\ H = DOMAIN codes[c].handlers
        /\ t = s[c] /\ t2 = [t EXCEPT ![h] = v]
  OBVIOUS
<1>2. DOMAIN s = D /\ t \in [H -> Int] /\ c \in D /\ h \in H
  BY <1>1 DEF StackTops
<1>3. s2 = [s EXCEPT ![c] = t2]
  BY <1>1 DEF WritesTop
<1>4. t2 \in [H -> Int] /\ t2[h] = v /\ \A g \in H : g # h => t2[g] = t[g]
  <2>1. t2 = [t EXCEPT ![h] = v]
    BY <1>1
  <2> QED
    BY <1>2, <2>1
<1>5. DOMAIN s2 = D /\ s2[c] = t2 /\ \A o \in D : o # c => s2[o] = s[o]
  BY <1>2, <1>3
<1> QED
  BY <1>1, <1>2, <1>4, <1>5 DEF TopWritten

\* A try statement begins.
LEMMA Entering ==
  ASSUME CodeInv, BlockInv, MachineInv, Straight, EnterTry
  PROVE  MachineInv' /\ EntriesKept
<1> USE DEF Executing
<1>1. phase = "run" /\ OpAt(Top) = "TRY" /\ phase' = phase /\ exc' = exc
  BY DEF EnterTry, OpAt, Instr
<1>2. Running(Top) /\ StackTops
  BY <1>1, Runs DEF MachineInv
<1>3. CodeStays
  BY <1>1 DEF EnterTry, CodeStays, MachineInv, FramesOK, compilerVars
<1>4. PICK f, code, hs, a, b, tries, h, e, tries2, f2 :
        /\ f = Top /\ tries = f.tries
        /\ code = codes[f.co].code /\ hs = codes[f.co].handlers /\ a = f.ip /\ b = a + 1
        /\ h = StartingAt(a) /\ e = Try(h, f.sp) /\ tries2 = Append(tries, e)
        /\ f2 = [f EXCEPT !.ip = b, !.tries = tries2]
  OBVIOUS
<1>5. /\ f \in Frame /\ tries \in Seq(Entry) /\ a \in Nat /\ f.co \in DOMAIN codes /\ f.sp \in Int
      /\ Sound(code, hs) /\ a \in DOMAIN code /\ code[a].op = "TRY"
  <2>1. f \in Frame /\ f.co \in DOMAIN codes
    BY <1>2, <1>4 DEF Running
  <2>2. Sound(code, hs) /\ a \in DOMAIN code
    BY <1>2, <1>4 DEF Running
  <2>3. tries \in Seq(Entry) /\ a \in Nat /\ f.sp \in Int
    BY <1>4, <2>1 DEF Frame
  <2>4. code[a].op = "TRY"
    BY <1>1, <1>4 DEF OpAt
  <2> QED
    BY <2>1, <2>2, <2>3, <2>4
<1>6. HistoryAt(hs, a, FALSE, tries)
  BY <1>2, <1>4 DEF Running, FrameOK
<1>7. h \in DOMAIN hs /\ StartsAt(hs, h, a)
  <2>1. PromisedAt(code, hs, DOMAIN codes, a)
    BY <1>2, <1>4, <1>5 DEF Running, Ready
  <2>2. \E g \in DOMAIN hs : hs[g].start = a
    BY <1>5, <2>1 DEF PromisedAt
  <2>3. h = CHOOSE g \in DOMAIN hs : hs[g].start = a
    BY <1>4 DEF StartingAt, Handlers
  <2>4. h \in DOMAIN hs /\ hs[h].start = a
    BY <2>2, <2>3
  <2> QED
    BY <2>4 DEF StartsAt
<1>8. /\ Outside(tries, h) = tries /\ e \in Entry
      /\ HistoryAt(hs, b, FALSE, tries2) /\ b \in DOMAIN code
  <2>1. PICK sp : sp = f.sp
    OBVIOUS
  <2>2. sp \in Int
    BY <1>5, <2>1
  <2>3. /\ Outside(tries, h) = tries /\ Try(h, sp) \in Entry
        /\ HistoryAt(hs, a + 1, FALSE, Append(tries, Try(h, sp)))
    BY <1>5, <1>6, <1>7, <2>2, HistoryBegins
  <2>4. e = Try(h, sp) /\ tries2 = Append(tries, Try(h, sp)) /\ b = a + 1
    BY <1>4, <2>1
  <2>5. b \in DOMAIN code
    BY <1>5, <2>4, Onward
  <2> QED
    BY <2>3, <2>4, <2>5
<1>9. PICK m : m = Len(tries) + 1
  OBVIOUS
<1>10. /\ tries2 \in Seq(Entry) /\ DOMAIN tries2 = DOMAIN tries \cup {m} /\ m \notin DOMAIN tries
       /\ tries2[m] = e /\ \A k \in DOMAIN tries : tries2[k] = tries[k]
  <2>1. tries2 = Append(tries, e)
    BY <1>4
  <2> QED
    BY <1>5, <1>8, <1>9, <2>1
<1>11. e.h = h /\ e.sp = f.sp /\ e.pending = NoException
  BY <1>4 DEF Try
<1>12. f2 \in Frame /\ f2.co = f.co /\ f2.ip = b /\ f2.tries = tries2
  <2>1. b \in Nat
    BY <1>4, <1>5
  <2>2. f2 = [f EXCEPT !.ip = b, !.tries = tries2] /\ f \in Frame /\ tries2 \in Seq(Entry)
    BY <1>4, <1>5, <1>10
  <2> QED
    BY <2>1, <2>2 DEF Frame
<1>13. SetTop(f2) /\ WritesTop(f.co, h, f.sp)
  <2>1. /\ SetTop([Top EXCEPT !.ip = @ + 1,
                              !.tries = Append(Outside(@, StartingAt(Top.ip)),
                                               Try(StartingAt(Top.ip), Top.sp))])
        /\ stackTop' = [stackTop EXCEPT ![Top.co][StartingAt(Top.ip)] = Top.sp]
    BY DEF EnterTry
  <2>2. Outside(f.tries, StartingAt(f.ip)) = f.tries
    BY <1>4, <1>8
  <2>3. [f EXCEPT !.ip = @ + 1,
                  !.tries = Append(Outside(@, StartingAt(f.ip)), Try(StartingAt(f.ip), f.sp))] = f2
    BY <1>4, <2>2
  <2> QED
    BY <1>4, <2>1, <2>3 DEF WritesTop
<1>14. TopWritten(f.co, h, f.sp)
  BY <1>2, <1>4, <1>5, <1>7, <1>13, TopWrites
<1>15. Moved(f, f2)
  <2>1. FrameOK(f2, FALSE)
    BY <1>4, <1>5, <1>8, <1>12 DEF FrameOK
  <2>2. exc' \in Nat
    BY <1>1, <1>2 DEF Running
  <2> QED
    BY <1>1, <1>12, <1>13, <2>1, <2>2 DEF Moved
<1>16. PendingGoes(f, f2)
  <2>1. FramePending(f) => FramePending(f2)
    BY <1>4, <1>10, <1>12 DEF FramePending
  <2>2. OpAt(f) # "END_TRY"
    BY <1>1, <1>4
  <2> QED
    BY <1>1, <2>1, <2>2 DEF PendingGoes
<1>17. PendingStays(f2)
  <2>1. SUFFICES ASSUME "tryInFinally" \notin used, exc = NoException PROVE PendingLeft(f2)
    BY <1>1 DEF PendingStays
  <2>2. PendingLeft(f)
    BY <1>1, <1>2, <1>4, <2>1 DEF MachineInv, NoTryInFinally, Running, IsTop, Top
  <2> QED
    BY <1>4, <1>10, <1>11, <1>12, <2>2 DEF PendingLeft
<1>18. IsTop(f) /\ phase \in {"run", "error"}
  BY <1>1, <1>2, <1>4 DEF Running
<1>19. TopsWritten(f, f2)
  <2>1. SUFFICES ASSUME "recursiveTry" \notin used PROVE TopsOf(f2)'
    BY <1>14 DEF TopsWritten, TopWritten
  <2>2. TopsOf(f)
    <3>1. f = frames[Len(frames)] /\ Len(frames) \in DOMAIN frames
      <4>1. frames \in Seq(Frame)
        BY <1>1 DEF MachineInv, FramesOK
      <4>2. frames # <<>> /\ f = frames[Len(frames)]
        BY <1>18 DEF IsTop, Top
      <4> QED
        BY <4>1, <4>2, EmptySeq
    <3> QED
      BY <1>2, <2>1, <3>1 DEF StackTops
  <2>3. ASSUME NEW k \in DOMAIN tries PROVE stackTop'[f.co][tries[k].h] = tries[k].sp
    <3>1. tries[k].h # h /\ tries[k].h \in DOMAIN hs
      <4>1. h \notin AroundAt(hs, a, FALSE)
        BY <1>5, <1>7, Begins DEF BegunBy
      <4>2. tries[k].h \in AroundAt(hs, a, FALSE)
        BY <1>6 DEF HistoryAt
      <4> QED
        BY <4>1, <4>2 DEF AroundAt
    <3>2. stackTop[f.co][tries[k].h] = tries[k].sp
      BY <1>4, <2>2 DEF TopsOf
    <3> QED
      BY <1>4, <1>14, <3>1, <3>2 DEF TopWritten
  <2>4. stackTop'[f.co][h] = f.sp
    BY <1>14 DEF TopWritten
  <2>5. \A k \in DOMAIN tries2 : stackTop'[f.co][tries2[k].h] = tries2[k].sp
    BY <1>10, <1>11, <2>3, <2>4
  <2> QED
    BY <1>12, <2>5 DEF TopsOf
<1>20. FrameKept(f, f2)
  BY <1>4, <1>10, <1>12 DEF FrameKept
<1> QED
  BY <1>3, <1>15, <1>16, <1>17, <1>18, <1>19, <1>20, TopMoves

\* A try statement ends, and the exception it left pending goes on.
LEMMA Leaving ==
  ASSUME CodeInv, BlockInv, MachineInv, Straight, LeaveTry
  PROVE  MachineInv' /\ EntriesKept
<1> USE DEF Executing
<1>1. phase = "run" /\ OpAt(Top) = "END_TRY" /\ exc' = exc
  BY DEF LeaveTry, OpAt, Instr
<1>2. Running(Top) /\ StackTops
  BY <1>1, Runs DEF MachineInv
<1>3. CodeStays
  BY <1>1 DEF LeaveTry, CodeStays, MachineInv, FramesOK, compilerVars
<1>4. PICK f, code, hs, a, b, tries, h, sp, tries2, f2 :
        /\ f = Top /\ tries = f.tries
        /\ code = codes[f.co].code /\ hs = codes[f.co].handlers /\ a = f.ip
        /\ b = IF exc = NoException THEN a + 1 ELSE a
        /\ h = EndingAt(a) /\ sp = stackTop[f.co][h] /\ tries2 = Outside(tries, h)
        /\ f2 = [f EXCEPT !.sp = sp, !.tries = tries2, !.ip = b]
  OBVIOUS
<1>5. /\ f \in Frame /\ tries \in Seq(Entry) /\ a \in Nat /\ f.co \in DOMAIN codes
      /\ Sound(code, hs) /\ a \in DOMAIN code /\ code[a].op = "END_TRY" /\ hs \in Seq(Handler)
  <2>1. f \in Frame /\ f.co \in DOMAIN codes
    BY <1>2, <1>4 DEF Running
  <2>2. Sound(code, hs) /\ a \in DOMAIN code
    BY <1>2, <1>4 DEF Running
  <2>3. tries \in Seq(Entry) /\ a \in Nat
    BY <1>4, <2>1 DEF Frame
  <2>4. code[a].op = "END_TRY" /\ hs \in Seq(Handler)
    BY <1>1, <1>4, <2>2 DEF OpAt, Sound
  <2> QED
    BY <2>1, <2>2, <2>3, <2>4
<1>6. HistoryAt(hs, a, FALSE, tries)
  BY <1>2, <1>4 DEF Running, FrameOK
<1>7. h \in DOMAIN hs /\ EndsAt(hs, h, a) /\ hs[h].end = a
  <2>1. PromisedAt(code, hs, DOMAIN codes, a)
    BY <1>2, <1>4, <1>5 DEF Running, Ready
  <2>2. \E g \in DOMAIN hs : hs[g].end = a
    BY <1>5, <2>1 DEF PromisedAt
  <2>3. h = CHOOSE g \in DOMAIN hs : hs[g].end = a
    BY <1>4 DEF EndingAt, Handlers
  <2>4. h \in DOMAIN hs /\ hs[h].end = a
    BY <2>2, <2>3
  <2> QED
    BY <2>4 DEF EndsAt
<1>8. /\ tries # <<>> /\ tries[Len(tries)].h = h
      /\ HistoryAt(hs, a + 1, FALSE, tries2) /\ HistoryAt(hs, a, TRUE, tries2)
      /\ DOMAIN tries2 = DOMAIN tries \ {Len(tries)}
      /\ \A k \in DOMAIN tries2 : tries2[k] = tries[k]
  <2>1. EndedHistory(hs, h, a, a + 1, tries, Outside(tries, h))
    <3>1. h \in DOMAIN hs /\ EndsAt(hs, h, a) /\ Sound(code, hs)
      BY <1>5, <1>7
    <3> QED
      BY <1>6, <3>1, HistoryEnds
  <2>2. Outside(tries, h) = tries2
    BY <1>4
  <2>3. EndedHistory(hs, h, a, a + 1, tries, tries2)
    BY <2>1, <2>2
  <2> QED
    BY <2>3, Zenon DEF EndedHistory
<1>9. a + 1 \in DOMAIN code
  BY <1>5, Onward
<1>10. sp \in Int
  <2>1. stackTop[f.co] \in [DOMAIN hs -> Int]
    BY <1>2, <1>4, <1>5 DEF StackTops
  <2> QED
    BY <1>4, <1>7, <2>1
<1>11. f2 \in Frame /\ f2.co = f.co /\ f2.ip = b /\ f2.tries = tries2
  <2>1. b \in Nat
    BY <1>4, <1>5
  <2>2. tries2 \in Seq(Entry)
    BY <1>8 DEF HistoryAt
  <2>3. f2 = [f EXCEPT !.sp = sp, !.tries = tries2, !.ip = b] /\ f \in Frame
    BY <1>4, <1>5
  <2> QED
    BY <1>10, <2>1, <2>2, <2>3 DEF Frame
<1>12. SetTop(f2) /\ WritesTop(f.co, h, NullPtr)
  <2>1. /\ SetTop([Top EXCEPT !.sp = Restored(EndingAt(Top.ip)),
                              !.tries = Outside(@, EndingAt(Top.ip)),
                              !.ip = IF Resumes THEN @ + 1 ELSE @])
        /\ stackTop' = [stackTop EXCEPT ![Top.co][EndingAt(Top.ip)] = NullPtr]
    BY DEF LeaveTry
  <2>2. Restored(EndingAt(Top.ip)) = sp
    BY <1>4 DEF Restored
  <2>3. [Top EXCEPT !.sp = Restored(EndingAt(Top.ip)), !.tries = Outside(@, EndingAt(Top.ip)),
                    !.ip = IF Resumes THEN @ + 1 ELSE @] = f2
    BY <1>4, <2>2 DEF Resumes
  <2> QED
    BY <1>4, <2>1, <2>3 DEF WritesTop
<1>13. TopWritten(f.co, h, NullPtr)
  <2>1. NullPtr \in Int
    BY DEF NullPtr
  <2> QED
    BY <1>2, <1>4, <1>5, <1>7, <1>12, <2>1, TopWrites
<1>14. phase' = IF exc = NoException THEN "run" ELSE "error"
  BY DEF LeaveTry, Resumes
<1>15. Moved(f, f2)
  <2>1. exc' \in Nat
    BY <1>1, <1>2 DEF Running
  <2>2. CASE exc = NoException
    <3>1. FrameOK(f2, FALSE)
      BY <1>4, <1>5, <1>8, <1>9, <1>11, <2>2 DEF FrameOK
    <3> QED
      BY <1>11, <1>12, <1>14, <2>1, <2>2, <3>1 DEF Moved
  <2>3. CASE exc # NoException
    <3>1. FrameOK(f2, TRUE)
      BY <1>4, <1>5, <1>8, <1>11, <2>3 DEF FrameOK
    <3> QED
      BY <1>11, <1>12, <1>14, <2>1, <2>3, <3>1 DEF Moved
  <2> QED
    BY <2>2, <2>3
<1>16. PendingGoes(f, f2)
  BY <1>1, <1>14 DEF PendingGoes
<1>17. PendingStays(f2)
  <2>1. SUFFICES ASSUME "tryInFinally" \notin used, exc = NoException PROVE PendingLeft(f2)
    BY <1>1 DEF PendingStays
  <2>2. PendingLeft(f)
    BY <1>1, <1>2, <1>4, <2>1 DEF MachineInv, NoTryInFinally, Running, IsTop, Top
  <2> QED
    BY <1>4, <1>8, <1>11, <2>2 DEF PendingLeft
<1>18. IsTop(f) /\ phase \in {"run", "error"}
  BY <1>1, <1>2, <1>4 DEF Running
<1>19. TopsWritten(f, f2)
  <2>1. SUFFICES ASSUME "recursiveTry" \notin used PROVE TopsOf(f2)'
    BY <1>13 DEF TopsWritten, TopWritten
  <2>2. TopsOf(f)
    <3>1. f = frames[Len(frames)] /\ Len(frames) \in DOMAIN frames
      <4>1. frames \in Seq(Frame)
        BY <1>1 DEF MachineInv, FramesOK
      <4>2. frames # <<>> /\ f = frames[Len(frames)]
        BY <1>18 DEF IsTop, Top
      <4> QED
        BY <4>1, <4>2, EmptySeq
    <3> QED
      BY <1>2, <2>1, <3>1 DEF StackTops
  <2>3. ASSUME NEW k \in DOMAIN tries2 PROVE stackTop'[f.co][tries2[k].h] = tries2[k].sp
    <3>1. tries2[k].h # h /\ tries2[k].h \in DOMAIN hs
      BY <1>7, <1>8 DEF HistoryAt, AroundAt
    <3>2. k \in DOMAIN tries /\ tries2[k] = tries[k]
      BY <1>8
    <3>3. stackTop[f.co][tries[k].h] = tries[k].sp
      BY <1>4, <2>2, <3>2 DEF TopsOf
    <3> QED
      BY <1>4, <1>13, <3>1, <3>2, <3>3 DEF TopWritten
  <2> QED
    BY <1>11, <2>3 DEF TopsOf
<1>20. FrameKept(f, f2)
  <2>1. ASSUME NEW k \in DOMAIN tries, Unfinished(f, k)
        PROVE  k \in DOMAIN tries2 /\ tries2[k].h = tries[k].h
    <3>1. k # Len(tries)
      <4> SUFFICES ASSUME k = Len(tries) PROVE FALSE
        OBVIOUS
      <4>1. hs[h].finally # NoAddress /\ ~tries[k].finally /\ tries[k].h = h
        BY <1>4, <1>8, <2>1 DEF Unfinished
      <4>2. Part(hs[h], a) = 3
        BY <1>5, <1>7, <4>1, Parts
      <4>3. tries[k].finally
        BY <1>6, <4>1, <4>2 DEF HistoryAt, EntryOK
      <4> QED
        BY <4>1, <4>3
    <3> QED
      BY <1>8, <3>1
  <2> QED
    BY <1>4, <1>11, <2>1 DEF FrameKept
<1> QED
  BY <1>3, <1>15, <1>16, <1>17, <1>18, <1>19, <1>20, TopMoves

-----------------------------------------------------------------------------
(* error: *)

\* The current frame looks for a handler.
Failed(f) ==
  /\ IsTop(f) /\ FrameOK(f, TRUE) /\ Ready(f.co) /\ phase = "error"
  /\ f \in Frame /\ f.co \in DOMAIN codes /\ f.ip \in DOMAIN codes[f.co].code
  /\ Sound(codes[f.co].code, codes[f.co].handlers) /\ exc \in Nat

\* Such is the current frame of a program that looks for a handler.
LEMMA Fails ==
  ASSUME CodeInv, BlockInv, MachineInv, Straight, phase = "error"
  PROVE  Failed(Top)
<1>1. FramesOK
  BY DEF MachineInv
<1>2. frames # <<>>
  BY <1>1 DEF FramesOK
<1>3. FrameOK(Top, TRUE)
  BY <1>1, <1>2 DEF FramesOK, Top
<1>4. Top \in Frame /\ Top.co \in DOMAIN codes /\ Top.ip \in DOMAIN codes[Top.co].code
  BY <1>3 DEF FrameOK
<1>5. Ready(Top.co)
  BY <1>4, SoundCode
<1>6. exc \in Nat /\ IsTop(Top)
  BY <1>1, <1>2 DEF FramesOK, IsTop
<1> QED
  BY <1>3, <1>4, <1>5, <1>6 DEF Failed, Ready

\* It finds those whose part the frame is in.
LEMMA AroundIs ==
  ASSUME NEW f, Failed(f)
  PROVE  Around = AroundAt(codes[f.co].handlers, f.ip, TRUE)
<1>1. PICK code, hs, a : code = codes[f.co].code /\ hs = codes[f.co].handlers /\ a = f.ip
  OBVIOUS
<1>2. Sound(code, hs) /\ a \in Nat
  BY <1>1 DEF Failed, Frame
<1>3. Around = {h \in DOMAIN hs : hs[h].start < a /\ a < hs[h].end}
  BY <1>1 DEF Around, Handlers, Failed, IsTop
<1>4. ASSUME NEW h \in DOMAIN hs
      PROVE  Part(hs[h], a) # 0 /\ a # hs[h].end <=> hs[h].start < a /\ a < hs[h].end
  <2>1. Part(hs[h], a) # 0 <=> hs[h].start < a /\ a <= hs[h].end
    BY <1>2, Parts
  <2>2. hs[h].end \in Nat
    BY <1>2, Parts
  <2> QED
    BY <1>2, <2>1, <2>2
<1>5. AroundAt(hs, a, TRUE) = {h \in DOMAIN hs : hs[h].start < a /\ a < hs[h].end}
  BY <1>4 DEF AroundAt
<1> QED
  BY <1>1, <1>3, <1>5

InnermostAt(f, h) ==
  /\ h \in AroundAt(codes[f.co].handlers, f.ip, TRUE)
  /\ \A g \in AroundAt(codes[f.co].handlers, f.ip, TRUE) : h <= g

\* The innermost of them exists: it has the last entry.
LEMMA InnermostIs ==
  ASSUME NEW f, Failed(f), Around # {}
  PROVE  /\ InnermostAt(f, Innermost) /\ f.tries # <<>>
         /\ f.tries[Len(f.tries)].h = Innermost
<1>1. PICK hs, a, tries, h :
        /\ hs = codes[f.co].handlers /\ a = f.ip /\ tries = f.tries
        /\ h = CHOOSE i \in AroundAt(hs, a, TRUE) : \A g \in AroundAt(hs, a, TRUE) : i <= g
  OBVIOUS
<1>2. Around = AroundAt(hs, a, TRUE)
  BY <1>1, AroundIs
<1>3. Innermost = h
  BY <1>1, <1>2 DEF Innermost
<1>4. HistoryAt(hs, a, TRUE, tries) /\ hs \in Seq(Handler)
  BY <1>1 DEF Failed, FrameOK, Sound
<1>5. tries # <<>>
  <2>1. AroundAt(hs, a, TRUE) # {}
    BY <1>2
  <2>2. PICK g \in AroundAt(hs, a, TRUE) : TRUE
    BY <2>1
  <2>3. \A g1 \in AroundAt(hs, a, TRUE) : \E k \in DOMAIN tries : tries[k].h = g1
    BY <1>4 DEF HistoryAt
  <2>4. PICK k \in DOMAIN tries : tries[k].h = g
    BY <2>2, <2>3
  <2> QED
    BY <2>4
<1>6. /\ tries[Len(tries)].h \in AroundAt(hs, a, TRUE)
      /\ \A g \in AroundAt(hs, a, TRUE) : tries[Len(tries)].h <= g
  BY <1>4, <1>5, LastInnermost
<1>7. h \in AroundAt(hs, a, TRUE) /\ \A g \in AroundAt(hs, a, TRUE) : h <= g
  BY <1>1, <1>6
<1>8. tries[Len(tries)].h = h
  BY <1>4, <1>7, InnermostLast
<1> QED
  BY <1>1, <1>3, <1>5, <1>7, <1>8 DEF InnermostAt

\* The frame goes on at t, of which the entry of h says what is to be said.
Landing(f, f2, h, t) ==
  /\ f2 \in Frame /\ f2.co = f.co /\ f2.ip = t /\ DOMAIN f2.tries = DOMAIN f.tries
  /\ \A k \in DOMAIN f.tries : k # Len(f.tries) => f2.tries[k] = f.tries[k]
  /\ f2.tries[Len(f.tries)].h = h
  /\ f2.tries[Len(f.tries)].sp = f.tries[Len(f.tries)].sp
  /\ f2.tries[Len(f.tries)].pending \in {f.tries[Len(f.tries)].pending, exc}
  /\ EntryOK(f2.tries[Len(f.tries)], Part(codes[f.co].handlers[h], t))
  /\ exc # NoException =>
       EntryPending(f2.tries[Len(f.tries)]) \/ OpAt(f2) = "END_TRY"
LandsIn(f, h, t) == LandsAt(codes[f.co].handlers, h, t)
Resuming == phase' = "run" /\ exc' = exc

\* So the step keeps the invariant.
LEMMA ErrorLands ==
  ASSUME MachineInv, Straight, CodeStays, TopsStay, Resuming, NEW f, Failed(f), NEW h,
         InnermostAt(f, h), NEW t, LandsIn(f, h, t), NEW f2, SetTop(f2), Landing(f, f2, h, t)
  PROVE  MachineInv' /\ EntriesKept
<1>1. PICK code, hs, a, tries, n, tries2 :
        /\ code = codes[f.co].code /\ hs = codes[f.co].handlers /\ a = f.ip
        /\ tries = f.tries /\ n = Len(tries) /\ tries2 = f2.tries
  OBVIOUS
<1>2. /\ Sound(code, hs) /\ f.co \in DOMAIN codes /\ IsTop(f) /\ phase = "error" /\ a \in Nat
      /\ code \in Seq(Instruction) /\ hs \in Seq(Handler)
  <2>1. Sound(code, hs) /\ f.co \in DOMAIN codes /\ IsTop(f) /\ phase = "error" /\ f \in Frame
    BY <1>1 DEF Failed
  <2>2. a \in Nat
    BY <1>1, <2>1 DEF Frame
  <2>3. code \in Seq(Instruction) /\ hs \in Seq(Handler)
    BY <2>1 DEF Sound
  <2> QED
    BY <2>1, <2>2, <2>3
<1>3. HistoryAt(hs, a, TRUE, tries)
  BY <1>1 DEF Failed, FrameOK
<1>4. h \in AroundAt(hs, a, TRUE) /\ \A g \in AroundAt(hs, a, TRUE) : h <= g
  BY <1>1 DEF InnermostAt
<1>5. /\ f2 \in Frame /\ f2.co = f.co /\ f2.ip = t /\ DOMAIN tries2 = DOMAIN tries
      /\ \A k \in DOMAIN tries : k # n => tries2[k] = tries[k]
      /\ tries2[n].h = h /\ tries2[n].sp = tries[n].sp
      /\ tries2[n].pending \in {tries[n].pending, exc}
      /\ EntryOK(tries2[n], Part(hs[h], t))
      /\ exc # NoException => EntryPending(tries2[n]) \/ OpAt(f2) = "END_TRY"
  BY <1>1 DEF Landing
<1>6. tries # <<>> /\ n \in DOMAIN tries /\ tries[n].h = h
  <2>1. tries # <<>> /\ tries[Len(tries)].h = h
    BY <1>2, <1>3, <1>4, InnermostLast
  <2>2. Len(tries) \in DOMAIN tries
    BY <1>2, <1>3, <2>1, LastInnermost
  <2> QED
    BY <1>1, <2>1, <2>2
<1>7. LandsAt(hs, h, t)
  BY <1>1 DEF LandsIn
<1>8. HistoryAt(hs, t, FALSE, tries2)
  <2>1. LastIs(tries2, tries, h, Part(hs[h], t))
    BY <1>1, <1>5 DEF LastIs
  <2>2. tries2 \in Seq(Entry) /\ DOMAIN tries2 = DOMAIN tries
    BY <1>1, <1>5 DEF Frame
  <2>3. Sound(code, hs) /\ a \in Nat
    BY <1>2
  <2> QED
    BY <1>3, <1>4, <1>7, <2>1, <2>2, <2>3, HistoryLands
<1>9. t \in DOMAIN code
  <2>1. h \in DOMAIN hs
    BY <1>4 DEF AroundAt
  <2>2. /\ hs[h].start \in Nat \ {0} /\ hs[h].first \in Nat /\ hs[h].end \in Nat
        /\ hs[h].finally \in Nat /\ hs[h].start < hs[h].first /\ hs[h].first < hs[h].end
        /\ hs[h].finally # NoAddress => hs[h].first < hs[h].finally /\ hs[h].finally <= hs[h].end
    BY <1>2, <2>1, Parts
  <2>3. hs[h].end \in 1 .. Len(code) /\ Len(code) \in Nat
    BY <1>2, <2>1 DEF Sound, HandlerOK
  <2>4. t \in Nat /\ t # NoAddress /\ (t = hs[h].first \/ t = hs[h].finally \/ t = hs[h].end)
    BY <1>7 DEF LandsAt
  <2>5. t \in 1 .. Len(code)
    BY <2>2, <2>3, <2>4
  <2> QED
    BY <1>2, <2>5
<1>10. Moved(f, f2)
  <2>1. FrameOK(f2, FALSE)
    BY <1>1, <1>2, <1>5, <1>8, <1>9 DEF FrameOK
  <2>2. exc' \in Nat
    BY DEF Resuming, Failed
  <2> QED
    BY <1>5, <2>1, <2>2 DEF Moved, Resuming
<1>11. PendingGoes(f, f2)
  BY <1>1, <1>5, <1>6 DEF PendingGoes, Resuming, FramePending
<1>12. PendingStays(f2)
  <2>1. SUFFICES ASSUME "tryInFinally" \notin used, exc = NoException PROVE PendingLeft(f2)
    BY DEF PendingStays, Resuming
  <2>2. PendingLeft(f)
    BY <1>2, <2>1 DEF MachineInv, NoTryInFinally, IsTop, Top
  <2>3. ASSUME NEW k \in DOMAIN tries PROVE tries2[k].pending = NoException
    <3>1. tries[k].pending = NoException
      BY <1>1, <2>2 DEF PendingLeft
    <3> QED
      BY <1>5, <2>1, <3>1
  <2> QED
    BY <1>1, <1>5, <2>3 DEF PendingLeft
<1>13. KeepsEntries(f, f2)
  <2>1. \A k \in DOMAIN tries : tries2[k].h = tries[k].h /\ tries2[k].sp = tries[k].sp
    BY <1>5, <1>6
  <2> QED
    BY <1>1, <1>5, <2>1 DEF KeepsEntries
<1>14. TopsWritten(f, f2) /\ FrameKept(f, f2)
  BY <1>2, <1>13, EntriesSame
<1> QED
  BY <1>2, <1>10, <1>11, <1>12, <1>14, TopMoves

\* The protected block has raised: the catch blocks are next.
LEMMA RaisedLands ==
  ASSUME NEW f, Failed(f), NEW h, InnermostAt(f, h), f.ip < codes[f.co].handlers[h].first,
         SetTop([Top EXCEPT !.ip = codes[f.co].handlers[h].first,
                            !.tries[Len(Top.tries)].raised = exc])
  PROVE  \E f2, t : LandsIn(f, h, t) /\ SetTop(f2) /\ Landing(f, f2, h, t)
<1>1. PICK code, hs, a, t, tries, n, e, e2, tries2, f2 :
        /\ code = codes[f.co].code /\ hs = codes[f.co].handlers /\ a = f.ip /\ t = hs[h].first
        /\ tries = f.tries /\ n = Len(tries) /\ e = tries[n] /\ e2 = [e EXCEPT !.raised = exc]
        /\ tries2 = [tries EXCEPT ![n] = e2] /\ f2 = [f EXCEPT !.ip = t, !.tries = tries2]
  OBVIOUS
<1>2. Sound(code, hs) /\ IsTop(f) /\ f \in Frame /\ exc \in Nat
  BY <1>1 DEF Failed
<1>3. a \in Nat /\ tries \in Seq(Entry) /\ hs \in Seq(Handler)
  BY <1>1, <1>2 DEF Frame, Sound
<1>4. HistoryAt(hs, a, TRUE, tries)
  BY <1>1 DEF Failed, FrameOK
<1>5. h \in AroundAt(hs, a, TRUE) /\ \A g \in AroundAt(hs, a, TRUE) : h <= g
  BY <1>1 DEF InnermostAt
<1>6. h \in DOMAIN hs /\ Part(hs[h], a) # 0
  BY <1>5 DEF AroundAt
<1>7. tries # <<>> /\ n \in DOMAIN tries /\ e.h = h
  <2>1. tries # <<>> /\ tries[Len(tries)].h = h
    BY <1>3, <1>4, <1>5, InnermostLast
  <2>2. Len(tries) \in DOMAIN tries
    BY <1>3, <1>4, <2>1, LastInnermost
  <2> QED
    BY <1>1, <2>1, <2>2
<1>8. Part(hs[h], a) = 1 /\ Part(hs[h], t) = 2 /\ t \in Nat /\ t # NoAddress
  <2>1. a < hs[h].first /\ t = hs[h].first
    BY <1>1
  <2>2. /\ hs[h].start \in Nat \ {0} /\ hs[h].first \in Nat /\ hs[h].end \in Nat
        /\ hs[h].finally \in Nat /\ hs[h].start < hs[h].first /\ hs[h].first < hs[h].end
        /\ hs[h].finally # NoAddress => hs[h].first < hs[h].finally /\ hs[h].finally <= hs[h].end
        /\ hs[h].start < a
    BY <1>2, <1>3, <1>6, Parts
  <2>3. Part(hs[h], a) = 1
    BY <1>2, <1>3, <1>6, <2>1, <2>2, Parts
  <2>4. t \in Nat /\ t # NoAddress
    BY <2>1, <2>2 DEF NoAddress
  <2>5. t <= hs[h].end /\ hs[h].first <= t /\ (hs[h].finally = NoAddress \/ t < hs[h].finally)
    BY <2>1, <2>2
  <2>6. Part(hs[h], t) = 2
    BY <1>2, <1>6, <2>4, <2>5, Parts
  <2> QED
    BY <2>3, <2>4, <2>6
<1>9. e \in Entry /\ EntryOK(e, 1)
  <2>1. tries[n] \in Entry
    BY <1>3, <1>7
  <2>2. EntryOK(tries[n], Part(hs[tries[n].h], a))
    BY <1>4, <1>7 DEF HistoryAt
  <2>3. tries[n] = e /\ e.h = h /\ Part(hs[h], a) = 1
    BY <1>1, <1>7, <1>8
  <2> QED
    BY <2>1, <2>2, <2>3
<1>10. /\ e2 \in Entry /\ e2.h = e.h /\ e2.sp = e.sp /\ e2.raised = exc /\ e2.caught = e.caught
       /\ e2.finally = e.finally /\ e2.pending = e.pending
  <2>1. e2 = [e EXCEPT !.raised = exc] /\ e \in Entry
    BY <1>1, <1>9
  <2> QED
    BY <1>2, <2>1 DEF Entry
<1>11. /\ tries2 \in Seq(Entry) /\ DOMAIN tries2 = DOMAIN tries /\ tries2[n] = e2
       /\ \A k \in DOMAIN tries : k # n => tries2[k] = tries[k]
  BY <1>1, <1>3, <1>7, <1>10, LastReplaced
<1>12. f2 \in Frame /\ f2.co = f.co /\ f2.ip = t /\ f2.tries = tries2
  <2>1. f2 = [f EXCEPT !.ip = t, !.tries = tries2] /\ tries2 \in Seq(Entry)
    BY <1>1, <1>11
  <2> QED
    BY <1>2, <1>8, <2>1 DEF Frame
<1>13. EntryOK(e2, 2) /\ (exc # NoException => EntryPending(e2))
  BY <1>9, <1>10 DEF EntryOK, EntryPending
<1>14. Landing(f, f2, h, t)
  <2>1. /\ f2.tries = tries2 /\ f.tries = tries /\ Len(tries) = n /\ tries2[n] = e2 /\ tries[n] = e
        /\ codes[f.co].handlers = hs
    BY <1>1, <1>11, <1>12
  <2> QED
    BY <1>7, <1>8, <1>10, <1>11, <1>12, <1>13, <2>1 DEF Landing
<1>15. SetTop(f2)
  <2>1. f = Top
    BY <1>2 DEF IsTop
  <2>2. [Top EXCEPT !.ip = codes[f.co].handlers[h].first,
                    !.tries[Len(Top.tries)].raised = exc] = f2
    BY <1>1, <2>1
  <2> QED
    BY <2>2
<1>16. LandsIn(f, h, t)
  BY <1>1, <1>8 DEF LandsIn, LandsAt
<1> QED
  BY <1>14, <1>15, <1>16

\* Where it goes on, from a block of the try statement at a.
NextBlock(r, a, t) ==
  IF r.finally = NoAddress \/ r.finally <= a THEN t = r.end ELSE t = r.finally

\* A catch block or the finally block has: the finally block or END_TRY is next.
LEMMA BlockLands ==
  ASSUME NEW f, Failed(f), NEW h, InnermostAt(f, h), NEW t,
         ~(f.ip < codes[f.co].handlers[h].first),
         NextBlock(codes[f.co].handlers[h], f.ip, t), Goto(Top.sp, t)
  PROVE  \E f2 : LandsIn(f, h, t) /\ SetTop(f2) /\ Landing(f, f2, h, t)
<1>1. PICK code, hs, a, r, tries, n, e :
        /\ code = codes[f.co].code /\ hs = codes[f.co].handlers /\ a = f.ip /\ r = hs[h]
        /\ tries = f.tries /\ n = Len(tries) /\ e = tries[n]
  OBVIOUS
<1>2. Sound(code, hs) /\ IsTop(f) /\ f \in Frame /\ exc \in Nat
  BY <1>1 DEF Failed
<1>3. a \in Nat /\ tries \in Seq(Entry) /\ hs \in Seq(Handler) /\ Top.sp \in Int
  BY <1>1, <1>2 DEF Frame, Sound, IsTop
<1>4. HistoryAt(hs, a, TRUE, tries)
  BY <1>1 DEF Failed, FrameOK
<1>5. h \in AroundAt(hs, a, TRUE) /\ \A g \in AroundAt(hs, a, TRUE) : h <= g
  BY <1>1 DEF InnermostAt
<1>6. h \in DOMAIN hs /\ Part(hs[h], a) # 0
  BY <1>5 DEF AroundAt
<1>7. tries # <<>> /\ n \in DOMAIN tries /\ e.h = h
  <2>1. tries # <<>> /\ tries[Len(tries)].h = h
    BY <1>3, <1>4, <1>5, InnermostLast
  <2>2. Len(tries) \in DOMAIN tries
    BY <1>3, <1>4, <2>1, LastInnermost
  <2> QED
    BY <1>1, <2>1, <2>2
<1>8. /\ r.start \in Nat \ {0} /\ r.first \in Nat /\ r.end \in Nat /\ r.finally \in Nat
      /\ r.start < r.first /\ r.first < r.end /\ r.first <= a /\ a <= r.end
      /\ r.finally # NoAddress => r.first < r.finally /\ r.finally <= r.end
      /\ NextBlock(r, a, t)
  <2>1. /\ r.start \in Nat \ {0} /\ r.first \in Nat /\ r.end \in Nat /\ r.finally \in Nat
        /\ r.start < r.first /\ r.first < r.end /\ a <= r.end
        /\ r.finally # NoAddress => r.first < r.finally /\ r.finally <= r.end
    BY <1>1, <1>2, <1>3, <1>6, Parts
  <2>2. ~(a < r.first)
    BY <1>1
  <2>3. NextBlock(r, a, t)
    BY <1>1
  <2> QED
    BY <1>3, <2>1, <2>2, <2>3
<1>9. t \in Nat /\ t # NoAddress /\ t \in {r.first, r.finally, r.end}
  BY <1>8 DEF NoAddress, NextBlock
<1>10. /\ Part(r, t) = IF r.finally = NoAddress THEN 2 ELSE 3
       /\ Part(r, a) = IF r.finally = NoAddress \/ a < r.finally THEN 2 ELSE 3
  BY <1>3, <1>8, <1>9 DEF Part, NoAddress, NextBlock
<1>11. PICK f2 : SetTop(f2) /\ GoesTo(f, f2, t)
  BY <1>2, <1>3, <1>9, GotoFrame
<1>12. PICK tries2, e2 : tries2 = f2.tries /\ e2 = tries2[n]
  OBVIOUS
<1>13. f2 \in Frame /\ f2.co = f.co /\ f2.ip = t /\ SeenIs(hs, tries, t, exc, tries2)
  <2>1. tries2 = SeenAt(hs, tries, t, exc)
    BY <1>1, <1>11, <1>12 DEF GoesTo
  <2>2. SeenIs(hs, tries, t, exc, tries2)
    BY <1>2, <1>3, <2>1, SeenTypes
  <2> QED
    BY <1>11, <2>2 DEF GoesTo
<1>14. /\ DOMAIN tries2 = DOMAIN tries /\ \A k \in DOMAIN tries : k # n => tries2[k] = tries[k]
       /\ e2.h = e.h /\ e2.sp = e.sp /\ e2.raised = e.raised /\ e2.caught = e.caught
       /\ ~Enters(hs, tries, t) => e2 = e
       /\ Enters(hs, tries, t) => e2.finally /\ e2.pending = exc
  BY <1>1, <1>7, <1>12, <1>13 DEF SeenIs
<1>15. EntryOK(e, Part(r, a))
  BY <1>1, <1>4, <1>7 DEF HistoryAt
<1>16. /\ EntryOK(e2, Part(r, t)) /\ e2.pending \in {e.pending, exc}
       /\ exc # NoException => EntryPending(e2) \/ t = r.end
  <2>1. Enters(hs, tries, t) <=> r.finally = t /\ ~e.finally
    BY <1>1, <1>7 DEF Enters
  <2>2. CASE r.finally = NoAddress
    <3>1. ~Enters(hs, tries, t) /\ Part(r, t) = Part(r, a) /\ t = r.end
      BY <1>8, <1>9, <1>10, <2>1, <2>2 DEF NextBlock
    <3> QED
      BY <1>14, <1>15, <3>1
  <2>3. CASE r.finally # NoAddress /\ a < r.finally
    <3>1. t = r.finally /\ Part(r, t) = 3 /\ Part(r, a) = 2
      BY <1>3, <1>8, <1>10, <2>3 DEF NextBlock
    <3>2. Enters(hs, tries, t)
      BY <1>15, <2>1, <3>1 DEF EntryOK
    <3>3. e2.finally /\ e2.pending = exc
      BY <1>14, <3>2
    <3> QED
      BY <3>1, <3>3 DEF EntryOK, EntryPending
  <2>4. CASE r.finally # NoAddress /\ ~(a < r.finally)
    <3>1. t = r.end /\ Part(r, t) = 3 /\ Part(r, a) = 3
      BY <1>3, <1>8, <1>10, <2>4 DEF NextBlock
    <3>2. ~Enters(hs, tries, t)
      BY <1>15, <2>1, <3>1 DEF EntryOK
    <3> QED
      BY <1>14, <1>15, <3>1, <3>2
  <2> QED
    BY <2>2, <2>3, <2>4
<1>17. t = r.end => OpAt(f2) = "END_TRY"
  <2>1. code[r.end].op = "END_TRY"
    BY <1>1, <1>2, <1>6 DEF Sound, HandlerOK
  <2> QED
    BY <1>1, <1>13, <2>1 DEF OpAt
<1>18. Landing(f, f2, h, t)
  <2>1. /\ f2.tries = tries2 /\ f.tries = tries /\ Len(tries) = n /\ tries2[n] = e2 /\ tries[n] = e
        /\ codes[f.co].handlers[h] = r
    BY <1>1, <1>12
  <2> QED
    BY <1>7, <1>13, <1>14, <1>16, <1>17, <2>1 DEF Landing
<1>19. LandsIn(f, h, t)
  BY <1>1, <1>9 DEF LandsIn, LandsAt
<1> QED
  BY <1>11, <1>18, <1>19

\* error: with a handler.
LEMMA Handling ==
  ASSUME CodeInv, BlockInv, MachineInv, Straight, HandleError
  PROVE  MachineInv' /\ EntriesKept
<1>1. phase = "error" /\ Around # {} /\ phase' = "run" /\ Same
  BY DEF HandleError
<1>2. Failed(Top)
  BY <1>1, Fails
<1>3. CodeStays /\ TopsStay /\ Resuming
  BY <1>1 DEF Same, compilerVars, CodeStays, TopsStay, Resuming, MachineInv, FramesOK
<1>4. PICK f, h, r : f = Top /\ h = Innermost /\ r = codes[f.co].handlers[h]
  OBVIOUS
<1>5. Failed(f) /\ InnermostAt(f, h) /\ r = Handlers[Innermost]
  BY <1>1, <1>2, <1>4, InnermostIs DEF Handlers
<1>6. /\ r.first \in Nat /\ r.finally \in Nat /\ f.ip \in Nat
      /\ r.finally # NoAddress => r.first < r.finally
  <2>1. PICK code, hs : code = codes[f.co].code /\ hs = codes[f.co].handlers
    OBVIOUS
  <2>2. Sound(code, hs) /\ f.ip \in Nat /\ h \in DOMAIN hs
    BY <1>5, <2>1 DEF Failed, Frame, InnermostAt, AroundAt
  <2>3. r = hs[h]
    BY <1>4, <2>1
  <2> QED
    BY <2>2, <2>3, Parts
<1>7. CASE Protects(r) /\ SetTop([Top EXCEPT !.ip = r.first, !.tries[Len(Top.tries)].raised = exc])
  <2>1. PICK f2, t : LandsIn(f, h, t) /\ SetTop(f2) /\ Landing(f, f2, h, t)
    BY <1>4, <1>5, <1>7, RaisedLands DEF Protects
  <2> QED
    BY <1>3, <1>5, <2>1, ErrorLands
<1>8. ASSUME ~Protects(r), NEW t, Goto(Top.sp, t), NextBlock(r, f.ip, t)
      PROVE  MachineInv' /\ EntriesKept
  <2>1. PICK f2 : LandsIn(f, h, t) /\ SetTop(f2) /\ Landing(f, f2, h, t)
    BY <1>4, <1>5, <1>8, BlockLands DEF Protects
  <2> QED
    BY <1>3, <1>5, <2>1, ErrorLands
<1>9. CASE ~Protects(r) /\ (r.finally = NoAddress \/ Top.ip < r.finally) /\ Goto(Top.sp, AfterBlock(r))
  <2>1. NextBlock(r, f.ip, AfterBlock(r))
    <3>1. CASE r.finally = NoAddress
      BY <3>1 DEF AfterBlock, NextBlock
    <3>2. CASE r.finally # NoAddress
      <4>1. f.ip < r.finally
        BY <1>4, <1>9, <3>2
      <4>2. ~(r.finally <= f.ip)
        BY <1>6, <4>1
      <4> QED
        BY <3>2, <4>2 DEF AfterBlock, NextBlock
    <3> QED
      BY <3>1, <3>2
  <2> QED
    BY <1>8, <1>9, <2>1
<1>10. CASE ~Protects(r) /\ r.finally # NoAddress /\ r.finally <= Top.ip /\ Goto(Top.sp, AfterFinally(r))
  <2>1. NextBlock(r, f.ip, AfterFinally(r))
    BY <1>4, <1>10 DEF AfterFinally, NextBlock
  <2> QED
    BY <1>8, <1>10, <2>1
<1> QED
  BY <1>5, <1>7, <1>9, <1>10 DEF HandleError

-----------------------------------------------------------------------------
(* Calls and returns. *)

\* A frame that begins is in no try statement.
LEMMA FreshFrames ==
  CodeInv /\ BlockInv /\ Straight /\ phase # "compile" =>
    \A c \in DOMAIN codes : \A sp \in Int : FrameOK(NewFrame(c, sp), FALSE)
<1> SUFFICES ASSUME CodeInv, BlockInv, Straight, phase # "compile",
                    NEW c \in DOMAIN codes, NEW sp \in Int
             PROVE  FrameOK(NewFrame(c, sp), FALSE)
  OBVIOUS
<1>1. PICK code, hs, q :
        code = codes[c].code /\ hs = codes[c].handlers /\ q = NewFrame(c, sp)
  OBVIOUS
<1>2. Sound(code, hs)
  BY <1>1, SoundCode DEF Ready
<1>3. 1 \in DOMAIN code
  <2>1. code \in Seq(Instruction) /\ code # <<>>
    BY <1>2 DEF Sound, EndsInReturn
  <2> QED
    BY <2>1, EmptySeq
<1>4. AroundAt(hs, 1, FALSE) = {}
  <2>1. ASSUME NEW h \in DOMAIN hs PROVE Part(hs[h], 1) = 0
    <3>1. hs[h].start \in Nat \ {0} /\ (Part(hs[h], 1) # 0 <=> hs[h].start < 1 /\ 1 <= hs[h].end)
      BY <1>2, Parts
    <3> QED
      BY <3>1
  <2> QED
    BY <2>1 DEF AroundAt
<1>5. HistoryAt(hs, 1, FALSE, <<>>)
  <2>1. <<>> \in Seq(Entry) /\ DOMAIN <<>> = {}
    OBVIOUS
  <2> QED
    BY <1>4, <2>1 DEF HistoryAt
<1>6. q.co = c /\ q.ip = 1 /\ q.sp = sp /\ q.tries = <<>> /\ q \in Frame
  <2>1. c \in Nat
    BY DEF CodeInv, CodesOK
  <2> QED
    BY <1>1, <2>1 DEF NewFrame, Frame
<1> QED
  BY <1>1, <1>3, <1>5, <1>6 DEF FrameOK

\* So is the one that begins when the program has been compiled.
LEMMA FirstFrame ==
  CodeInv /\ BlockInv /\ Straight /\ phase # "compile" => FrameOK(NewFrame(1, 1), FALSE)
<1> SUFFICES ASSUME CodeInv, BlockInv, Straight, phase # "compile"
             PROVE  FrameOK(NewFrame(1, 1), FALSE)
  OBVIOUS
<1>1. 1 \in DOMAIN codes
  <2>1. codes \in Seq(CodeObject) /\ cur \in DOMAIN codes
    BY DEF CodeInv, CodesOK
  <2>2. codes # <<>>
    BY <2>1
  <2> QED
    BY <2>1, <2>2, EmptySeq
<1>2. \A c \in DOMAIN codes : \A sp \in Int : FrameOK(NewFrame(c, sp), FALSE)
  BY FreshFrames
<1>3. \A sp \in Int : FrameOK(NewFrame(1, sp), FALSE)
  BY <1>1, <1>2
<1>4. 1 \in Int
  OBVIOUS
<1> QED
  BY <1>3, <1>4, Zenon

\* The same of the next state.
LEMMA FirstFrameNext ==
  (CodeInv /\ BlockInv /\ Straight /\ phase # "compile" => FrameOK(NewFrame(1, 1), FALSE))'
BY FirstFrame, PTL

\* A call keeps the invariant: the caller stays in its expression.
LEMMA Calling ==
  ASSUME CodeInv, BlockInv, MachineInv, Straight, NEW c \in defined, Call(c)
  PROVE  MachineInv' /\ EntriesKept
<1>1. /\ phase = "run" /\ phase' = "run" /\ exc' = exc /\ codes' = codes
      /\ defined' = defined /\ stackTop' = stackTop /\ Top.sp + 1 \in Slots
      /\ Instr.op = "EVAL" /\ used' = used \cup CallUses(c)
      /\ frames' = Append(frames, NewFrame(c, Top.sp + 1))
  BY DEF Call, Executing, Using, compilerVars
<1>2. FramesOK /\ RunPending /\ NoTryInFinally /\ StackTops
  BY <1>1 DEF MachineInv
<1>3. Running(Top)
  BY <1>1, Runs
<1>4. PICK s, s2, n, q :
        s = frames /\ s2 = frames' /\ n = Len(frames) /\ q = NewFrame(c, Top.sp + 1)
  OBVIOUS
<1>5. FrameOK(q, FALSE) /\ q \in Frame /\ q.co = c /\ q.tries = <<>>
  <2>1. Top.sp + 1 \in Int
    BY <1>3 DEF Running, Frame
  <2>2. c \in DOMAIN codes
    BY <1>2 DEF FramesOK
  <2>3. FrameOK(q, FALSE)
    BY <1>1, <1>4, <2>1, <2>2, FreshFrames
  <2> QED
    BY <1>4, <2>3 DEF FrameOK, NewFrame
<1>6. s \in Seq(Frame) /\ n \in Nat /\ n \in DOMAIN s /\ DOMAIN s = 1 .. n /\ Top = s[n]
  <2>1. s \in Seq(Frame) /\ s # <<>> /\ Top = s[n]
    BY <1>1, <1>2, <1>4 DEF FramesOK, Top
  <2> QED
    BY <1>4, <2>1, EmptySeq
<1>7. /\ s2 \in Seq(Frame) /\ Len(s2) = n + 1 /\ DOMAIN s2 = 1 .. n + 1 /\ s2[n + 1] = q
      /\ \A i \in DOMAIN s : s2[i] = s[i]
  <2>1. s2 = Append(s, q) /\ Len(s) = n
    BY <1>1, <1>4
  <2> QED
    BY <1>5, <1>6, <2>1
<1>8. DOMAIN s2 = DOMAIN s \cup {n + 1} /\ n + 1 \notin DOMAIN s
  BY <1>6, <1>7
<1>9. \A g, gone : FrameOK(g, gone)' <=> FrameOK(g, gone)
  BY <1>1 DEF FrameOK
<1>10. \A g : OpAt(g)' = OpAt(g)
  BY <1>1 DEF OpAt
<1>11. \A i \in DOMAIN s : FrameOK(s[i], FALSE) /\ OpAt(s[i]) = "EVAL"
  <2>1. OpAt(s[n]) = "EVAL"
    BY <1>1, <1>6 DEF OpAt, Instr
  <2>2. \A i \in DOMAIN s : FrameOK(s[i], FALSE)
    BY <1>1, <1>2, <1>4 DEF FramesOK
  <2>3. \A i \in DOMAIN s : i # n => OpAt(s[i]) = "EVAL"
    BY <1>2, <1>4 DEF FramesOK
  <2> QED
    BY <2>1, <2>2, <2>3
<1>12. FramesOK'
  <2>1. \A i \in DOMAIN s2 : FrameOK(s2[i], FALSE)
    BY <1>5, <1>7, <1>8, <1>11
  <2>2. \A i \in DOMAIN s2 : i # n + 1 => OpAt(s2[i]) = "EVAL"
    BY <1>7, <1>8, <1>11
  <2>3. s2 # <<>> /\ Len(frames') = n + 1 /\ frames' = s2
    BY <1>4, <1>6, <1>7
  <2>4. exc \in Nat /\ defined \subseteq DOMAIN codes
    BY <1>2 DEF FramesOK
  <2> QED
    BY <1>1, <1>7, <1>9, <1>10, <2>1, <2>2, <2>3, <2>4 DEF FramesOK
<1>13. RunPending'
  <2>1. SUFFICES ASSUME exc # NoException PROVE \E i \in DOMAIN s2 : FramePending(s2[i])
    BY <1>1, <1>4 DEF RunPending, FramePending, EntryPending
  <2>2. OpAt(frames[Len(frames)]) # "END_TRY"
    BY <1>4, <1>6, <1>11
  <2>3. PICK i \in DOMAIN s : FramePending(s[i])
    BY <1>1, <1>2, <1>4, <2>1, <2>2 DEF RunPending
  <2> QED
    BY <1>7, <1>8, <2>3
<1>14. NoTryInFinally'
  <2>1. SUFFICES ASSUME "tryInFinally" \notin used'
                 PROVE  /\ \A i \in DOMAIN s2 : i # n + 1 => NotInFinally(s2[i])
                        /\ PendingLeft(s2[n + 1])
    BY <1>4, <1>7 DEF NoTryInFinally, NotInFinally, PendingLeft
  <2>2. "tryInFinally" \notin used /\ ~InFinally
    BY <1>1, <2>1 DEF CallUses
  <2>3. \A i \in DOMAIN s : i # n => NotInFinally(s[i])
    BY <1>2, <1>4, <2>2 DEF NoTryInFinally
  <2>4. NotInFinally(s[n])
    <3>1. PICK code, hs, a, tries :
            /\ code = codes[s[n].co].code /\ hs = codes[s[n].co].handlers /\ a = s[n].ip
            /\ tries = s[n].tries
      OBVIOUS
    <3>2. Sound(code, hs) /\ a \in Nat /\ hs \in Seq(Handler)
      BY <1>3, <1>6, <3>1 DEF Running, Frame, Sound
    <3>3. HistoryAt(hs, a, FALSE, tries)
      BY <1>6, <1>11, <3>1 DEF FrameOK
    <3>4. \A r \in Range(hs) : ~(r.finally # NoAddress /\ a \in r.finally .. r.end)
      BY <1>6, <2>2, <3>1 DEF InFinally, Handlers
    <3>5. ASSUME NEW k \in DOMAIN tries, tries[k].finally PROVE FALSE
      <4>1. PICK h : h = tries[k].h
        OBVIOUS
      <4>2. h \in DOMAIN hs /\ EntryOK(tries[k], Part(hs[h], a))
        BY <3>3, <4>1 DEF HistoryAt, AroundAt
      <4>3. Part(hs[h], a) = 3
        BY <3>5, <4>2 DEF EntryOK
      <4>4. hs[h].finally # NoAddress /\ hs[h].finally <= a /\ a <= hs[h].end
        BY <3>2, <4>2, <4>3, Parts
      <4>5. hs[h].finally \in Nat /\ hs[h].end \in Nat
        BY <3>2, <4>2, Parts
      <4>6. a \in hs[h].finally .. hs[h].end
        BY <3>2, <4>4, <4>5
      <4>7. hs[h] \in Range(hs)
        BY <3>2, <4>2 DEF Range
      <4> QED
        BY <3>4, <4>4, <4>6, <4>7
    <3> QED
      BY <3>1, <3>5 DEF NotInFinally
  <2>5. PendingLeft(q)
    BY <1>5 DEF PendingLeft
  <2> QED
    BY <1>7, <1>8, <2>3, <2>4, <2>5
<1>15. StackTops'
  <2>1. ASSUME "recursiveTry" \notin used'
        PROVE  /\ \A i, j \in DOMAIN s2 :
                    i # j /\ s2[i].co = s2[j].co => codes[s2[i].co].handlers = <<>>
               /\ \A i \in DOMAIN s2 : TopsOf(s2[i])
    <3>1. "recursiveTry" \notin used /\ ~Recursive(c)
      BY <1>1, <2>1 DEF CallUses
    <3>2. codes[c].handlers = <<>> \/ \A i \in DOMAIN s : s[i].co # c
      BY <1>4, <3>1 DEF Recursive
    <3>3. /\ \A i, j \in DOMAIN s : i # j /\ s[i].co = s[j].co => codes[s[i].co].handlers = <<>>
          /\ \A i \in DOMAIN s : TopsOf(s[i])
      BY <1>2, <1>4, <3>1 DEF StackTops
    <3>4. TopsOf(q)
      BY <1>5 DEF TopsOf
    <3> QED
      BY <1>5, <1>7, <1>8, <3>2, <3>3, <3>4
  <2>2. \A g : TopsOf(g)' <=> TopsOf(g)
    BY <1>1 DEF TopsOf
  <2>3. /\ DOMAIN stackTop = DOMAIN codes
        /\ \A d \in DOMAIN codes : stackTop[d] \in [DOMAIN codes[d].handlers -> Int]
    BY <1>2 DEF StackTops
  <2> QED
    BY <1>1, <1>4, <2>1, <2>2, <2>3 DEF StackTops
<1>16. EntriesKept
  BY <1>4, <1>7, <1>8 DEF EntriesKept, FrameKept
<1> QED
  BY <1>1, <1>12, <1>13, <1>14, <1>15, <1>16 DEF MachineInv

\* The current frame ends; its caller becomes f2.
ReturnsTo(f2) ==
  /\ frames' \in Seq(Frame) /\ Len(frames) - 1 \in DOMAIN frames
  /\ Len(frames') = Len(frames) - 1 /\ frames'[Len(frames) - 1] = f2
  /\ \A i \in DOMAIN frames : i < Len(frames) - 1 => frames'[i] = frames[i]
GoesBack(f, f2) ==
  /\ f2.co = f.co /\ f2.tries = f.tries
  /\ \/ phase' = "run" /\ phase = "run" /\ FrameOK(f2, FALSE)
     \/ phase' = "error" /\ phase = "error" /\ FrameOK(f2, TRUE)
Ended == phase' = "done" /\ frames' = <<>>
NothingLeft ==
  Top.tries = <<>> /\ (phase = "run" => OpAt(Top) # "END_TRY") /\ exc' = exc

\* A frame ends in no try statement, so the invariant is kept.
LEMMA LastReturns ==
  ASSUME MachineInv, Straight, phase \in {"run", "error"}, CodeStays, TopsStay, NothingLeft,
         Len(frames) = 1, Ended
  PROVE  MachineInv' /\ EntriesKept
<1>1. FramesOK /\ StackTops
  BY DEF MachineInv
<1>2. frames' = <<>> /\ phase' = "done" /\ DOMAIN <<>> = {} /\ <<>> \in Seq(Frame)
  BY DEF Ended
<1>3. /\ codes' = codes /\ stackTop' = stackTop /\ exc' = exc /\ used' = used
      /\ defined' \subseteq DOMAIN codes
  BY DEF CodeStays, TopsStay, NothingLeft
<1>4. FramesOK'
  BY <1>1, <1>2, <1>3 DEF FramesOK
<1>5. RunPending' /\ NoTryInFinally'
  BY <1>2 DEF RunPending, NoTryInFinally
<1>6. StackTops'
  BY <1>1, <1>2, <1>3 DEF StackTops
<1>7. EntriesKept
  <2>1. \A i \in DOMAIN frames : frames[i] = Top
    BY <1>1 DEF FramesOK, Top
  <2> QED
    BY <2>1 DEF EntriesKept, NothingLeft
<1> QED
  BY <1>2, <1>4, <1>5, <1>6, <1>7 DEF MachineInv

\* Nor does its caller lose anything.
LEMMA Returns ==
  ASSUME MachineInv, Straight, phase \in {"run", "error"}, CodeStays, TopsStay, NothingLeft,
         NEW f, f = frames[Len(frames) - 1], NEW f2, ReturnsTo(f2), GoesBack(f, f2)
  PROVE  MachineInv' /\ EntriesKept
<1>1. FramesOK /\ RunPending /\ NoTryInFinally /\ StackTops
  BY DEF MachineInv
<1>2. PICK s, s2, n, m : s = frames /\ s2 = frames' /\ n = Len(frames) /\ m = Len(frames) - 1
  OBVIOUS
<1>3. /\ s \in Seq(Frame) /\ n \in Nat /\ DOMAIN s = 1 .. n /\ m = n - 1 /\ m \in DOMAIN s
      /\ s[n] = Top /\ s[m] = f
  <2>1. s \in Seq(Frame) /\ m \in DOMAIN s /\ s[n] = Top /\ s[m] = f
    BY <1>1, <1>2 DEF FramesOK, ReturnsTo, Top
  <2> QED
    BY <1>2, <2>1
<1>4. /\ s2 \in Seq(Frame) /\ Len(s2) = m /\ DOMAIN s2 = 1 .. m /\ s2[m] = f2
      /\ \A i \in DOMAIN s : i < m => s2[i] = s[i]
  <2>1. s2 \in Seq(Frame) /\ Len(s2) = m /\ s2[m] = f2 /\ \A i \in DOMAIN s : i < m => s2[i] = s[i]
    BY <1>2 DEF ReturnsTo
  <2> QED
    BY <2>1
<1>5. /\ m \in DOMAIN s2 /\ s2 # <<>>
      /\ \A i \in DOMAIN s : i \in DOMAIN s2 \/ i = n
      /\ \A i \in DOMAIN s2 : i \in DOMAIN s /\ i # n /\ (i = m \/ s2[i] = s[i])
  BY <1>3, <1>4
<1>6. \A g, gone : FrameOK(g, gone)' <=> FrameOK(g, gone)
  BY DEF CodeStays, FrameOK
<1>7. \A g : OpAt(g)' = OpAt(g)
  BY DEF CodeStays, OpAt
<1>8. \A i \in DOMAIN s : i # n => FrameOK(s[i], FALSE) /\ OpAt(s[i]) = "EVAL"
  BY <1>1, <1>2 DEF FramesOK
<1>9. \A i \in DOMAIN s2 : s2[i].co = s[i].co /\ s2[i].tries = s[i].tries
  BY <1>3, <1>4, <1>5 DEF GoesBack
<1>10. FramesOK'
  <2>1. \A i \in DOMAIN s2 : i # m \/ phase' # "error" => FrameOK(s2[i], FALSE)
    BY <1>4, <1>5, <1>8 DEF GoesBack
  <2>2. phase' = "error" => FrameOK(s2[m], TRUE)
    BY <1>4 DEF GoesBack
  <2>3. \A i \in DOMAIN s2 : i # m => OpAt(s2[i]) = "EVAL"
    BY <1>5, <1>8
  <2>4. exc' \in Nat /\ defined' \subseteq DOMAIN codes'
    BY <1>1 DEF NothingLeft, CodeStays, FramesOK
  <2>5. Len(frames') = m /\ frames' = s2
    BY <1>2, <1>4
  <2> QED
    BY <1>4, <1>5, <1>6, <1>7, <2>1, <2>2, <2>3, <2>4, <2>5 DEF FramesOK
<1>11. RunPending'
  <2>1. SUFFICES ASSUME phase' = "run", exc' # NoException
                 PROVE  \E i \in DOMAIN s2 : FramePending(s2[i])
    BY <1>2 DEF RunPending, FramePending, EntryPending
  <2>2. phase = "run" /\ exc # NoException /\ OpAt(s[n]) # "END_TRY"
    BY <1>3, <2>1 DEF NothingLeft, GoesBack
  <2>3. PICK i \in DOMAIN s : FramePending(s[i])
    BY <1>1, <1>2, <2>2 DEF RunPending
  <2>4. ~FramePending(s[n])
    BY <1>3 DEF NothingLeft, FramePending
  <2>5. i \in DOMAIN s2
    BY <1>5, <2>3, <2>4
  <2>6. FramePending(s2[i])
    BY <1>9, <2>3, <2>5 DEF FramePending
  <2> QED
    BY <2>5, <2>6
<1>12. NoTryInFinally'
  <2>1. SUFFICES ASSUME "tryInFinally" \notin used
                 PROVE  /\ \A i \in DOMAIN s2 : i # m => NotInFinally(s2[i])
                        /\ PendingLeft(s2[m])
    <3>1. used' = used
      BY DEF CodeStays
    <3> QED
      BY <1>2, <1>4, <3>1 DEF NoTryInFinally, NotInFinally, PendingLeft
  <2>2. \A i \in DOMAIN s : i # n => NotInFinally(s[i])
    BY <1>1, <1>2, <2>1 DEF NoTryInFinally
  <2>3. PendingLeft(s[m])
    <3>1. NotInFinally(s[m]) /\ FrameOK(s[m], FALSE)
      BY <1>5, <1>8, <2>2
    <3>2. \A k \in DOMAIN s[m].tries : s[m].tries[k].finally \/ s[m].tries[k].pending = NoException
      BY <3>1 DEF FrameOK, HistoryAt, EntryOK
    <3> QED
      BY <3>1, <3>2 DEF NotInFinally, PendingLeft
  <2>4. PendingLeft(s2[m])
    BY <1>5, <1>9, <2>3 DEF PendingLeft
  <2> QED
    BY <1>5, <2>2, <2>4
<1>13. StackTops'
  <2>1. codes' = codes /\ used' = used /\ stackTop' = stackTop /\ frames' = s2
    BY <1>2 DEF CodeStays, TopsStay
  <2>2. ASSUME "recursiveTry" \notin used
        PROVE  /\ \A i, j \in DOMAIN s2 :
                    i # j /\ s2[i].co = s2[j].co => codes[s2[i].co].handlers = <<>>
               /\ \A i \in DOMAIN s2 : TopsOf(s2[i])
    <3>1. /\ \A i, j \in DOMAIN s : i # j /\ s[i].co = s[j].co => codes[s[i].co].handlers = <<>>
          /\ \A i \in DOMAIN s : TopsOf(s[i])
      BY <1>1, <1>2, <2>2 DEF StackTops
    <3>2. \A i \in DOMAIN s2 : TopsOf(s2[i])
      BY <1>5, <1>9, <3>1 DEF TopsOf
    <3> QED
      BY <1>5, <1>9, <3>1, <3>2
  <2>3. \A g : TopsOf(g)' <=> TopsOf(g)
    BY <2>1 DEF TopsOf
  <2> QED
    BY <1>1, <2>1, <2>2, <2>3 DEF StackTops
<1>14. EntriesKept
  <2>1. \A k \in DOMAIN s[n].tries : FALSE
    BY <1>3 DEF NothingLeft
  <2>2. \A i \in DOMAIN s2 : FrameKept(s[i], s2[i])
    BY <1>9 DEF FrameKept
  <2> QED
    BY <1>2, <1>5, <2>1, <2>2 DEF EntriesKept
<1>15. phase' # "compile"
  BY DEF GoesBack
<1> QED
  BY <1>10, <1>11, <1>12, <1>13, <1>14, <1>15 DEF MachineInv

\* RETURN.
LEMMA ValueReturned ==
  ASSUME CodeInv, BlockInv, MachineInv, Straight, ReturnValue
  PROVE  MachineInv' /\ EntriesKept
<1>1. phase = "run" /\ Instr.op = "RETURN" /\ Same
  <2>1. Executing("RETURN") /\ Same
    BY DEF ReturnValue
  <2> QED
    BY <2>1 DEF Executing
<1>2. FramesOK
  BY <1>1 DEF MachineInv
<1>3. Running(Top)
  BY <1>1, Runs
<1>4. CodeStays /\ TopsStay
  BY <1>1, <1>2 DEF Same, compilerVars, CodeStays, TopsStay, FramesOK
<1>5. NothingLeft
  <2>1. PICK code, hs, a, tries :
          /\ code = codes[Top.co].code /\ hs = codes[Top.co].handlers /\ a = Top.ip
          /\ tries = Top.tries
    OBVIOUS
  <2>2. a \in DOMAIN code /\ code[a].op = "RETURN" /\ PromisedAt(code, hs, DOMAIN codes, a)
    BY <1>1, <1>3, <2>1 DEF Running, Ready, Instr
  <2>3. AroundAt(hs, a, FALSE) = {}
    BY <2>2 DEF PromisedAt, AroundAt
  <2>4. HistoryAt(hs, a, FALSE, tries)
    BY <1>3, <2>1 DEF Running, FrameOK
  <2>5. tries = <<>>
    <3>1. DOMAIN tries = {} /\ tries \in Seq(Entry)
      BY <2>3, <2>4 DEF HistoryAt
    <3> QED
      BY <3>1, EmptySeq
  <2> QED
    BY <1>1, <2>1, <2>2, <2>5 DEF NothingLeft, OpAt, Same
<1>6. CASE Len(frames) = 1
  <2>1. Ended
    BY <1>6 DEF ReturnValue, Ended
  <2> QED
    BY <1>1, <1>4, <1>5, <1>6, <2>1, LastReturns
<1>7. CASE Len(frames) # 1
  <2>1. PICK s, n, callers, f, f2 :
          /\ s = frames /\ n = Len(frames) /\ callers = Front(frames) /\ f = Last(callers)
          /\ f2 = [f EXCEPT !.sp = @ + 1, !.ip = @ + 1]
    OBVIOUS
  <2>2. s \in Seq(Frame) /\ s # <<>> /\ Len(s) = n /\ n # 1
    BY <1>1, <1>2, <1>7, <2>1 DEF FramesOK
  <2>3. /\ callers \in Seq(Frame) /\ n \in Nat \ {0} /\ Len(callers) = n - 1
        /\ \A k \in 1 .. n - 1 : callers[k] = s[k]
    BY <2>1, <2>2, Fronts
  <2>4. n - 1 \in DOMAIN callers /\ n - 1 \in DOMAIN s /\ callers # <<>> /\ n - 1 # n /\ n - 1 < n
    BY <2>2, <2>3
  <2>5. f = callers[n - 1] /\ f = s[n - 1]
    <3>1. Last(callers) = callers[Len(callers)]
      BY <2>3, <2>4, Fronts
    <3> QED
      BY <2>1, <2>3, <2>4, <3>1
  <2>6. FrameOK(f, FALSE) /\ OpAt(f) = "EVAL"
    <3>1. FrameOK(s[n - 1], FALSE) /\ OpAt(s[n - 1]) = "EVAL"
      BY <1>2, <2>1, <2>4 DEF FramesOK
    <3> QED
      BY <2>5, <3>1
  <2>7. f2 \in Frame /\ f2.co = f.co /\ f2.tries = f.tries /\ f2.ip = f.ip + 1
    <3>1. f \in Frame /\ f2 = [f EXCEPT !.sp = f.sp + 1, !.ip = f.ip + 1]
      BY <2>1, <2>6 DEF FrameOK
    <3>2. PICK sp, ip : sp = f.sp + 1 /\ ip = f.ip + 1
      OBVIOUS
    <3>3. sp \in Int /\ ip \in Nat
      BY <3>1, <3>2 DEF Frame
    <3>4. f2 = [f EXCEPT !.sp = sp, !.ip = ip]
      BY <3>1, <3>2
    <3>5. f2 \in Frame /\ f2.co = f.co /\ f2.tries = f.tries /\ f2.ip = ip
      BY <3>1, <3>3, <3>4 DEF Frame
    <3> QED
      BY <3>2, <3>5
  <2>8. FrameOK(f2, FALSE)
    <3>1. PICK code, hs, a, tries :
            code = codes[f.co].code /\ hs = codes[f.co].handlers /\ a = f.ip /\ tries = f.tries
      OBVIOUS
    <3>2. a \in DOMAIN code /\ f.co \in DOMAIN codes /\ HistoryAt(hs, a, FALSE, tries)
      BY <2>6, <3>1 DEF FrameOK
    <3>3. Sound(code, hs)
      BY <1>1, <3>1, <3>2, SoundCode DEF Ready
    <3>4. code[a].op = "EVAL"
      BY <2>6, <3>1 DEF OpAt
    <3>5. HistoryAt(hs, a + 1, FALSE, tries) /\ a + 1 \in DOMAIN code
      BY <3>2, <3>3, <3>4, HistoryOnward
    <3> QED
      BY <2>7, <3>1, <3>2, <3>5 DEF FrameOK
  <2>9. frames' = [callers EXCEPT ![Len(callers)] = f2] /\ phase' = "run"
    BY <1>1, <1>7, <2>1 DEF ReturnValue
  <2>10. ReturnsTo(f2)
    <3>1. ReplacedLast(frames', callers, f2)
      BY <2>3, <2>4, <2>7, <2>9, FrameReplaced
    <3>2. /\ frames' \in Seq(Frame) /\ Len(frames') = n - 1 /\ frames'[n - 1] = f2
          /\ \A i \in DOMAIN callers : i # n - 1 => frames'[i] = callers[i]
      BY <2>3, <3>1 DEF ReplacedLast
    <3>3. \A i \in DOMAIN s : i < n - 1 => frames'[i] = s[i]
      <4> SUFFICES ASSUME NEW i \in DOMAIN s, i < n - 1 PROVE frames'[i] = s[i]
        OBVIOUS
      <4>1. i \in 1 .. n - 1 /\ i \in DOMAIN callers /\ i # n - 1
        BY <2>2, <2>3
      <4> QED
        BY <2>3, <3>2, <4>1
    <3> QED
      BY <2>1, <2>4, <3>2, <3>3 DEF ReturnsTo
  <2>11. GoesBack(f, f2)
    BY <1>1, <2>7, <2>8, <2>9 DEF GoesBack
  <2>12. f = frames[Len(frames) - 1]
    BY <2>1, <2>5
  <2> QED
    BY <1>1, <1>4, <1>5, <2>10, <2>11, <2>12, Returns
<1> QED
  BY <1>6, <1>7

\* error:, without a handler.
LEMMA Propagating ==
  ASSUME CodeInv, BlockInv, MachineInv, Straight, Propagate
  PROVE  MachineInv' /\ EntriesKept
<1>1. /\ phase = "error" /\ Around = {} /\ Same /\ frames' = Front(frames)
      /\ phase' = IF Len(frames) = 1 THEN "done" ELSE "error"
  BY DEF Propagate
<1>2. FramesOK
  BY <1>1 DEF MachineInv
<1>3. Failed(Top)
  BY <1>1, Fails
<1>4. CodeStays /\ TopsStay
  BY <1>1, <1>2 DEF Same, compilerVars, CodeStays, TopsStay, FramesOK
<1>5. NothingLeft
  <2>1. PICK code, hs, a, tries :
          /\ code = codes[Top.co].code /\ hs = codes[Top.co].handlers /\ a = Top.ip
          /\ tries = Top.tries
    OBVIOUS
  <2>2. AroundAt(hs, a, TRUE) = {}
    BY <1>1, <1>3, <2>1, AroundIs
  <2>3. HistoryAt(hs, a, TRUE, tries)
    BY <1>3, <2>1 DEF Failed, FrameOK
  <2>4. tries = <<>>
    <3>1. DOMAIN tries = {} /\ tries \in Seq(Entry)
      BY <2>2, <2>3 DEF HistoryAt
    <3> QED
      BY <3>1, EmptySeq
  <2> QED
    BY <1>1, <2>1, <2>4 DEF NothingLeft, Same
<1>6. PICK s, n, callers :
        s = frames /\ n = Len(frames) /\ callers = Front(frames)
  OBVIOUS
<1>7. s \in Seq(Frame) /\ s # <<>> /\ Len(s) = n
  BY <1>1, <1>2, <1>6 DEF FramesOK
<1>8. /\ callers \in Seq(Frame) /\ n \in Nat \ {0} /\ Len(callers) = n - 1
      /\ \A k \in 1 .. n - 1 : callers[k] = s[k]
  BY <1>6, <1>7, Fronts
<1>9. CASE n = 1
  <2>1. callers = <<>>
    BY <1>8, <1>9, EmptySeq
  <2>2. Ended
    BY <1>1, <1>6, <1>9, <2>1 DEF Ended
  <2> QED
    BY <1>1, <1>4, <1>5, <1>6, <1>9, <2>2, LastReturns
<1>10. CASE n # 1
  <2>1. n - 1 \in DOMAIN callers /\ n - 1 \in DOMAIN s /\ n - 1 # n
    BY <1>7, <1>8, <1>10
  <2>2. PICK f : f = s[n - 1]
    OBVIOUS
  <2>3. FrameOK(f, FALSE) /\ OpAt(f) = "EVAL"
    <3>1. FrameOK(s[n - 1], FALSE) /\ OpAt(s[n - 1]) = "EVAL"
      BY <1>2, <1>6, <2>1 DEF FramesOK
    <3> QED
      BY <2>2, <3>1
  <2>4. FrameOK(f, TRUE)
    <3>1. PICK code, hs, a, tries :
            code = codes[f.co].code /\ hs = codes[f.co].handlers /\ a = f.ip /\ tries = f.tries
      OBVIOUS
    <3>2. a \in DOMAIN code /\ f.co \in DOMAIN codes /\ HistoryAt(hs, a, FALSE, tries)
      BY <2>3, <3>1 DEF FrameOK
    <3>3. Sound(code, hs)
      BY <1>1, <3>1, <3>2, SoundCode DEF Ready
    <3>4. code[a].op = "EVAL"
      BY <2>3, <3>1 DEF OpAt
    <3>5. HistoryAt(hs, a, TRUE, tries)
      BY <3>2, <3>3, <3>4, HistoryOnward
    <3> QED
      BY <2>3, <3>1, <3>2, <3>5 DEF FrameOK
  <2>5. frames' = callers /\ phase' = "error"
    BY <1>1, <1>6, <1>10
  <2>6. ReturnsTo(f)
    <3>1. callers[n - 1] = f
      BY <1>8, <2>1, <2>2
    <3>2. \A i \in DOMAIN s : i < n - 1 => callers[i] = s[i]
      <4> SUFFICES ASSUME NEW i \in DOMAIN s, i < n - 1 PROVE callers[i] = s[i]
        OBVIOUS
      <4>1. i \in 1 .. n - 1
        BY <1>7, <1>8
      <4> QED
        BY <1>8, <4>1
    <3> QED
      BY <1>6, <1>8, <2>1, <2>5, <3>1, <3>2 DEF ReturnsTo
  <2>7. GoesBack(f, f)
    BY <1>1, <2>4, <2>5 DEF GoesBack
  <2>8. f = frames[Len(frames) - 1]
    BY <1>6, <2>2
  <2> QED
    BY <1>1, <1>4, <1>5, <2>6, <2>7, <2>8, Returns
<1> QED
  BY <1>9, <1>10

-----------------------------------------------------------------------------
(* The machine. *)

\* Every step of execute keeps the invariant.
LEMMA MachineRuns ==
  ASSUME CodeInv, BlockInv, MachineInv, Straight, Run
  PROVE  MachineInv' /\ EntriesKept
<1>1. CASE Eval \/ Pop \/ Load \/ MakeFunction \/ Jump \/ JumpIfFalse \/ GetIter \/ ForEach
           \/ CatchDoesNot
  BY <1>1, GoingOn
<1>2. CASE Store \/ Delete
  BY <1>2, VariableSteps
<1>3. CASE \/ EvalFails \/ DeleteFails \/ JumpIfFalseFails \/ GetIterFails \/ ForEachFails
           \/ RaiseException
  BY <1>3, Failing
<1>4. CASE LoadFails
  BY <1>4, LoadFailing
<1>5. ASSUME NEW c \in defined, Call(c) PROVE MachineInv' /\ EntriesKept
  BY <1>5, Calling
<1>6. CASE ReturnValue
  BY <1>6, ValueReturned
<1>7. CASE EnterTry
  BY <1>7, Entering
<1>8. CASE CatchMatches
  BY <1>8, Catching
<1>9. CASE LeaveTry
  BY <1>9, Leaving
<1>10. CASE HandleError
  BY <1>10, Handling
<1>11. CASE Propagate
  BY <1>11, Propagating
<1> QED
  BY <1>1, <1>2, <1>3, <1>4, <1>5, <1>6, <1>7, <1>8, <1>9, <1>10, <1>11 DEF Run

\* The compiler does not touch the machine, until the program is run.
LEMMA CompilePhase ==
  ASSUME Compile
  PROVE  phase = "compile" /\ phase' \in {"compile", "run"}
BY DEF Compile, ExpressionStatement, BeginWhile, BeginForEach, EndLoop, Break, Continue, BeginIf,
   Else, EndIf, Return, Raise, BeginTry, EndTryBlock, BeginCatch, EndCatch, BeginFinally, EndTry,
   BeginFunction, EndFunction, Finish, BeginCompound, BeginPlain, Begin, End

\* The state in which it begins to run satisfies the invariant.
LEMMA MachineStarts ==
  ASSUME MachineInv, CodeInv', BlockInv', Compile,
         stackTop' = IF phase' = "run" THEN Unset ELSE stackTop,
         UNCHANGED <<frames, iterator, exc, defined>>
  PROVE  MachineInv'
<1>1. phase = "compile" /\ phase' \in {"compile", "run"}
  BY CompilePhase
<1>2. frames = <<NewFrame(1, 1)>> /\ exc = NoException /\ defined = {}
  BY <1>1 DEF MachineInv
<1>3. frames' = frames /\ exc' = exc /\ defined' = defined
  OBVIOUS
<1>4. ASSUME Straight', phase' # "compile"
      PROVE  FramesOK' /\ RunPending' /\ NoTryInFinally' /\ StackTops'
  <2>1. PICK q : q = NewFrame(1, 1)
    OBVIOUS
  <2>2. frames' = <<q>> /\ exc' = NoException /\ defined' = {} /\ phase' = "run"
    BY <1>1, <1>2, <1>3, <1>4, <2>1
  <2>4. /\ q \in Frame /\ q.co \in DOMAIN codes' /\ q.ip \in DOMAIN codes'[q.co].code
        /\ HistoryAt(codes'[q.co].handlers, q.ip, FALSE, q.tries)
    <3>1. FrameOK(NewFrame(1, 1), FALSE)'
      BY <1>4, FirstFrameNext
    <3> QED
      BY <2>1, <3>1 DEF FrameOK
  <2>5. q.tries = <<>> /\ DOMAIN <<>> = {}
    BY <2>1 DEF NewFrame
  <2>6. frames' \in Seq(Frame) /\ DOMAIN frames' = {1} /\ Len(frames') = 1 /\ frames'[1] = q
    BY <2>2, <2>4
  <2>7. FramesOK'
    <3>1. \A i \in DOMAIN frames' : frames'[i] = q /\ i = Len(frames')
      BY <2>6
    <3>2. exc' \in Nat /\ defined' \subseteq DOMAIN codes' /\ phase' # "error" /\ frames' # <<>>
      BY <2>2, <2>6 DEF NoException
    <3> QED
      BY <2>4, <2>6, <3>1, <3>2 DEF FramesOK, FrameOK
  <2>8. RunPending'
    BY <2>2 DEF RunPending
  <2>9. NoTryInFinally'
    BY <2>5, <2>6 DEF NoTryInFinally, PendingLeft
  <2>10. StackTops'
    <3>1. stackTop' = Unset
      BY <2>2
    <3>2. /\ DOMAIN stackTop' = DOMAIN codes'
          /\ \A c \in DOMAIN codes' :
               stackTop'[c] = [h \in DOMAIN codes'[c].handlers |-> NullPtr]
      BY <3>1 DEF Unset
    <3>3. \A c \in DOMAIN codes' : stackTop'[c] \in [DOMAIN codes'[c].handlers -> Int]
      <4> SUFFICES ASSUME NEW c \in DOMAIN codes'
                   PROVE  stackTop'[c] \in [DOMAIN codes'[c].handlers -> Int]
        OBVIOUS
      <4>1. PICK D : D = DOMAIN codes'[c].handlers
        OBVIOUS
      <4>2. [h \in D |-> NullPtr] \in [D -> Int]
        BY DEF NullPtr
      <4> QED
        BY <3>2, <4>1, <4>2
    <3>4. TopsOf(q)'
      BY <2>5 DEF TopsOf
    <3> QED
      BY <2>6, <3>2, <3>3, <3>4 DEF StackTops, TopsOf
  <2> QED
    BY <2>7, <2>8, <2>9, <2>10
<1> QED
  BY <1>2, <1>3, <1>4 DEF MachineInv

\* Nothing changes.
LEMMA MachineRests ==
  ASSUME MachineInv, UNCHANGED vars
  PROVE  MachineInv'
<1>1. /\ codes' = codes /\ used' = used /\ phase' = phase /\ frames' = frames
      /\ exc' = exc /\ stackTop' = stackTop /\ defined' = defined
  BY DEF vars, compilerVars, machineVars
<1>2. \A f, gone : FrameOK(f, gone)' <=> FrameOK(f, gone)
  BY <1>1 DEF FrameOK
<1>3. \A f : OpAt(f)' = OpAt(f)
  BY <1>1 DEF OpAt
<1>4. Straight' => Straight
  BY <1>1 DEF Straight
<1>5. FramesOK => FramesOK'
  BY <1>1, <1>2, <1>3 DEF FramesOK
<1>6. RunPending => RunPending'
  BY <1>1, <1>3 DEF RunPending, FramePending, EntryPending
<1>7. NoTryInFinally => NoTryInFinally'
  BY <1>1 DEF NoTryInFinally, NotInFinally, PendingLeft
<1>8. StackTops => StackTops'
  BY <1>1 DEF StackTops, TopsOf
<1> QED
  BY <1>1, <1>4, <1>5, <1>6, <1>7, <1>8 DEF MachineInv

\* The history of every frame is the one of the address it is at, callers are in
\* an expression, a pending exception has an entry, and stackTop has what each
\* TRY wrote, unless the program does what the features say.
THEOREM MachineInvHolds == Spec => []MachineInv
<1>1. Init => MachineInv
  BY DEF Init, CompilerInit, MachineInv
<1>2. CodeInv /\ BlockInv /\ CodeInv' /\ BlockInv' /\ MachineInv /\ [Next]_vars => MachineInv'
  <2> SUFFICES ASSUME CodeInv, BlockInv, CodeInv', BlockInv', MachineInv, [Next]_vars
               PROVE  MachineInv'
    OBVIOUS
  <2>1. CASE /\ Compile
             /\ stackTop' = IF phase' = "run" THEN Unset ELSE stackTop
             /\ UNCHANGED <<frames, iterator, exc, defined>>
    BY <2>1, MachineStarts
  <2>2. CASE Run
    <3>1. phase' # "compile" /\ used \subseteq used'
      BY <2>2, RunSteps DEF RunStep
    <3>2. ASSUME Straight' PROVE MachineInv'
      BY <2>2, <3>1, <3>2, StraightBefore, MachineRuns
    <3> QED
      BY <3>1, <3>2 DEF MachineInv
  <2>3. CASE UNCHANGED vars
    BY <2>3, MachineRests
  <2> QED
    BY <2>1, <2>2, <2>3 DEF Next
<1> QED
  BY <1>1, <1>2, CodeInvHolds, BlockInvHolds, PTL DEF Spec

\* Without jumps out of try statements the program never goes on as if nothing
\* happened while an exception is pending.
THEOREM PendingHandled ==
  Spec => [](Avoids({"jumpFromTry", "jumpFunction"}) => PendingIsHandled)
<1>1. MachineInv => (Avoids({"jumpFromTry", "jumpFunction"}) => PendingIsHandled)
  <2> SUFFICES ASSUME MachineInv, Avoids({"jumpFromTry", "jumpFunction"}), phase = "run",
                      exc # NoException, Instr.op # "END_TRY"
               PROVE  \E i \in DOMAIN frames : \E k \in DOMAIN frames[i].tries :
                        EntryPending(frames[i].tries[k])
    BY DEF PendingIsHandled, EntryPending
  <2>1. RunPending
    BY DEF MachineInv, Avoids, Straight
  <2>2. OpAt(frames[Len(frames)]) = Instr.op
    BY DEF OpAt, Instr, Top
  <2> QED
    BY <2>1, <2>2 DEF RunPending, FramePending
<1> QED
  BY <1>1, MachineInvHolds, PTL

\* An exception pending when a finally block began is pending when it ends,
\* unless there are try statements in finally blocks.
THEOREM PendingSurvives ==
  Spec => [](Avoids({"jumpFromTry", "jumpFunction"}) => PendingSurvivesFinally)
<1>1. MachineInv => (Avoids({"jumpFromTry", "jumpFunction"}) => PendingSurvivesFinally)
  <2> SUFFICES ASSUME MachineInv, Avoids({"jumpFromTry", "jumpFunction"}),
                      Avoids({"tryInFinally"}), AtOp("END_TRY"), Top.tries # <<>>,
                      Last(Top.tries).pending # NoException, exc = NoException
               PROVE  FALSE
    BY DEF PendingSurvivesFinally
  <2>1. NoTryInFinally /\ FramesOK /\ phase = "run"
    BY DEF MachineInv, Avoids, Straight, AtOp
  <2>2. frames # <<>> /\ FrameOK(Top, FALSE)
    <3>1. frames \in Seq(Frame) /\ frames # <<>>
      BY <2>1 DEF FramesOK
    <3>2. Len(frames) \in DOMAIN frames
      BY <3>1, EmptySeq
    <3> QED
      BY <2>1, <3>1, <3>2 DEF FramesOK, Top
  <2>3. PendingLeft(Top)
    BY <2>1, <2>2 DEF NoTryInFinally, Avoids, Top
  <2>4. Len(Top.tries) \in DOMAIN Top.tries /\ Last(Top.tries) = Top.tries[Len(Top.tries)]
    <3>1. PICK tries : tries = Top.tries
      OBVIOUS
    <3>2. tries \in Seq(Entry) /\ tries # <<>>
      BY <2>2, <3>1 DEF FrameOK, HistoryAt
    <3>3. Len(tries) \in DOMAIN tries /\ Last(tries) = tries[Len(tries)]
      <4>1. Len(tries) \in DOMAIN tries
        BY <3>2, EmptySeq
      <4> QED
        BY <4>1 DEF Last
    <3> QED
      BY <3>1, <3>3
  <2> QED
    BY <2>3, <2>4 DEF PendingLeft
<1> QED
  BY <1>1, MachineInvHolds, PTL

\* END_TRY restores what the TRY of the same activation wrote, although all
\* activations share stackTop, unless a function with a try statement calls
\* itself from within it or a jump leaves a try statement.
THEOREM EndTryRestoresTop == Spec => [](Avoids({"jumpFunction"}) => EndTryRestores)
<1>1. CodeInv /\ BlockInv /\ MachineInv => (Avoids({"jumpFunction"}) => EndTryRestores)
  <2> SUFFICES ASSUME CodeInv, BlockInv, MachineInv, Avoids({"jumpFunction"}),
                      Avoids({"recursiveTry", "jumpFromTry"}), AtOp("END_TRY")
               PROVE  /\ Top.tries # <<>> /\ Last(Top.tries).h = EndingAt(Top.ip)
                      /\ Restored(EndingAt(Top.ip)) = Last(Top.tries).sp
    BY DEF EndTryRestores, StackTopOfTry
  <2>1. Straight /\ phase = "run" /\ Instr.op = "END_TRY" /\ "recursiveTry" \notin used
    BY DEF Avoids, Straight, AtOp
  <2>2. Running(Top) /\ StackTops /\ FramesOK
    BY <2>1, Runs DEF MachineInv
  <2>3. PICK f, code, hs, a, tries, h :
          /\ f = Top /\ tries = f.tries /\ code = codes[f.co].code /\ hs = codes[f.co].handlers
          /\ a = f.ip /\ h = EndingAt(a)
    OBVIOUS
  <2>4. /\ Sound(code, hs) /\ a \in DOMAIN code /\ code[a].op = "END_TRY"
        /\ hs \in Seq(Handler) /\ tries \in Seq(Entry)
    <3>1. Sound(code, hs) /\ a \in DOMAIN code /\ f \in Frame
      BY <2>2, <2>3 DEF Running
    <3>2. code[a].op = "END_TRY" /\ hs \in Seq(Handler) /\ tries \in Seq(Entry)
      BY <2>1, <2>3, <3>1 DEF Instr, Sound, Frame
    <3> QED
      BY <3>1, <3>2
  <2>5. h \in DOMAIN hs /\ EndsAt(hs, h, a)
    <3>1. PromisedAt(code, hs, DOMAIN codes, a)
      BY <2>2, <2>3, <2>4 DEF Running, Ready
    <3>2. \E g \in DOMAIN hs : hs[g].end = a
      BY <2>4, <3>1 DEF PromisedAt
    <3>3. h = CHOOSE g \in DOMAIN hs : hs[g].end = a
      BY <2>3 DEF EndingAt, Handlers
    <3> QED
      BY <3>2, <3>3 DEF EndsAt
  <2>6. HistoryAt(hs, a, FALSE, tries)
    BY <2>2, <2>3 DEF Running, FrameOK
  <2>7. tries # <<>> /\ tries[Len(tries)].h = h
    <3>1. EndedBy(hs, h, a, a + 1)
      BY <2>4, <2>5, Ends
    <3>2. h \in AroundAt(hs, a, FALSE) /\ \A g \in AroundAt(hs, a, FALSE) : h <= g
      BY <3>1 DEF EndedBy
    <3> QED
      BY <2>4, <2>6, <3>2, InnermostLast
  <2>8. Len(tries) \in DOMAIN tries /\ Last(tries) = tries[Len(tries)]
    BY <2>4, <2>6, <2>7, LastInnermost
  <2>9. TopsOf(f)
    <3>1. frames \in Seq(Frame) /\ frames # <<>> /\ f = frames[Len(frames)]
      BY <2>1, <2>2, <2>3 DEF FramesOK, Top
    <3>2. Len(frames) \in DOMAIN frames
      BY <3>1, EmptySeq
    <3> QED
      BY <2>1, <2>2, <3>1, <3>2 DEF StackTops
  <2>10. stackTop[f.co][h] = tries[Len(tries)].sp
    BY <2>3, <2>7, <2>8, <2>9 DEF TopsOf
  <2> QED
    BY <2>3, <2>7, <2>8, <2>10 DEF Restored
<1> QED
  BY <1>1, CodeInvHolds, BlockInvHolds, MachineInvHolds, PTL

\* What the next state says of the entries that are kept.
KeptIn(f, f2) ==
  \A k \in DOMAIN f.tries :
    Unfinished(f, k) =>
      /\ k \in DOMAIN f2.tries
      /\ \/ f2.tries[k].finally
         \/ f2.ip \in HandlerOf(f, f.tries[k]).start .. HandlerOf(f, f.tries[k]).finally - 1

\* Their frame is before the finally block, or in it.
LEMMA KeptRuns ==
  ASSUME CodeInv, BlockInv, Straight, phase # "compile", NEW f, NEW gone, FrameOK(f, gone),
         NEW f2, NEW gone2, FrameOK(f2, gone2), FrameKept(f, f2)
  PROVE  KeptIn(f, f2)
<1> SUFFICES ASSUME NEW k \in DOMAIN f.tries, Unfinished(f, k)
             PROVE  /\ k \in DOMAIN f2.tries
                    /\ \/ f2.tries[k].finally
                       \/ f2.ip \in HandlerOf(f, f.tries[k]).start ..
                                      HandlerOf(f, f.tries[k]).finally - 1
  BY DEF KeptIn
<1>1. PICK code, hs, a, tries, h :
        /\ code = codes[f2.co].code /\ hs = codes[f2.co].handlers /\ a = f2.ip
        /\ tries = f2.tries /\ h = f.tries[k].h
  OBVIOUS
<1>2. f2.co = f.co /\ k \in DOMAIN tries /\ tries[k].h = h
  BY <1>1 DEF FrameKept
<1>3. HandlerOf(f, f.tries[k]) = hs[h] /\ hs[h].finally # NoAddress
  BY <1>1, <1>2 DEF HandlerOf, Unfinished
<1>4. Sound(code, hs) /\ a \in Nat /\ HistoryAt(hs, a, gone2, tries)
  <2>1. f2.co \in DOMAIN codes /\ f2 \in Frame /\ HistoryAt(hs, a, gone2, tries)
    BY <1>1 DEF FrameOK
  <2>2. Sound(code, hs)
    BY <1>1, <2>1, SoundCode DEF Ready
  <2> QED
    BY <1>1, <2>1, <2>2 DEF Frame
<1>5. h \in DOMAIN hs /\ Part(hs[h], a) # 0 /\ EntryOK(tries[k], Part(hs[h], a))
  BY <1>2, <1>4 DEF HistoryAt, AroundAt
<1>6. CASE Part(hs[h], a) = 3
  BY <1>1, <1>2, <1>5, <1>6 DEF EntryOK
<1>7. CASE Part(hs[h], a) # 3
  <2>1. PICK r, p : r = hs[h] /\ p = Part(hs[h], a)
    OBVIOUS
  <2>2. /\ r.start \in Nat /\ r.finally \in Nat /\ p # 0 /\ p # 3
        /\ p # 0 <=> r.start < a /\ a <= r.end
        /\ p = 3 <=> r.finally # NoAddress /\ r.finally <= a /\ a <= r.end
    BY <1>4, <1>5, <1>7, <2>1, Parts
  <2>3. a \in r.start .. r.finally - 1
    BY <1>3, <1>4, <2>1, <2>2
  <2> QED
    BY <1>1, <1>2, <1>3, <2>1, <2>3
<1> QED
  BY <1>6, <1>7

\* Every frame has such a history.
LEMMA FramesSome ==
  FramesOK => \A i \in DOMAIN frames : \E gone \in BOOLEAN : FrameOK(frames[i], gone)
BY DEF FramesOK

\* The same of the next state.
LEMMA FramesSomeNext ==
  (FramesOK => \A i \in DOMAIN frames : \E gone \in BOOLEAN : FrameOK(frames[i], gone))'
BY FramesSome, PTL

\* Control leaves the protected block and the catch blocks of a try statement
\* with a finally block only into that block.
THEOREM FinallyBlocksRun ==
  ASSUME {"jumpFromTry", "jumpFunction"} \cap Features = {}
  PROVE  Spec => FinallyRuns
<1> DEFINE FinallyAhead(i, k) ==
      LET e == frames[i].tries[k]
          h == HandlerOf(frames[i], e)
      IN  h.finally # NoAddress /\ ~e.finally =>
            /\ i \in DOMAIN frames' /\ k \in DOMAIN frames'[i].tries
            /\ \/ frames'[i].tries[k].finally
               \/ frames'[i].ip \in h.start .. h.finally - 1
<1>1. CodeInv /\ BlockInv /\ MachineInv /\ MachineInv' /\ [Next]_vars =>
        [\A i \in DOMAIN frames : \A k \in DOMAIN frames[i].tries : FinallyAhead(i, k)]_vars
  <2> SUFFICES ASSUME CodeInv, BlockInv, MachineInv, MachineInv', Next,
                      NEW i \in DOMAIN frames, NEW k \in DOMAIN frames[i].tries
               PROVE  FinallyAhead(i, k)
    OBVIOUS
  <2>1. CASE Compile
    <3>1. frames = <<NewFrame(1, 1)>>
      BY <2>1, CompilePhase DEF MachineInv
    <3>2. frames[i].tries = <<>>
      BY <3>1 DEF NewFrame
    <3> QED
      BY <3>2
  <2>2. CASE Run
    <3>1. /\ phase \in {"run", "error"} /\ phase' # "compile" /\ codes' = codes
          /\ used' \subseteq Features
      BY <2>2, RunSteps DEF RunStep, CodeInv, compilerVars
    <3>2. Straight /\ Straight'
      BY <2>2, <3>1, RunSteps DEF RunStep, Straight
    <3>3. EntriesKept
      BY <2>2, <3>2, MachineRuns
    <3>4. FramesOK /\ FramesOK'
      BY <3>1, <3>2 DEF MachineInv
    <3>5. SUFFICES ASSUME Unfinished(frames[i], k)
                   PROVE  /\ i \in DOMAIN frames' /\ k \in DOMAIN frames'[i].tries
                          /\ \/ frames'[i].tries[k].finally
                             \/ frames'[i].ip \in HandlerOf(frames[i], frames[i].tries[k]).start ..
                                  HandlerOf(frames[i], frames[i].tries[k]).finally - 1
      BY DEF Unfinished, HandlerOf
    <3>6. i \in DOMAIN frames' /\ FrameKept(frames[i], frames'[i])
      BY <3>3, <3>5 DEF EntriesKept
    <3>7. PICK f, f2 : f = frames[i] /\ f2 = frames'[i]
      OBVIOUS
    <3>8. \E gone \in BOOLEAN : FrameOK(f, gone)
      BY <3>4, <3>7, FramesSome
    <3>9. \E gone \in BOOLEAN : FrameOK(f2, gone)
      <4>1. \A j \in DOMAIN frames' : \E gone \in BOOLEAN : FrameOK(frames'[j], gone)
        BY <3>1, <3>4, FramesSomeNext DEF FrameOK
      <4> QED
        BY <3>6, <3>7, <4>1
    <3>10. KeptIn(f, f2)
      BY <3>1, <3>2, <3>6, <3>7, <3>8, <3>9, KeptRuns
    <3> QED
      BY <3>5, <3>6, <3>7, <3>10 DEF KeptIn
  <2> QED
    BY <2>1, <2>2 DEF Next
<1> QED
  BY <1>1, CodeInvHolds, BlockInvHolds, MachineInvHolds, PTL DEF Spec, FinallyRuns


-----------------------------------------------------------------------------
(* Where catch blocks begin. *)

\* A try statement r has one catch block: LOAD and CATCH.
CatchStarts(code, r) ==
  /\ r.catches = <<r.first>> /\ {r.first, r.first + 1} \subseteq DOMAIN code
  /\ code[r.first].op = "LOAD" /\ code[r.first].arg # 0 /\ code[r.first + 1].op = "CATCH"

\* So has open try statement k, or it is about to have one.
TryBegins(k) ==
  /\ open[k].catches # <<>> => CatchStarts(codes[Home(k)].code, open[k])
  /\ open[k].kind = "handlers" /\ open[k].catches = <<>> =>
       k = Len(open) /\ open[k].first = Offset
CatchInv ==
  /\ \A c \in DOMAIN codes : \A h \in DOMAIN codes[c].handlers :
       CatchStarts(codes[c].code, codes[c].handlers[h])
  /\ phase = "compile" => \A k \in DOMAIN open : open[k].kind \in Tries => TryBegins(k)

\* Code that keeps its instructions, and operands that are not 0.
Extends(new, code) ==
  \A a \in DOMAIN code :
    /\ a \in DOMAIN new /\ new[a].op = code[a].op
    /\ code[a].arg # 0 => new[a].arg # 0
CodeKept == \A c \in DOMAIN codes : c \in DOMAIN codes' /\ Extends(codes'[c].code, codes[c].code)
\* Try statement k is as it was, as far as its first catch block goes.
CatchKept(k) ==
  /\ k \in DOMAIN open /\ open[k].kind \in Tries
  /\ open'[k].first = open[k].first /\ open'[k].catches = open[k].catches
  /\ open'[k].kind = "handlers" => open[k].catches # <<>>

\* Where a catch block begins it still does.
LEMMA StartsKept ==
  ASSUME NEW new, NEW code, Extends(new, code), NEW r, CatchStarts(code, r),
         NEW r2, r2.first = r.first, r2.catches = r.catches
  PROVE  CatchStarts(new, r2)
BY DEF Extends, CatchStarts

\* A step keeps the invariant when new handlers and changed try statements satisfy it.
LEMMA StepCatches ==
  ASSUME CodeInv, CatchInv, phase = "compile", CodeKept, HomesStay,
         open \in Seq(OpenStatement), open' \in Seq(OpenStatement),
         \A c \in DOMAIN codes' : \A h \in DOMAIN codes'[c].handlers :
           \/ CatchStarts(codes'[c].code, codes'[c].handlers[h])
           \/ /\ c \in DOMAIN codes /\ h \in DOMAIN codes[c].handlers
              /\ codes'[c].handlers[h] = codes[c].handlers[h],
         \A k \in DOMAIN open' : open'[k].kind \in Tries => CatchKept(k) \/ TryBegins(k)'
  PROVE  CatchInv'
<1>1. HomesHold
  BY HomesAre
<1>2. ASSUME NEW c \in DOMAIN codes', NEW h \in DOMAIN codes'[c].handlers
      PROVE  CatchStarts(codes'[c].code, codes'[c].handlers[h])
  <2>1. CASE /\ c \in DOMAIN codes /\ h \in DOMAIN codes[c].handlers
             /\ codes'[c].handlers[h] = codes[c].handlers[h]
    <3>1. CatchStarts(codes[c].code, codes[c].handlers[h])
      BY <2>1 DEF CatchInv
    <3>2. Extends(codes'[c].code, codes[c].code)
      BY <2>1 DEF CodeKept
    <3> QED
      BY <2>1, <3>1, <3>2, StartsKept
  <2> QED
    BY <1>2, <2>1
<1>3. ASSUME NEW k \in DOMAIN open', open'[k].kind \in Tries PROVE TryBegins(k)'
  <2>1. CASE CatchKept(k)
    <3>1. k \in DOMAIN open /\ open[k].kind \in Tries /\ TryBegins(k)
      BY <2>1 DEF CatchKept, CatchInv
    <3>2. Home(k)' = Home(k) /\ Home(k) \in DOMAIN codes
      BY <1>1, <1>3, <3>1 DEF HomesStay, HomesHold
    <3>3. Extends(codes'[Home(k)].code, codes[Home(k)].code)
      BY <3>2 DEF CodeKept
    <3>4. ASSUME open'[k].catches # <<>> PROVE CatchStarts(codes'[Home(k)'].code, open'[k])
      <4>1. CatchStarts(codes[Home(k)].code, open[k])
        BY <2>1, <3>1, <3>4 DEF TryBegins, CatchKept
      <4>2. open'[k].first = open[k].first /\ open'[k].catches = open[k].catches
        BY <2>1 DEF CatchKept
      <4> QED
        BY <3>2, <3>3, <4>1, <4>2, StartsKept
    <3>5. open'[k].kind = "handlers" => open'[k].catches # <<>>
      BY <2>1 DEF CatchKept
    <3> QED
      BY <3>4, <3>5 DEF TryBegins
  <2> QED
    BY <1>3, <2>1
<1> QED
  BY <1>2, <1>3 DEF CatchInv

\* Patching to an address keeps the instructions.
LEMMA PatchExtends ==
  ASSUME NEW code, NEW at, NEW target, target # 0, NEW new, PatchedTo(new, code, at, target),
         NEW old, \A a \in DOMAIN old : a \in DOMAIN code /\ code[a] = old[a]
  PROVE  Extends(new, old)
BY DEF PatchedTo, Extends

\* SetCode keeps the other code objects and all handlers.
LEMMA SetKept ==
  ASSUME CodesOK, NEW new, Rewrites(new), Extends(new, Code)
  PROVE  /\ CodeKept /\ codes'[cur].code = new
         /\ \A c \in DOMAIN codes' : \A h \in DOMAIN codes'[c].handlers :
              /\ c \in DOMAIN codes /\ h \in DOMAIN codes[c].handlers
              /\ codes'[c].handlers[h] = codes[c].handlers[h]
<1>1. /\ DOMAIN codes' = DOMAIN codes /\ codes'[cur].code = new
      /\ \A c \in DOMAIN codes \ {cur} : codes'[c] = codes[c]
      /\ SameHandlers
  BY SetCodeGrows
<1>2. ASSUME NEW c \in DOMAIN codes PROVE Extends(codes'[c].code, codes[c].code)
  <2>1. CASE c = cur
    BY <1>1, <2>1 DEF Code
  <2>2. CASE c # cur
    BY <1>1, <2>2 DEF Extends
  <2> QED
    BY <2>1, <2>2
<1> QED
  BY <1>1, <1>2 DEF CodeKept, SameHandlers

\* A step that rewrites the current code object.
LEMMA WriteCatches ==
  ASSUME CodeInv, CatchInv, phase = "compile", NEW new, Rewrites(new), Extends(new, Code),
         HomesStay, open' \in Seq(OpenStatement),
         \A k \in DOMAIN open' : open'[k].kind \in Tries => CatchKept(k) \/ TryBegins(k)'
  PROVE  CatchInv'
<1>1. CodesOK /\ open \in Seq(OpenStatement)
  BY HomesAre DEF HeldOK
<1>2. /\ CodeKept
      /\ \A c \in DOMAIN codes' : \A h \in DOMAIN codes'[c].handlers :
           /\ c \in DOMAIN codes /\ h \in DOMAIN codes[c].handlers
           /\ codes'[c].handlers[h] = codes[c].handlers[h]
  BY <1>1, SetKept
<1> QED
  BY <1>1, <1>2, StepCatches

\* A try statement stays as it is, when it is in one of its blocks or not the last one.
LEMMA KeptSame ==
  ASSUME CatchInv, phase = "compile", NEW k \in DOMAIN open, open'[k] = open[k],
         open[k].kind \in Tries, k # Len(open) \/ open[k].kind # "handlers"
  PROVE  CatchKept(k)
BY DEF CatchInv, CatchKept, TryBegins

\* The open statements stay as they are.
LEMMA SameCatches ==
  ASSUME CatchInv, phase = "compile", HeldOK, open' = open, cur' = cur, ~Inside("handlers")
  PROVE  /\ HomesStay /\ open' \in Seq(OpenStatement)
         /\ \A k \in DOMAIN open' : open'[k].kind \in Tries => CatchKept(k)
<1>1. HomesStay
  BY DEF HomesStay, Home
<1>2. ASSUME NEW k \in DOMAIN open, open[k].kind \in Tries PROVE CatchKept(k)
  <2>1. k # Len(open) \/ open[k].kind # "handlers"
    <3>1. open # <<>>
      BY <1>2
    <3> QED
      BY <3>1 DEF Inside, Enclosing
  <2> QED
    BY <1>2, <2>1, KeptSame
<1> QED
  BY <1>1, <1>2 DEF HeldOK

\* Emit appends instructions.
LEMMA EmitKept ==
  ASSUME CodesOK, NEW more \in Seq(Instruction), Emit(more), NEW new, new = Code \o more
  PROVE  Rewrites(new) /\ Extends(new, Code)
<1>1. Rewrites(new) /\ Longer(new, Code, more)
  BY EmitRewrites
<1> QED
  BY <1>1 DEF Longer, Extends

\* A statement that only emits instructions.
LEMMA EmitCatches ==
  ASSUME CodeInv, CatchInv, phase = "compile", NEW more \in Seq(Instruction), Emit(more),
         open' = open, cur' = cur, ~Inside("handlers")
  PROVE  CatchInv'
<1>1. CodesOK /\ HeldOK
  BY HomesAre
<1>2. PICK new : new = Code \o more
  OBVIOUS
<1>3. Rewrites(new) /\ Extends(new, Code)
  BY <1>1, <1>2, EmitKept
<1> QED
  BY <1>1, <1>3, SameCatches, WriteCatches

\* The statements that are not compound, and the end of the program.
LEMMA PlainCatches ==
  ASSUME CodeInv, CatchInv,
         ExpressionStatement \/ Break \/ Continue \/ Return \/ Raise \/ Finish
  PROVE  CatchInv'
<1>1. phase = "compile" /\ CodesOK /\ HeldOK /\ StatesOK
  <2>1. phase = "compile"
    BY DEF ExpressionStatement, Break, Continue, Return, Raise, Finish, BeginPlain, Begin
  <2> QED
    BY <2>1, HomesAre
<1>2. CASE ExpressionStatement
  <2>1. <<I("EVAL"), I("POP")>> \in Seq(Instruction)
    BY InstructionTypes DEF Ops
  <2> QED
    BY <1>1, <1>2, <2>1, EmitCatches DEF ExpressionStatement, BeginPlain, Begin, InBlock
<1>3. CASE Break
  <2>1. <<I("JMP")>> \in Seq(Instruction)
    BY InstructionTypes DEF Ops
  <2> QED
    BY <1>1, <1>3, <2>1, EmitCatches DEF Break, Begin, InBlock
<1>4. CASE Continue
  <2>1. PICK i : i = Unwound("LOOP")
    OBVIOUS
  <2>2. i \in DOMAIN states
    BY <1>1, <1>4, <2>1, UnwoundIsLast DEF Continue
  <2>3. states[i].start \in Nat
    BY <1>1, <2>2, HeldTypes DEF StackState
  <2>4. <<Ia("JMP", states[i].start)>> \in Seq(Instruction)
    BY <2>3, InstructionTypes DEF Ops
  <2>5. Emit(<<Ia("JMP", states[i].start)>>)
    BY <1>4, <2>1 DEF Continue
  <2> QED
    BY <1>1, <1>4, <2>4, <2>5, EmitCatches DEF Continue, Begin, InBlock
<1>5. CASE Return
  <2>1. <<I("EVAL"), I("RETURN")>> \in Seq(Instruction)
    BY InstructionTypes DEF Ops
  <2> QED
    BY <1>1, <1>5, <2>1, EmitCatches DEF Return, Begin, InBlock
<1>6. CASE Raise
  <2>1. <<I("EVAL"), I("RAISE")>> \in Seq(Instruction)
    BY InstructionTypes DEF Ops
  <2> QED
    BY <1>1, <1>6, <2>1, EmitCatches DEF Raise, BeginPlain, Begin, InBlock
<1>7. CASE Finish
  <2>1. <<I("EVAL"), I("RETURN")>> \in Seq(Instruction)
    BY InstructionTypes DEF Ops
  <2> QED
    BY <1>1, <1>7, <2>1, EmitCatches DEF Finish, Inside
<1> QED
  BY <1>2, <1>3, <1>4, <1>5, <1>6, <1>7

\* A compound statement begins, but no catch block.
LEMMA PushCatches ==
  ASSUME CodeInv, CatchInv, phase = "compile", NEW more \in Seq(Instruction), Emit(more),
         NEW s \in OpenStatement, Push(s), cur' = cur, ~Inside("handlers"),
         s.kind # "function", s.kind \in Tries => s.kind = "try" /\ s.catches = <<>>
  PROVE  CatchInv'
<1>1. CodesOK /\ HeldOK
  BY HomesAre
<1>2. PICK new, n, m : new = Code \o more /\ n = Len(open) /\ m = Len(open) + 1
  OBVIOUS
<1>3. Rewrites(new) /\ Extends(new, Code)
  BY <1>1, <1>2, EmitKept
<1>4. /\ open' \in Seq(OpenStatement) /\ Len(open') = m /\ DOMAIN open' = 1 .. m
      /\ open'[m] = s /\ \A k \in DOMAIN open : open'[k] = open[k]
  BY <1>1, <1>2, PushOpens
<1>5. n \in Nat /\ m = n + 1 /\ DOMAIN open = 1 .. n /\ open \in Seq(OpenStatement)
  BY <1>1, <1>2, HeldTypes DEF HeldOK
<1>6. Reshapes
  BY <1>2, <1>4, <1>5 DEF Reshapes, SameFunction
<1>7. HomesStay
  BY <1>6, ReshapedHomes DEF HomesKept, HomesStay
<1>8. ASSUME NEW k \in DOMAIN open', open'[k].kind \in Tries PROVE CatchKept(k) \/ TryBegins(k)'
  <2>1. CASE k = m
    BY <1>4, <1>8, <2>1 DEF TryBegins
  <2>2. CASE k # m
    <3>1. k \in DOMAIN open /\ open'[k] = open[k]
      BY <1>4, <1>5, <2>2
    <3>2. k # Len(open) \/ open[k].kind # "handlers"
      <4>1. open # <<>>
        BY <3>1
      <4> QED
        BY <4>1 DEF Inside, Enclosing
    <3> QED
      BY <1>8, <3>1, <3>2, KeptSame
  <2> QED
    BY <2>1, <2>2
<1> QED
  BY <1>3, <1>4, <1>7, <1>8, WriteCatches

\* The statements that begin so.
LEMMA BeginCatches ==
  ASSUME CodeInv, CatchInv, BeginWhile \/ BeginForEach \/ BeginIf \/ BeginTry
  PROVE  CatchInv'
<1>1. /\ phase = "compile" /\ InBlock
  BY DEF BeginWhile, BeginForEach, BeginIf, BeginTry, BeginCompound, BeginPlain, Begin
<1>2. PICK e \in Nat : e = Offset
  BY <1>1, HomesAre, Offsets
<1>3. NoAddress \in Nat /\ {"while", "foreach", "if", "try"} \subseteq StatementKinds
      /\ {"while", "foreach", "if"} \cap Tries = {}
  BY DEF NoAddress, StatementKinds, Loops, Tries
<1>4. CASE BeginWhile
  <2>1. <<I("EVAL"), I("JMP_IF_FALSE")>> \in Seq(Instruction)
    BY InstructionTypes DEF Ops
  <2>2. PICK s : s = Statement("while", e, e + 1)
    OBVIOUS
  <2>3. s \in OpenStatement /\ s.kind = "while"
    BY <1>3, <2>2, StatementType
  <2> QED
    BY <1>1, <1>2, <1>3, <1>4, <2>1, <2>2, <2>3, PushCatches
    DEF BeginWhile, InBlock
<1>5. CASE BeginForEach
  <2>1. <<I("EVAL"), I("GET_ITER"), I("FOR_EACH"), I("STORE")>> \in Seq(Instruction)
    BY InstructionTypes DEF Ops
  <2>2. PICK s : s = Statement("foreach", e + 2, e + 2)
    OBVIOUS
  <2>3. s \in OpenStatement /\ s.kind = "foreach"
    BY <1>3, <2>2, StatementType
  <2> QED
    BY <1>1, <1>2, <1>3, <1>5, <2>1, <2>2, <2>3, PushCatches
    DEF BeginForEach, InBlock
<1>6. CASE BeginIf
  <2>1. <<I("EVAL"), I("JMP_IF_FALSE")>> \in Seq(Instruction)
    BY InstructionTypes DEF Ops
  <2>2. PICK s : s = Statement("if", NoAddress, e + 1)
    OBVIOUS
  <2>3. s \in OpenStatement /\ s.kind = "if"
    BY <1>3, <2>2, StatementType
  <2> QED
    BY <1>1, <1>2, <1>3, <1>6, <2>1, <2>2, <2>3, PushCatches
    DEF BeginIf, InBlock
<1>7. CASE BeginTry
  <2>1. <<I("TRY")>> \in Seq(Instruction)
    BY InstructionTypes DEF Ops
  <2>2. PICK s : s = Statement("try", e, NoAddress)
    OBVIOUS
  <2>3. s \in OpenStatement /\ s.kind = "try" /\ s.catches = <<>>
    BY <1>3, <2>2, StatementType
  <2> QED
    BY <1>1, <1>2, <1>3, <1>7, <2>1, <2>2, <2>3, PushCatches
    DEF BeginTry, InBlock
<1> QED
  BY <1>4, <1>5, <1>6, <1>7

\* A statement ends.
LEMMA PopCatches ==
  ASSUME CodeInv, CatchInv, phase = "compile", NEW new, Rewrites(new), Extends(new, Code),
         open # <<>>, PopOpen, cur' = cur, Enclosing.kind # "function"
  PROVE  CatchInv'
<1>1. CodesOK /\ HeldOK
  BY HomesAre
<1>2. /\ open' \in Seq(OpenStatement) /\ Len(open') = Len(open) - 1
      /\ \A k \in DOMAIN open' : k \in DOMAIN open /\ open'[k] = open[k]
  BY <1>1, PopOpens
<1>3. HomesStay
  BY <1>1, PopReshapes, ReshapedHomes DEF HomesKept, HomesStay
<1>4. ASSUME NEW k \in DOMAIN open', open'[k].kind \in Tries PROVE CatchKept(k)
  <2>1. PICK n : n = Len(open)
    OBVIOUS
  <2>2. n \in Nat
    BY <1>1, <2>1, HeldTypes
  <2>3. k \in 1 .. n - 1
    BY <1>2, <1>4, <2>1
  <2>4. k # n
    BY <2>2, <2>3
  <2> QED
    BY <1>2, <1>4, <2>1, <2>4, KeptSame
<1> QED
  BY <1>2, <1>3, <1>4, WriteCatches

\* Loops and conditions end.
LEMMA EndCatches ==
  ASSUME CodeInv, CatchInv, EndLoop \/ EndIf
  PROVE  CatchInv'
<1>1. /\ phase = "compile" /\ open # <<>> /\ Enclosing.kind # "function" /\ PopOpen /\ cur' = cur
  BY DEF EndLoop, EndIf, End, Inside
<1>2. CodesOK /\ HeldOK /\ Code \in Seq(Instruction) /\ Len(Code) \in Nat /\ Offset = Len(Code) + 1
  BY <1>1, HomesAre, Offsets
<1>3. Enclosing.start \in Nat
  <2>1. Len(open) \in DOMAIN open
    BY <1>1, <1>2, HeldTypes, EmptySeq
  <2> QED
    BY <1>2, <2>1, HeldTypes DEF Enclosing, OpenStatement
<1>4. CASE EndLoop
  <2>1. PICK i, p, new, at, target : /\ i = Ia("JMP", Enclosing.start) /\ p = Append(Code, i) /\ at = LoopPatches
                                  /\ target = LoopExit(p) /\ new = Patched(p, at, target)
    OBVIOUS
  <2>2. SetCode(new)
    BY <1>4, <2>1 DEF EndLoop
  <2>3. i \in Instruction
    BY <1>3, <2>1, InstructionTypes DEF Ops
  <2>4. target \in Nat /\ target # 0
    <3>1. Len(p) = Len(Code) + 1
      BY <1>2, <2>1, <2>3
    <3> QED
      BY <1>2, <2>1, <3>1 DEF LoopExit
  <2>5. Rewrites(new) /\ PatchedTo(new, Code, at, target)
    BY <1>2, <2>1, <2>2, <2>3, <2>4, AppendPatchRewrites
  <2>6. Extends(new, Code)
    BY <2>4, <2>5, PatchExtends
  <2> QED
    BY <1>1, <2>5, <2>6, PopCatches
<1>5. CASE EndIf
  <2>1. PICK new, at, target : /\ at = {Enclosing.exit} /\ target = Offset /\ new = Patched(Code, at, target)
    OBVIOUS
  <2>2. SetCode(new) /\ target \in Nat /\ target # 0
    BY <1>2, <1>5, <2>1 DEF EndIf
  <2>3. Rewrites(new) /\ PatchedTo(new, Code, at, target)
    BY <1>2, <2>1, <2>2, PatchRewrites
  <2>4. Extends(new, Code)
    BY <2>2, <2>3, PatchExtends
  <2> QED
    BY <1>1, <2>3, <2>4, PopCatches
<1> QED
  BY <1>4, <1>5

\* The last open statement changes.
LEMMA ReplaceCatches ==
  ASSUME CodeInv, CatchInv, phase = "compile", NEW new, Rewrites(new), Extends(new, Code),
         open # <<>>, NEW s \in OpenStatement, Replace(s), cur' = cur,
         SameFunction(Enclosing, s),
         s.kind \in Tries => CatchKept(Len(open)) \/ TryBegins(Len(open))'
  PROVE  CatchInv'
<1>1. CodesOK /\ HeldOK
  BY HomesAre
<1>2. /\ open' \in Seq(OpenStatement) /\ Len(open') = Len(open) /\ DOMAIN open' = DOMAIN open
      /\ Len(open) \in DOMAIN open /\ open'[Len(open)] = s
      /\ \A k \in DOMAIN open \ {Len(open)} : open'[k] = open[k]
  BY <1>1, ReplaceOpens
<1>3. HomesStay
  <2>1. \A k \in DOMAIN open : SameFunction(open[k], open'[k])
    BY <1>2 DEF SameFunction, Enclosing
  <2>3. Len(open') # Len(open) + 1 /\ Len(open') # Len(open) - 1
    <3>1. PICK n : n = Len(open)
      OBVIOUS
    <3>2. n \in Nat
      BY <1>1, <3>1, HeldTypes
    <3>3. n # n + 1 /\ n # n - 1
      BY <3>2
    <3> QED
      BY <1>2, <3>1, <3>3
  <2>2. Reshapes
    BY <1>1, <1>2, <2>1, <2>3 DEF Reshapes, HeldOK
  <2> QED
    BY <2>2, ReshapedHomes DEF HomesKept, HomesStay
<1>4. ASSUME NEW k \in DOMAIN open', open'[k].kind \in Tries PROVE CatchKept(k) \/ TryBegins(k)'
  <2>1. CASE k = Len(open)
    BY <1>2, <1>4, <2>1
  <2>2. CASE k # Len(open)
    BY <1>2, <1>4, <2>2, KeptSame
  <2> QED
    BY <2>1, <2>2
<1> QED
  BY <1>2, <1>3, <1>4, WriteCatches

\* An else, which is no try statement.
LEMMA ElseCatches ==
  ASSUME CodeInv, CatchInv, Else
  PROVE  CatchInv'
<1>1. PICK at, p, target, new, s :
        /\ at = {Enclosing.exit} /\ p = Append(Code, I("JMP")) /\ target = Len(p) + 1
        /\ new = Patched(p, at, target) /\ s = Statement("else", NoAddress, Offset)
  OBVIOUS
<1>2. /\ phase = "compile" /\ open # <<>> /\ Enclosing.kind = "if"
      /\ SetCode(new) /\ Replace(s) /\ cur' = cur
  BY <1>1 DEF Else, End, Inside
<1>3. CodesOK /\ HeldOK /\ Code \in Seq(Instruction) /\ Len(Code) \in Nat /\ Offset \in Nat
  BY <1>2, HomesAre, Offsets
<1>4. I("JMP") \in Instruction
  BY InstructionTypes DEF Ops
<1>5. target \in Nat /\ target # 0
  BY <1>1, <1>3, <1>4
<1>6. Rewrites(new) /\ PatchedTo(new, Code, at, target)
  BY <1>1, <1>2, <1>3, <1>4, <1>5, AppendPatchRewrites
<1>7. Extends(new, Code)
  BY <1>5, <1>6, PatchExtends
<1>8. s \in OpenStatement /\ s.kind = "else"
  <2>1. PICK e : e = Offset
    OBVIOUS
  <2>2. e \in Nat /\ "else" \in StatementKinds /\ NoAddress \in Nat
    BY <1>3, <2>1 DEF StatementKinds, NoAddress
  <2> QED
    BY <1>1, <2>1, <2>2, StatementType
<1>9. SameFunction(Enclosing, s) /\ s.kind \notin Tries
  BY <1>2, <1>8 DEF SameFunction, Tries
<1> QED
  BY <1>2, <1>6, <1>7, <1>8, <1>9, ReplaceCatches

\* The protected block ends: its catch block begins at the next instruction.
LEMMA EndTryBlockCatches ==
  ASSUME CodeInv, CatchInv, EndTryBlock
  PROVE  CatchInv'
<1>1. PICK more, new, n, t, f, ends, s :
        /\ more = <<I("JMP")>> /\ new = Code \o more /\ n = Len(open)
        /\ t = Enclosing /\ f = FirstHandler /\ ends = {Offset}
        /\ s = [t EXCEPT !.kind = "handlers", !.ends = ends, !.first = f]
  OBVIOUS
<1>2. /\ phase = "compile" /\ open # <<>> /\ t.kind = "try"
      /\ Emit(more) /\ Replace(s) /\ cur' = cur
  BY <1>1 DEF EndTryBlock, End, Inside
<1>3. /\ CodesOK /\ HeldOK /\ HomesHold /\ Code \in Seq(Instruction) /\ Len(Code) \in Nat
      /\ Offset \in Nat /\ Offset = Len(Code) + 1 /\ n \in Nat
  BY <1>1, <1>2, HomesAre, Offsets, HeldTypes
<1>4. n \in DOMAIN open /\ t = open[n] /\ t \in OpenStatement
  <2>1. n \in DOMAIN open
    BY <1>1, <1>2, <1>3, HeldTypes, EmptySeq
  <2> QED
    BY <1>1, <1>3, <2>1, HeldTypes DEF Enclosing
<1>5. t.catches = <<>>
  BY <1>2, <1>3, <1>4 DEF HomesHold, HoldsOK
<1>6. f \in Nat /\ f = Len(Code) + 2
  BY <1>1, <1>3 DEF FirstHandler
<1>7. s \in OpenStatement /\ s.kind = "handlers" /\ s.first = f /\ s.catches = <<>>
  BY <1>1, <1>3, <1>4, <1>5, <1>6 DEF OpenStatement, StatementKinds, Tries
<1>8. more \in Seq(Instruction) /\ Len(more) = 1
  BY <1>1, InstructionTypes DEF Ops
<1>9. Rewrites(new) /\ Extends(new, Code) /\ Len(new) = Len(Code) + 1
  <2>1. Rewrites(new) /\ Extends(new, Code)
    BY <1>1, <1>2, <1>3, <1>8, EmitKept
  <2>2. Longer(new, Code, more)
    BY <1>1, <1>2, <1>3, <1>8, EmitRewrites
  <2> QED
    BY <1>8, <2>1, <2>2 DEF Longer
<1>10. TryBegins(n)'
  <2>1. Offset' = f
    <3>1. codes'[cur].code = new
      BY <1>3, <1>9, SetCodeGrows
    <3> QED
      BY <1>2, <1>3, <1>6, <1>9, <3>1 DEF Offset, Code
  <2>2. open'[n] = s /\ Len(open') = n
    BY <1>1, <1>2, <1>3, <1>7, ReplaceOpens
  <2> QED
    BY <1>7, <2>1, <2>2 DEF TryBegins
<1>11. SameFunction(Enclosing, s)
  BY <1>1, <1>2, <1>7 DEF SameFunction
<1> QED
  <2>1. TryBegins(Len(open))'
    BY <1>1, <1>2, <1>3, <1>7, <1>10, ReplaceOpens
  <2> QED
    BY <1>2, <1>7, <1>9, <1>11, <2>1, ReplaceCatches

\* The finally block begins: the catch block stays.
LEMMA BeginFinallyCatches ==
  ASSUME CodeInv, CatchInv, BeginFinally
  PROVE  CatchInv'
<1>1. PICK at, e, new, n, t, s :
        /\ t = Enclosing /\ at = t.ends /\ e = Offset /\ new = Patched(Code, at, e)
        /\ n = Len(open) /\ s = [t EXCEPT !.kind = "finally", !.ends = {}, !.finally = e]
  OBVIOUS
<1>2. /\ phase = "compile" /\ open # <<>> /\ t.kind = "handlers" /\ t.catches # <<>>
      /\ SetCode(new) /\ Replace(s) /\ cur' = cur
  BY <1>1 DEF BeginFinally, Inside
<1>3. CodesOK /\ HeldOK /\ e \in Nat /\ e # 0 /\ n \in Nat
  BY <1>1, <1>2, HomesAre, Offsets, HeldTypes
<1>4. n \in DOMAIN open /\ t = open[n] /\ t \in OpenStatement
  <2>1. n \in DOMAIN open
    BY <1>1, <1>2, <1>3, HeldTypes, EmptySeq
  <2> QED
    BY <1>1, <1>3, <2>1, HeldTypes DEF Enclosing
<1>5. /\ s \in OpenStatement /\ s.kind = "finally" /\ s.first = t.first /\ s.catches = t.catches
  BY <1>1, <1>3, <1>4 DEF OpenStatement, StatementKinds, Tries
<1>6. Rewrites(new) /\ Extends(new, Code)
  <2>1. Rewrites(new) /\ PatchedTo(new, Code, at, e)
    BY <1>1, <1>2, <1>3, PatchRewrites
  <2> QED
    BY <1>3, <2>1, PatchExtends
<1>7. CatchKept(n)
  <2>1. open'[n] = s
    BY <1>1, <1>2, <1>3, <1>5, ReplaceOpens
  <2> QED
    BY <1>2, <1>4, <1>5, <2>1 DEF CatchKept, Tries
<1>8. SameFunction(Enclosing, s)
  BY <1>1, <1>2, <1>5 DEF SameFunction
<1> QED
  BY <1>1, <1>2, <1>5, <1>6, <1>7, <1>8, ReplaceCatches

\* The catch block begins: the other one of a statement would be its second.
LEMMA BeginCatchCatches ==
  ASSUME CodeInv, CatchInv, MaxCatches <= 1,
         NEW type \in Types, NEW name \in CatchNames \cup {NoName}, BeginCatch(type, name)
  PROVE  CatchInv'
<1> DEFINE last == IF name = NoName THEN I("POP") ELSE Ia("STORE", name)
           more == <<Ia("LOAD", type), I("CATCH"), last>>
<1>1. PICK new, n, m, e, at, catches, f, s, g :
        /\ new = Code \o more /\ n = Len(open) /\ m = n + 1 /\ e = open[n] /\ at = Offset
        /\ catches = Append(e.catches, at) /\ f = [e EXCEPT !.catches = catches]
        /\ s = [Statement("catch", NoAddress, Offset + 1) EXCEPT !.name = name]
        /\ g = [open EXCEPT ![n] = f]
  OBVIOUS
<1>2. /\ phase = "compile" /\ open # <<>> /\ Enclosing.kind = "handlers"
      /\ Len(Enclosing.catches) < MaxCatches
      /\ Emit(more) /\ cur' = cur
      /\ open' = Append([open EXCEPT ![Len(open)].catches = Append(@, Offset)], s)
  BY <1>1 DEF BeginCatch, Inside
<1>3. /\ CodesOK /\ HeldOK /\ HomesHold /\ Code \in Seq(Instruction) /\ Len(Code) \in Nat
      /\ at = Len(Code) + 1 /\ at \in Nat /\ n \in Nat /\ DOMAIN open = 1 .. n
      /\ open \in Seq(OpenStatement) /\ Offset = at
  BY <1>1, <1>2, HomesAre, Offsets, HeldTypes DEF HeldOK
<1>4. n \in DOMAIN open /\ Enclosing = e /\ e \in OpenStatement /\ m \in Nat /\ m = n + 1
  <2>1. n \in DOMAIN open
    BY <1>1, <1>2, <1>3, EmptySeq
  <2>2. Enclosing = e
    BY <1>1 DEF Enclosing
  <2> QED
    BY <1>1, <1>3, <2>1, <2>2
<1>5. e.catches = <<>> /\ e.kind = "handlers"
  <2>1. PICK q : q = e.catches
    OBVIOUS
  <2>2. q \in Seq(Nat)
    BY <1>4, <2>1 DEF OpenStatement
  <2>3. Len(q) < MaxCatches /\ MaxCatches \in Nat
    BY <1>2, <1>4, <2>1, ProgramAssumption
  <2>4. Len(q) = 0
    BY <2>2, <2>3
  <2> QED
    BY <1>2, <1>4, <2>1, <2>2, <2>4, EmptySeq
<1>6. e.first = at /\ catches = <<at>>
  <2>1. TryBegins(n)
    BY <1>1, <1>2, <1>4, <1>5 DEF CatchInv, Tries
  <2>2. e.first = at
    BY <1>1, <1>3, <1>5, <2>1 DEF TryBegins
  <2> QED
    BY <1>1, <1>5, <2>2
<1>7. /\ f \in OpenStatement /\ f.kind = "handlers" /\ f.first = at /\ f.catches = <<at>>
  <2>1. catches \in Seq(Nat)
    BY <1>3, <1>6
  <2>2. f = [e EXCEPT !.catches = catches]
    BY <1>1
  <2>3. /\ f \in OpenStatement /\ f.kind = e.kind /\ f.first = e.first /\ f.catches = catches
    BY <1>4, <2>1, <2>2 DEF OpenStatement
  <2> QED
    BY <1>5, <1>6, <2>3
<1>8. s \in OpenStatement /\ s.kind = "catch"
  <2>1. PICK r, x : x = Offset + 1 /\ r = Statement("catch", NoAddress, x)
    OBVIOUS
  <2>2. "catch" \in StatementKinds /\ NoAddress \in Nat /\ x \in Nat /\ name \in Nat
    BY <1>3, <2>1, ProgramAssumption DEF StatementKinds, NoAddress, NoName
  <2>3. r \in OpenStatement /\ r.kind = "catch"
    BY <2>1, <2>2, StatementType
  <2>4. s = [r EXCEPT !.name = name]
    BY <1>1, <2>1
  <2> QED
    BY <2>2, <2>3, <2>4 DEF OpenStatement
<1>9. /\ open' \in Seq(OpenStatement) /\ Len(open') = m /\ DOMAIN open' = 1 .. m
      /\ open'[m] = s /\ open'[n] = f
      /\ \A k \in DOMAIN open \ {n} : open'[k] = open[k]
  <2>4. g = [open EXCEPT ![n] = f]
    BY <1>1
  <2>1. /\ g \in Seq(OpenStatement) /\ Len(g) = n /\ g[n] = f
        /\ \A k \in DOMAIN open \ {n} : g[k] = open[k]
    <3>1. Len(open) = n
      BY <1>1
    <3> QED
      BY <1>3, <1>4, <1>7, <2>4, <3>1
  <2>2. open' = Append(g, s)
    BY <1>1, <1>2
  <2>3. DOMAIN g = 1 .. n
    BY <2>1
  <2> QED
    BY <1>3, <1>4, <1>8, <2>1, <2>2, <2>3
<1>10. /\ more \in Seq(Instruction) /\ Len(more) = 3
       /\ more[1].op = "LOAD" /\ more[1].arg # 0 /\ more[2].op = "CATCH"
  <2>1. type \in Nat /\ type # 0 /\ name \in Nat
    BY ProgramAssumption DEF NoName
  <2>2. /\ Ia("LOAD", type) \in Instruction /\ Ia("LOAD", type).op = "LOAD"
        /\ Ia("LOAD", type).arg = type
        /\ last \in Instruction /\ I("CATCH") \in Instruction /\ I("CATCH").op = "CATCH"
    BY <2>1, InstructionTypes DEF Ops
  <2> HIDE DEF last
  <2> QED
    BY <2>1, <2>2
<1> HIDE DEF more
<1>11. Rewrites(new) /\ Extends(new, Code) /\ Longer(new, Code, more)
  <2>1. Rewrites(new) /\ Extends(new, Code)
    BY <1>1, <1>2, <1>3, <1>10, EmitKept
  <2>2. Longer(new, Code, more)
    BY <1>1, <1>2, <1>3, <1>10, EmitRewrites
  <2> QED
    BY <2>1, <2>2
<1>12. /\ {at, at + 1} \subseteq DOMAIN new /\ new[at].op = "LOAD" /\ new[at].arg # 0
       /\ new[at + 1].op = "CATCH"
  <2>1. DOMAIN more = {1, 2, 3}
    BY <1>10
  <2>2. new[Len(Code) + 1] = more[1] /\ new[Len(Code) + 2] = more[2] /\ Len(new) = Len(Code) + 3
    BY <1>10, <1>11, <2>1 DEF Longer
  <2>3. new \in Seq(Instruction)
    BY <1>11 DEF Rewrites
  <2>4. at + 1 = Len(Code) + 2 /\ {at, at + 1} \subseteq 1 .. Len(Code) + 3
    BY <1>3
  <2> QED
    BY <1>3, <1>10, <2>2, <2>3, <2>4
<1>13. Reshapes
  <2>1. /\ m \in {n - 1, n, n + 1} /\ m # n - 1 /\ n \in Nat
    BY <1>4, <1>3
  <2>2. \A k \in DOMAIN open : SameFunction(open[k], open'[k])
    BY <1>1, <1>5, <1>7, <1>9 DEF SameFunction
  <2>3. n = Len(open) /\ cur' = cur
    BY <1>1, <1>2
  <2>4. /\ Len(open') \in {Len(open) - 1, Len(open), Len(open) + 1}
        /\ Len(open') # Len(open) - 1
    BY <1>9, <2>1, <2>3
  <2>5. open'[Len(open) + 1].kind # "function"
    BY <1>4, <1>8, <1>9, <2>3
  <2> QED
    BY <1>3, <1>9, <2>2, <2>3, <2>4, <2>5 DEF Reshapes
<1>14. HomesStay
  BY <1>13, ReshapedHomes DEF HomesKept, HomesStay
<1>15. TryBegins(n)'
  <2>1. Home(n)' = cur
    <3>1. Home(n) = cur /\ n \in 0 .. n /\ n \in 0 .. m
      BY <1>1, <1>3, <1>4 DEF HomesHold
    <3> QED
      BY <1>1, <1>9, <1>14, <3>1 DEF HomesStay
  <2>2. codes'[cur].code = new
    BY <1>3, <1>11, SetCodeGrows
  <2>3. CatchStarts(new, f)
    BY <1>7, <1>12 DEF CatchStarts
  <2>4. f.catches # <<>>
    BY <1>7
  <2>5. CatchStarts(codes'[Home(n)'].code, open'[n])
    BY <1>9, <2>1, <2>2, <2>3
  <2> QED
    BY <1>9, <2>4, <2>5 DEF TryBegins
<1>16. ASSUME NEW k \in DOMAIN open', open'[k].kind \in Tries PROVE CatchKept(k) \/ TryBegins(k)'
  <2>1. CASE k = m
    BY <1>8, <1>9, <1>16, <2>1 DEF Tries
  <2>2. CASE k = n
    BY <1>15, <2>2
  <2>3. CASE k # m /\ k # n
    <3>1. k \in DOMAIN open \ {n} /\ open'[k] = open[k]
      BY <1>3, <1>4, <1>9, <2>3
    <3> QED
      BY <1>1, <1>2, <1>16, <3>1, KeptSame
  <2> QED
    BY <2>1, <2>2, <2>3
<1> QED
  BY <1>2, <1>9, <1>11, <1>14, <1>16, WriteCatches

\* The catch block ends.
LEMMA EndCatchCatches ==
  ASSUME CodeInv, CatchInv, EndCatch
  PROVE  CatchInv'
<1>1. PICK at, name, code, t, p, new, n, m, e, ends, s :
        /\ at = {Enclosing.exit} /\ name = Enclosing.name
        /\ code = Code \o Deletes(name) /\ t = MismatchTarget(code)
        /\ p = Patched(code, at, t) /\ new = Append(p, I("JMP"))
        /\ n = Len(open) /\ m = n - 1 /\ e = open[m] /\ ends = e.ends \cup {Len(code) + 1}
        /\ s = [e EXCEPT !.ends = ends]
  OBVIOUS
<1>2. /\ phase = "compile" /\ open # <<>> /\ Enclosing.kind = "catch"
      /\ SetCode(new) /\ cur' = cur
      /\ open' = [Front(open) EXCEPT ![Len(open) - 1].ends = @ \cup {Len(code) + 1}]
  BY <1>1 DEF EndCatch, End, Inside
<1>3. /\ CodesOK /\ HeldOK /\ HomesHold /\ Code \in Seq(Instruction) /\ Len(Code) \in Nat
      /\ n \in Nat /\ DOMAIN open = 1 .. n /\ open \in Seq(OpenStatement)
  BY <1>1, <1>2, HomesAre, Offsets, HeldTypes DEF HeldOK
<1>4. n \in DOMAIN open /\ Enclosing = open[n] /\ open[n] \in OpenStatement /\ name \in Nat
  <2>1. n \in DOMAIN open
    BY <1>1, <1>2, <1>3, EmptySeq
  <2>2. Enclosing = open[n]
    BY <1>1 DEF Enclosing
  <2>3. open[n] \in OpenStatement
    BY <1>3, <2>1
  <2>4. name = open[n].name
    BY <1>1, <2>2
  <2> QED
    BY <2>1, <2>2, <2>3, <2>4 DEF OpenStatement
<1>5. n > 1 /\ m \in DOMAIN open /\ m \in Nat /\ n = m + 1 /\ e.kind = "handlers"
      /\ e \in OpenStatement
  <2>1. n > 1 /\ open[n - 1].kind = "handlers"
    BY <1>1, <1>2, <1>3, <1>4 DEF HomesHold
  <2> QED
    BY <1>1, <1>3, <2>1
<1>6. code \in Seq(Instruction) /\ t \in Nat /\ t = Len(code) + 1 /\ t # 0
  <2>1. PICK d : d = Deletes(name)
    OBVIOUS
  <2>2. Ia("DELETE", name) \in Instruction
    BY <1>4, InstructionTypes DEF Ops
  <2>3. d \in Seq(Instruction)
    BY <2>1, <2>2 DEF Deletes
  <2>4. code = Code \o d
    BY <1>1, <2>1
  <2>5. code \in Seq(Instruction)
    BY <1>3, <2>3, <2>4
  <2>6. t = Len(code) + 1
    BY <1>1 DEF MismatchTarget
  <2>7. Len(code) \in Nat
    BY <2>5
  <2> QED
    BY <2>5, <2>6, <2>7
<1>7. Rewrites(new) /\ Extends(new, Code)
  <2>4. p = Patched(code, at, t)
    BY <1>1
  <2>1. p \in Seq(Instruction) /\ Len(p) = Len(code) /\ PatchedTo(p, code, at, t)
    BY <1>6, <2>4, PatchedCode
  <2>2. Rewrites(new) /\ CatchEnded(new, Code, at, t, Len(code) + 1)
    BY <1>1, <1>2, <1>3, <1>4, <1>6, <2>1, EndCatchCode
  <2>3. PatchedTo(new, Code, at, t)
    BY <2>2 DEF CatchEnded
  <2> QED
    BY <1>6, <2>2, <2>3, PatchExtends
<1>8. /\ s \in OpenStatement /\ s.kind = "handlers" /\ s.first = e.first /\ s.catches = e.catches
      /\ SameFunction(e, s)
  <2>1. ends = e.ends \cup {t} /\ s = [e EXCEPT !.ends = ends]
    BY <1>1, <1>6
  <2>2. ends \in SUBSET Nat
    BY <1>5, <1>6, <2>1 DEF OpenStatement
  <2>3. s = [e EXCEPT !.ends = ends]
    BY <2>1
  <2> QED
    BY <1>5, <2>2, <2>3 DEF OpenStatement, SameFunction
<1>9. /\ open' \in Seq(OpenStatement) /\ Len(open') = m /\ DOMAIN open' = 1 .. m
      /\ open'[m] = s /\ \A k \in 1 .. m : k # m => open'[k] = open[k]
  <2>1. PICK g : g = Front(open)
    OBVIOUS
  <2>2. g \in Seq(OpenStatement) /\ Len(g) = m /\ \A k \in 1 .. m : g[k] = open[k]
    BY <1>1, <1>2, <1>3, <1>5, <2>1, Fronts
  <2>3. DOMAIN g = 1 .. m
    BY <1>5, <2>2
  <2>4. open' = [g EXCEPT ![m].ends = @ \cup {Len(code) + 1}]
    BY <1>1, <1>2, <2>1
  <2>5. m \in 1 .. m
    BY <1>5, <1>3
  <2>6. open' = [g EXCEPT ![m] = s]
    BY <1>1, <2>2, <2>3, <2>4, <2>5
  <2> QED
    BY <1>5, <1>8, <2>2, <2>3, <2>5, <2>6
<1>10. Reshapes
  <2>1. m \in {n - 1, n, n + 1} /\ m # n + 1
    BY <1>5
  <2>2. \A k \in DOMAIN open : k \in DOMAIN open' => SameFunction(open[k], open'[k])
    BY <1>1, <1>8, <1>9 DEF SameFunction
  <2> QED
    BY <1>1, <1>2, <1>3, <1>4, <1>5, <1>9, <2>1, <2>2 DEF Reshapes
<1>11. HomesStay
  BY <1>10, ReshapedHomes DEF HomesKept, HomesStay
<1>12. ASSUME NEW k \in DOMAIN open', open'[k].kind \in Tries PROVE CatchKept(k)
  <2>1. k \in DOMAIN open /\ k # n
    BY <1>3, <1>5, <1>9
  <2>2. CASE k = m
    <3>1. TryBegins(m) /\ e.catches # <<>>
      BY <1>1, <1>2, <1>5, <2>1, <2>2 DEF CatchInv, TryBegins, Tries
    <3> QED
      BY <1>1, <1>5, <1>8, <1>9, <2>2, <3>1 DEF CatchKept, Tries
  <2>3. CASE k # m
    <3>1. open'[k] = open[k]
      BY <1>9, <2>3
    <3> QED
      BY <1>1, <1>2, <1>12, <2>1, <3>1, KeptSame
  <2> QED
    BY <2>2, <2>3
<1> QED
  BY <1>2, <1>7, <1>9, <1>11, <1>12, WriteCatches

\* The statement ends: its handler has the catch block.
LEMMA EndTryCatches ==
  ASSUME CodeInv, CatchInv, EndTry
  PROVE  CatchInv'
<1>1. PICK o, n, p, new, at, e, t, h, hs0, hs :
        /\ o = cur /\ n = Len(open) /\ t = Enclosing /\ at = t.ends /\ e = Offset
        /\ p = Patched(Code, at, e) /\ new = Append(p, I("END_TRY"))
        /\ h = [start |-> t.start, first |-> t.first, end |-> EndAddress,
                finally |-> t.finally, catches |-> t.catches]
        /\ hs0 = codes[o].handlers /\ hs = Append(hs0, h)
  OBVIOUS
<1>2. /\ phase = "compile" /\ open # <<>> /\ t.kind \in {"handlers", "finally"}
      /\ t.kind = "finally" \/ t.catches # <<>>
      /\ BothSet(codes', codes, o, new, hs) /\ PopOpen /\ cur' = cur
  BY <1>1 DEF EndTry, End, Inside, BothSet, Code, Register
<1>3. /\ CodesOK /\ HeldOK /\ HomesHold /\ Code \in Seq(Instruction) /\ Len(Code) \in Nat
      /\ e \in Nat /\ e # 0 /\ n \in Nat /\ DOMAIN open = 1 .. n
      /\ open \in Seq(OpenStatement) /\ o \in DOMAIN codes /\ Code = codes[o].code
  BY <1>1, <1>2, HomesAre, Offsets, HeldTypes DEF HeldOK, CodesOK, Code
<1>4. n \in DOMAIN open /\ t = open[n] /\ t \in OpenStatement /\ Home(n) = o
  <2>1. n \in DOMAIN open /\ t = open[n]
    BY <1>1, <1>2, <1>3, EmptySeq DEF Enclosing
  <2>2. Home(n) = o
    BY <1>1, <1>3 DEF HomesHold
  <2> QED
    BY <1>3, <2>1, <2>2
<1>5. p \in Seq(Instruction) /\ PatchedTo(p, Code, at, e) /\ Len(p) = Len(Code)
  BY <1>1, <1>3, PatchedCode
<1>6. new \in Seq(Instruction) /\ Len(new) = Len(p) + 1
      /\ \A a \in DOMAIN p : a \in DOMAIN new /\ new[a] = p[a]
  <2>1. PICK i \in Instruction : i = I("END_TRY")
    BY InstructionTypes DEF Ops
  <2>2. new = Append(p, i)
    BY <1>1, <2>1
  <2> QED
    BY <1>5, <2>2, AppendedCode
<1>7. Extends(new, Code)
  <2>1. Extends(p, Code)
    BY <1>3, <1>5, PatchExtends
  <2> QED
    BY <1>6, <2>1 DEF Extends
<1>8. h \in Handler /\ h.first = t.first /\ h.catches = t.catches
  <2>1. PICK a : a = EndAddress
    OBVIOUS
  <2>2. a \in Nat
    BY <1>1, <1>3, <2>1 DEF EndAddress
  <2>3. h = [start |-> t.start, first |-> t.first, end |-> a, finally |-> t.finally,
             catches |-> t.catches]
    BY <1>1, <2>1
  <2>4. /\ t.start \in Nat /\ t.first \in Nat /\ t.finally \in Nat
        /\ t.catches \in Seq(Nat)
    <3>1. t \in OpenStatement
      BY <1>4
    <3> QED
      BY <3>1 DEF OpenStatement
  <2>5. \A s \in Nat, f \in Nat, y \in Nat, cs \in Seq(Nat) :
          /\ [start |-> s, first |-> f, end |-> a, finally |-> y, catches |-> cs] \in Handler
          /\ [start |-> s, first |-> f, end |-> a, finally |-> y, catches |-> cs].first = f
          /\ [start |-> s, first |-> f, end |-> a, finally |-> y, catches |-> cs].catches = cs
    BY <2>2 DEF Handler
  <2> QED
    BY <2>3, <2>4, <2>5
<1>9. hs0 \in Seq(Handler)
  BY <1>1, <1>3, CodeObjects
<1>10. /\ hs \in Seq(Handler) /\ hs[Len(hs0) + 1] = h
       /\ \A i \in DOMAIN hs : i = Len(hs0) + 1 \/ (i \in DOMAIN hs0 /\ hs[i] = hs0[i])
  <2>1. hs = Append(hs0, h)
    BY <1>1
  <2> QED
    BY <1>8, <1>9, <2>1
<1>11. /\ DOMAIN codes' = DOMAIN codes /\ codes'[o].code = new /\ codes'[o].handlers = hs
       /\ \A c \in DOMAIN codes \ {o} : codes'[c] = codes[c]
  <2>1. Len(Code) <= Len(new) /\ \A a \in DOMAIN Code : new[a].op = Code[a].op
    <3>1. Len(p) \in Nat /\ Len(p) = Len(Code) /\ Len(new) = Len(p) + 1
      BY <1>5, <1>6
    <3>2. Len(Code) <= Len(new)
      BY <3>1
    <3>3. \A a \in DOMAIN Code : new[a].op = Code[a].op
      BY <1>7 DEF Extends
    <3> QED
      BY <3>2, <3>3
  <2>2. /\ BothSet(codes', codes, o, new, hs) /\ CodesOK /\ o = cur
        /\ new \in Seq(Instruction) /\ hs \in Seq(Handler)
    BY <1>1, <1>2, <1>3, <1>6, <1>10
  <2>3. Writes(new, o) /\ codes'[o].handlers = hs
    BY <2>1, <2>2, EndTryCode
  <2> QED
    BY <2>3 DEF Writes
<1>12. CodeKept
  <2>1. ASSUME NEW c \in DOMAIN codes PROVE Extends(codes'[c].code, codes[c].code)
    <3>1. CASE c = o
      BY <1>3, <1>7, <1>11, <3>1
    <3>2. CASE c # o
      BY <1>11, <3>2 DEF Extends
    <3> QED
      BY <3>1, <3>2
  <2> QED
    BY <1>11, <2>1 DEF CodeKept
<1>13. CatchStarts(new, h)
  <2>1. t.catches # <<>>
    BY <1>2, <1>3, <1>4 DEF HomesHold, HoldsOK
  <2>2. TryBegins(n)
    BY <1>2, <1>4 DEF CatchInv, Tries
  <2>3. CatchStarts(Code, t)
    BY <1>3, <1>4, <2>1, <2>2 DEF TryBegins
  <2> QED
    BY <1>7, <1>8, <2>3, StartsKept
<1>14. ASSUME NEW c \in DOMAIN codes', NEW i \in DOMAIN codes'[c].handlers
       PROVE  \/ CatchStarts(codes'[c].code, codes'[c].handlers[i])
              \/ /\ c \in DOMAIN codes /\ i \in DOMAIN codes[c].handlers
                 /\ codes'[c].handlers[i] = codes[c].handlers[i]
  <2>1. CASE c = o
    <3>1. PICK d : d = codes'[c]
      OBVIOUS
    <3>2. d.code = new /\ d.handlers = hs /\ i \in DOMAIN hs
      BY <1>11, <1>14, <2>1, <3>1
    <3>3. CASE i = Len(hs0) + 1
      BY <1>10, <1>13, <3>1, <3>2, <3>3
    <3>4. CASE i \in DOMAIN hs0 /\ hs[i] = hs0[i]
      BY <1>1, <1>3, <2>1, <3>1, <3>2, <3>4
    <3> QED
      BY <1>10, <3>2, <3>3, <3>4
  <2>2. CASE c # o
    BY <1>11, <1>14, <2>2
  <2> QED
    BY <2>1, <2>2
<1>15. /\ open' \in Seq(OpenStatement) /\ Len(open') = Len(open) - 1
       /\ \A k \in DOMAIN open' : k \in DOMAIN open /\ open'[k] = open[k]
  BY <1>2, <1>3, PopOpens
<1>16. HomesStay
  <2>1. Enclosing.kind # "function"
    BY <1>1, <1>2
  <2> QED
    BY <1>2, <1>3, <2>1, PopReshapes, ReshapedHomes DEF HomesKept, HomesStay
<1>17. ASSUME NEW k \in DOMAIN open', open'[k].kind \in Tries PROVE CatchKept(k)
  <2>1. k \in 1 .. n - 1
    BY <1>1, <1>15, <1>17
  <2>2. k # n
    BY <1>3, <2>1
  <2> QED
    BY <1>1, <1>2, <1>15, <1>17, <2>2, KeptSame
<1> QED
  BY <1>2, <1>3, <1>12, <1>14, <1>15, <1>16, <1>17, StepCatches

\* A function begins: its code object is empty.
LEMMA BeginFunctionCatches ==
  ASSUME CodeInv, CatchInv, BeginFunction
  PROVE  CatchInv'
<1>1. PICK s, o, n, m, c : /\ s = Statement("function", cur, NoAddress) /\ o = cur'
                           /\ n = Len(open) /\ m = n + 1 /\ c = cur
  OBVIOUS
<1>2. /\ phase = "compile" /\ InBlock
      /\ codes' = Append(codes, EmptyCode) /\ o = Len(codes) + 1 /\ Push(s)
  BY <1>1 DEF BeginFunction, BeginCompound, BeginPlain, Begin
<1>3. /\ CodesOK /\ HeldOK /\ HomesHold
      /\ DOMAIN open = 1 .. n /\ n \in Nat /\ open \in Seq(OpenStatement)
      /\ codes \in Seq(CodeObject) /\ c \in DOMAIN codes /\ c \in Nat
  <2>1. CodesOK /\ HeldOK /\ HomesHold
    BY <1>2, HomesAre
  <2> QED
    BY <1>1, <2>1, HeldTypes DEF HeldOK, CodesOK
<1>4. /\ DOMAIN codes' = DOMAIN codes \cup {o} /\ codes'[o] = EmptyCode
      /\ \A d \in DOMAIN codes : codes'[d] = codes[d]
  <2>1. EmptyCode \in CodeObject
    BY DEF EmptyCode, CodeObject
  <2> QED
    BY <1>2, <1>3, <2>1
<1>5. s \in OpenStatement /\ s.kind = "function" /\ s.start = c
  <2>1. "function" \in StatementKinds /\ NoAddress \in Nat
    BY DEF StatementKinds, NoAddress
  <2> QED
    BY <1>1, <1>3, <2>1, StatementType
<1>6. /\ open' \in Seq(OpenStatement) /\ Len(open') = m /\ DOMAIN open' = 1 .. m
      /\ open'[m] = s /\ m = n + 1 /\ \A k \in DOMAIN open : open'[k] = open[k]
  <2>1. /\ open' \in Seq(OpenStatement) /\ Len(open') = Len(open) + 1
        /\ DOMAIN open' = 1 .. Len(open) + 1 /\ open'[Len(open) + 1] = s
        /\ \A k \in DOMAIN open : open'[k] = open[k]
    BY <1>2, <1>3, <1>5, PushOpens
  <2> QED
    BY <1>1, <2>1
<1>7. HomesStay
  <2>1. PICK o1, o2 : o1 = open /\ o2 = open'
    OBVIOUS
  <2>2. Pushed(o2, o1, n)
    BY <1>1, <1>3, <1>6, <2>1 DEF Pushed, SameFunction
  <2>3. o2[n + 1].kind = "function" /\ o2[n + 1].start = c
    BY <1>5, <1>6, <2>1
  <2>4. \A k \in 0 .. n : HomeIn(o2, o, k) = HomeIn(o1, c, k)
    BY <2>2, <2>3, HomePush
  <2> QED
    BY <1>1, <2>1, <2>4 DEF Home, HomesStay
<1>8. CodeKept
  BY <1>4 DEF CodeKept, Extends
<1>9. ASSUME NEW d \in DOMAIN codes', NEW h \in DOMAIN codes'[d].handlers
      PROVE  /\ d \in DOMAIN codes /\ h \in DOMAIN codes[d].handlers
             /\ codes'[d].handlers[h] = codes[d].handlers[h]
  <2>1. CASE d \in DOMAIN codes
    BY <1>4, <1>9, <2>1
  <2>2. CASE d = o
    <3>1. codes'[d].handlers = <<>>
      BY <1>4, <2>2 DEF EmptyCode
    <3> QED
      BY <1>9, <3>1
  <2> QED
    BY <1>4, <2>1, <2>2
<1>10. ASSUME NEW k \in DOMAIN open', open'[k].kind \in Tries PROVE CatchKept(k)
  <2>1. k # m
    BY <1>5, <1>6, <1>10 DEF Tries
  <2>2. k \in DOMAIN open /\ open'[k] = open[k]
    BY <1>3, <1>6, <2>1
  <2>3. k # Len(open) \/ open[k].kind # "handlers"
    <3>1. open # <<>>
      BY <2>2
    <3> QED
      BY <1>2, <3>1 DEF InBlock, Inside, Enclosing
  <2> QED
    BY <1>2, <1>10, <2>2, <2>3, KeptSame
<1> QED
  BY <1>2, <1>3, <1>6, <1>7, <1>8, <1>9, <1>10, StepCatches

\* A function ends: both code objects grow.
LEMMA EndFunctionCatches ==
  ASSUME CodeInv, CatchInv, EndFunction
  PROVE  CatchInv'
<1>1. PICK o, p, n, m, A, B :
        /\ o = cur /\ p = Enclosing.start /\ n = Len(open) /\ m = Len(open) - 1
        /\ A = <<I("LOAD_CONST"), I("RETURN")>>
        /\ B = <<Ia("LOAD_CONST", o), I("MAKE_FUNCTION"), I("STORE")>>
  OBVIOUS
<1>2. /\ phase = "compile" /\ open # <<>> /\ Enclosing.kind = "function"
      /\ TwoSet(codes', codes, o, A, p, B) /\ cur' = p /\ PopOpen
  BY <1>1 DEF EndFunction, End, Inside, TwoSet
<1>3. /\ CodesOK /\ HeldOK /\ HomesHold
      /\ DOMAIN open = 1 .. n /\ n \in Nat /\ open \in Seq(OpenStatement)
      /\ codes \in Seq(CodeObject)
  <2>1. CodesOK /\ HeldOK /\ HomesHold
    BY <1>2, HomesAre
  <2> QED
    BY <1>1, <2>1, HeldTypes DEF HeldOK, CodesOK
<1>4. n \in DOMAIN open /\ n \in Nat \ {0} /\ open[n] = Enclosing /\ m = n - 1 /\ m \in Nat
      /\ n = m + 1
  <2>1. n # 0
    BY <1>1, <1>2, <1>3, EmptySeq
  <2> QED
    BY <1>1, <1>3, <2>1 DEF Enclosing
<1>5. /\ Home(n) = o /\ Home(m) = p /\ o # p /\ o \in DOMAIN codes /\ p \in DOMAIN codes
  <2>1. Home(n) = o /\ \A k \in 0 .. n : Home(k) \in DOMAIN codes
    BY <1>1, <1>3 DEF HomesHold
  <2>2. open[n].kind = "function" => open[n].start = Home(n - 1) /\ Home(n) # Home(n - 1)
    BY <1>3, <1>4 DEF HomesHold
  <2>3. m \in 0 .. n /\ n \in 0 .. n
    BY <1>4
  <2> QED
    BY <1>1, <1>2, <1>4, <2>1, <2>2, <2>3
<1>6. A \in Seq(Instruction) /\ B \in Seq(Instruction)
  <2>1. o \in Nat
    BY <1>3, <1>5
  <2> QED
    BY <1>1, <2>1, InstructionTypes DEF Ops
<1>7. /\ DOMAIN codes' = DOMAIN codes
      /\ codes'[o].code = codes[o].code \o A /\ codes'[o].handlers = codes[o].handlers
      /\ codes'[p].code = codes[p].code \o B /\ codes'[p].handlers = codes[p].handlers
      /\ \A c \in DOMAIN codes \ {o, p} : codes'[c] = codes[c]
  <2>1. TwoAre(codes', codes, o, A, p, B)
    BY <1>2, <1>3, <1>5, <1>6, TwoReplaced
  <2> QED
    BY <2>1 DEF TwoAre
<1>8. /\ open' \in Seq(OpenStatement) /\ Len(open') = m
      /\ \A k \in DOMAIN open' : k \in DOMAIN open /\ open'[k] = open[k] /\ k # n
  <2>1. /\ open' \in Seq(OpenStatement) /\ Len(open') = Len(open) - 1
        /\ \A k \in DOMAIN open' : k \in DOMAIN open /\ open'[k] = open[k]
    BY <1>2, <1>3, PopOpens
  <2>2. DOMAIN open' = 1 .. m /\ Len(open') = m
    BY <1>1, <2>1
  <2>3. n \notin 1 .. m
    BY <1>4
  <2> QED
    BY <2>1, <2>2, <2>3
<1>9. HomesStay
  <2>1. PICK o1, o2 : o1 = open' /\ o2 = open
    OBVIOUS
  <2>2. \A k \in 1 .. m : SameFunction(o2[k], o1[k])
    BY <1>8, <2>1 DEF SameFunction
  <2>3. Pushed(o2, o1, m)
    BY <1>1, <1>4, <1>8, <2>1, <2>2 DEF Pushed, SameFunction
  <2>4. o2[m + 1].kind = "function" /\ o2[m + 1].start = p
    BY <1>1, <1>2, <1>4, <2>1
  <2>5. \A k \in 0 .. m : HomeIn(o2, o, k) = HomeIn(o1, p, k)
    BY <2>3, <2>4, HomePush
  <2> QED
    BY <1>1, <1>2, <1>8, <2>1, <2>5 DEF Home, HomesStay
<1>10. CodeKept
  <2>1. ASSUME NEW c \in DOMAIN codes, NEW more \in Seq(Instruction),
               codes'[c].code = codes[c].code \o more
        PROVE  Extends(codes'[c].code, codes[c].code)
    <3>1. PICK old, new : old = codes[c].code /\ new = codes'[c].code
      OBVIOUS
    <3>2. old \in Seq(Instruction) /\ new = old \o more
      BY <1>3, <2>1, <3>1, CodeObjects
    <3>3. Longer(new, old, more)
      BY <3>2, EmittedCode
    <3> QED
      BY <3>1, <3>3 DEF Longer, Extends
  <2>2. ASSUME NEW c \in DOMAIN codes PROVE Extends(codes'[c].code, codes[c].code)
    <3>1. CASE c \in {o, p}
      BY <1>6, <1>7, <2>1, <3>1
    <3>2. CASE c \notin {o, p}
      BY <1>7, <3>2 DEF Extends
    <3> QED
      BY <3>1, <3>2
  <2> QED
    BY <1>7, <2>2 DEF CodeKept
<1>11. ASSUME NEW d \in DOMAIN codes', NEW h \in DOMAIN codes'[d].handlers
       PROVE  /\ d \in DOMAIN codes /\ h \in DOMAIN codes[d].handlers
              /\ codes'[d].handlers[h] = codes[d].handlers[h]
  <2>1. codes'[d].handlers = codes[d].handlers
    BY <1>7
  <2> QED
    BY <1>7, <1>11, <2>1
<1>12. ASSUME NEW k \in DOMAIN open', open'[k].kind \in Tries PROVE CatchKept(k)
  BY <1>1, <1>2, <1>8, <1>12, KeptSame
<1> QED
  BY <1>2, <1>3, <1>8, <1>9, <1>10, <1>11, <1>12, StepCatches

\* A program that has no code yet.
LEMMA CatchInvInit ==
  ASSUME Init
  PROVE  CatchInv
<1>1. codes = <<EmptyCode>> /\ open = <<>>
  BY DEF Init, CompilerInit
<1>2. DOMAIN codes = {1} /\ codes[1].handlers = <<>> /\ DOMAIN open = {}
  BY <1>1 DEF EmptyCode
<1> QED
  BY <1>2 DEF CatchInv

\* Every step of the compiler.
LEMMA CompileCatches ==
  ASSUME CodeInv, CatchInv, MaxCatches <= 1, Compile
  PROVE  CatchInv'
<1>1. CASE ExpressionStatement \/ Break \/ Continue \/ Return \/ Raise \/ Finish
  BY <1>1, PlainCatches
<1>2. CASE BeginWhile \/ BeginForEach \/ BeginIf \/ BeginTry
  BY <1>2, BeginCatches
<1>3. CASE EndLoop \/ EndIf
  BY <1>3, EndCatches
<1>4. CASE Else
  BY <1>4, ElseCatches
<1>5. CASE EndTryBlock
  BY <1>5, EndTryBlockCatches
<1>6. CASE BeginFinally
  BY <1>6, BeginFinallyCatches
<1>7. ASSUME NEW type \in Types, NEW name \in CatchNames \cup {NoName}, BeginCatch(type, name)
      PROVE  CatchInv'
  BY <1>7, BeginCatchCatches
<1>8. CASE EndCatch
  BY <1>8, EndCatchCatches
<1>9. CASE EndTry
  BY <1>9, EndTryCatches
<1>10. CASE BeginFunction
  BY <1>10, BeginFunctionCatches
<1>11. CASE EndFunction
  BY <1>11, EndFunctionCatches
<1> QED
  BY <1>1, <1>2, <1>3, <1>4, <1>5, <1>6, <1>7, <1>8, <1>9, <1>10, <1>11 DEF Compile

-----------------------------------------------------------------------------
(* An exception that the catch block names is caught. *)


\* Nothing changes, or the program runs.
LEMMA CatchRests ==
  ASSUME CatchInv, UNCHANGED <<codes, cur, open, phase>> \/ (codes' = codes /\ phase' # "compile")
  PROVE  CatchInv'
<1>1. codes' = codes
  OBVIOUS
<1>2. ASSUME UNCHANGED <<codes, cur, open, phase>>, phase' = "compile",
             NEW k \in DOMAIN open', open'[k].kind \in Tries
      PROVE  TryBegins(k)'
  <2>1. TryBegins(k)
    BY <1>2 DEF CatchInv
  <2>2. Home(k)' = Home(k) /\ Offset' = Offset
    BY <1>2 DEF Home, Offset, Code
  <2> QED
    BY <1>2, <2>1, <2>2 DEF TryBegins
<1> QED
  BY <1>1, <1>2 DEF CatchInv

\* A try statement has one catch block, which begins with LOAD and CATCH where
\* the block that it protects ends.
THEOREM CatchInvHolds ==
  ASSUME MaxCatches <= 1
  PROVE  Spec => []CatchInv
<1>1. Init => CatchInv
  BY CatchInvInit
<1>2. CodeInv /\ CatchInv /\ [Next]_vars => CatchInv'
  <2> SUFFICES ASSUME CodeInv, CatchInv, [Next]_vars PROVE CatchInv'
    OBVIOUS
  <2>1. CASE Compile
    BY <2>1, CompileCatches
  <2>2. CASE Run
    BY <2>2, RunSteps, CatchRests DEF RunStep, compilerVars
  <2>3. CASE UNCHANGED vars
    BY <2>3, CatchRests DEF vars, compilerVars
  <2> QED
    BY <2>1, <2>2, <2>3 DEF Next
<1> QED
  BY <1>1, <1>2, CodeInvHolds, PTL DEF Spec

-----------------------------------------------------------------------------
(* Who names the exception. *)

\* Entry e of a frame f in code cs: the catch block names the exception that ended
\* the protected block, and did neither take nor lose it.
NamedBy(cs, f, e) ==
  /\ e.raised = cs[f.co].code[cs[f.co].handlers[e.h].first].arg
  /\ ~e.caught /\ ~e.lost
\* There is at most one such entry of f, the last, and the exception x is
\* compared next, in phase ph.
FrameNamed(cs, f, ph, x) ==
  \A k \in DOMAIN f.tries :
    NamedBy(cs, f, f.tries[k]) =>
      LET first == cs[f.co].handlers[f.tries[k].h].first
      IN  k = Len(f.tries) /\ ph = "run" /\ f.ip \in {first, first + 1} /\ x = f.tries[k].raised
FrameUnnamed(cs, f) == \A k \in DOMAIN f.tries : ~NamedBy(cs, f, f.tries[k])
NamedIs(cs, fs, ph, x) ==
  \A i \in DOMAIN fs :
    IF i = Len(fs) THEN FrameNamed(cs, fs[i], ph, x) ELSE FrameUnnamed(cs, fs[i])

NamedInv == Straight /\ phase # "compile" => NamedIs(codes, frames, phase, exc)

Alike(e2, e) == e2.h = e.h /\ e2.raised = e.raised /\ e2.caught = e.caught /\ e2.lost = e.lost
\* The entries of f2 are entries of f.
EntriesFrom(f2, f) ==
  f2.co = f.co /\ \A k \in DOMAIN f2.tries : \E l \in DOMAIN f.tries : Alike(f2.tries[k], f.tries[l])

\* So they name no exception when those do not.
LEMMA UnnamedFrom ==
  ASSUME NEW cs, NEW f, FrameUnnamed(cs, f), NEW f2, EntriesFrom(f2, f)
  PROVE  /\ FrameUnnamed(cs, f2) /\ \A ph, x : FrameNamed(cs, f2, ph, x)
<1>1. \A e2, e : Alike(e2, e) /\ f2.co = f.co /\ NamedBy(cs, f2, e2) => NamedBy(cs, f, e)
  BY DEF Alike, NamedBy
<1>2. FrameUnnamed(cs, f2)
  BY <1>1 DEF FrameUnnamed, EntriesFrom
<1> QED
  BY <1>2 DEF FrameUnnamed, FrameNamed

\* The current frame becomes f2.
LEMMA TopNamed ==
  ASSUME NEW cs, NEW fs \in Seq(Frame), fs # <<>>, NEW ph, NEW x, NamedIs(cs, fs, ph, x),
         NEW f2 \in Frame, NEW fs2, fs2 = [fs EXCEPT ![Len(fs)] = f2],
         NEW ph2, NEW x2, FrameNamed(cs, f2, ph2, x2)
  PROVE  NamedIs(cs, fs2, ph2, x2)
<1>1. ReplacedLast(fs2, fs, f2)
  BY FrameReplaced
<1> QED
  BY <1>1 DEF ReplacedLast, NamedIs

\* Away from LOAD and CATCH no entry of the current frame names an exception.
LEMMA TopUnnamed ==
  ASSUME CatchInv, NEW f, f.co \in DOMAIN codes, NEW gone, FrameOK(f, gone), NEW x,
         FrameNamed(codes, f, phase, x), phase # "run" \/ OpAt(f) \notin {"LOAD", "CATCH"}
  PROVE  FrameUnnamed(codes, f)
<1> SUFFICES ASSUME NEW k \in DOMAIN f.tries, NamedBy(codes, f, f.tries[k]) PROVE FALSE
  BY DEF FrameUnnamed
<1>1. PICK code, hs, h : code = codes[f.co].code /\ hs = codes[f.co].handlers /\ h = f.tries[k].h
  OBVIOUS
<1>2. h \in DOMAIN hs
  BY <1>1 DEF FrameOK, HistoryAt, AroundAt
<1>3. code[hs[h].first].op = "LOAD" /\ code[hs[h].first + 1].op = "CATCH"
  BY <1>1, <1>2 DEF CatchInv, CatchStarts
<1>4. phase = "run" /\ f.ip \in {hs[h].first, hs[h].first + 1}
  BY <1>1 DEF FrameNamed
<1> QED
  BY <1>1, <1>3, <1>4 DEF OpAt

\* An entry that has seen no exception names none.
LEMMA NoneRaised ==
  ASSUME CatchInv, NEW f, f.co \in DOMAIN codes, NEW e, e.h \in DOMAIN codes[f.co].handlers,
         e.raised = NoException
  PROVE  ~NamedBy(codes, f, e)
BY DEF CatchInv, CatchStarts, NamedBy, NoException

-----------------------------------------------------------------------------
(* The instructions. *)

\* What is known of the current frame.
LEMMA TopKnown ==
  ASSUME CodeInv, BlockInv, CatchInv, MachineInv, NamedInv, Straight, phase \in {"run", "error"}
  PROVE  /\ frames \in Seq(Frame) /\ frames # <<>> /\ Top = frames[Len(frames)] /\ IsTop(Top)
         /\ Top \in Frame /\ Top.co \in DOMAIN codes /\ Top.sp \in Int /\ exc \in Nat
         /\ \E gone : FrameOK(Top, gone)
         /\ NamedIs(codes, frames, phase, exc) /\ FrameNamed(codes, Top, phase, exc)
         /\ phase # "run" \/ OpAt(Top) \notin {"LOAD", "CATCH"} => FrameUnnamed(codes, Top)
<1>1. FramesOK /\ NamedIs(codes, frames, phase, exc)
  BY DEF MachineInv, NamedInv
<1>2. frames \in Seq(Frame) /\ frames # <<>> /\ Top = frames[Len(frames)] /\ IsTop(Top) /\ exc \in Nat
  BY <1>1 DEF FramesOK, Top, IsTop
<1>3. Len(frames) \in DOMAIN frames
  BY <1>2, EmptySeq
<1>4. \E gone : FrameOK(Top, gone)
  BY <1>1, <1>2, <1>3 DEF FramesOK
<1>5. Top \in Frame /\ Top.co \in DOMAIN codes
  BY <1>4 DEF FrameOK
<1>6. Top.sp \in Int
  BY <1>5 DEF Frame
<1>7. FrameNamed(codes, Top, phase, exc)
  BY <1>1, <1>2, <1>3 DEF NamedIs
<1>8. phase # "run" \/ OpAt(Top) \notin {"LOAD", "CATCH"} => FrameUnnamed(codes, Top)
  BY <1>4, <1>5, <1>7, TopUnnamed
<1> QED
  BY <1>1, <1>2, <1>4, <1>5, <1>6, <1>7, <1>8

\* The current frame becomes f2, in the next state.
LEMMA SetTopNamed ==
  ASSUME CodeInv, BlockInv, CatchInv, MachineInv, NamedInv, Straight, phase \in {"run", "error"},
         NEW f2 \in Frame, SetTop(f2), FrameNamed(codes, f2, phase', exc')
  PROVE  NamedIs(codes, frames', phase', exc')
<1>1. frames \in Seq(Frame) /\ frames # <<>> /\ NamedIs(codes, frames, phase, exc)
  BY TopKnown
<1>2. frames' = [frames EXCEPT ![Len(frames)] = f2]
  BY DEF SetTop
<1>3. PICK fs2, ph2, x2 : fs2 = frames' /\ ph2 = phase' /\ x2 = exc'
  OBVIOUS
<1>4. NamedIs(codes, fs2, ph2, x2)
  BY <1>1, <1>2, <1>3, TopNamed
<1> QED
  BY <1>3, <1>4

\* Goto.
LEMMA GotoNamed ==
  ASSUME CodeInv, BlockInv, CatchInv, MachineInv, NamedInv, Straight, phase \in {"run", "error"},
         FrameUnnamed(codes, Top), NEW sp \in Int, NEW ip \in Nat, Goto(sp, ip)
  PROVE  NamedIs(codes, frames', phase', exc')
<1>1. PICK f, hs, tries : f = Top /\ hs = codes[f.co].handlers /\ tries = f.tries
  OBVIOUS
<1>2. f \in Frame /\ IsTop(f) /\ exc \in Nat /\ tries \in Seq(Entry)
  <2>1. f \in Frame /\ IsTop(f) /\ exc \in Nat
    BY <1>1, TopKnown
  <2> QED
    BY <1>1, <2>1 DEF Frame
<1>3. PICK f2 : SetTop(f2) /\ GoesTo(f, f2, ip)
  BY <1>2, GotoFrame
<1>4. PICK tries2 : tries2 = f2.tries
  OBVIOUS
<1>5. SeenIs(hs, tries, ip, exc, tries2)
  <2>1. tries2 = SeenAt(hs, tries, ip, exc)
    BY <1>1, <1>3, <1>4 DEF GoesTo
  <2> QED
    BY <1>2, <2>1, SeenTypes
<1>6. EntriesFrom(f2, f) /\ f2 \in Frame
  <2>1. \A k \in DOMAIN tries2 : k \in DOMAIN tries /\ Alike(tries2[k], tries[k])
    BY <1>5 DEF SeenIs, Alike
  <2> QED
    BY <1>1, <1>3, <1>4, <2>1 DEF EntriesFrom, GoesTo
<1>7. FrameNamed(codes, f2, phase', exc')
  BY <1>1, <1>6, UnnamedFrom
<1> QED
  BY <1>3, <1>6, <1>7, SetTopNamed

\* The instruction of the current frame.
LEMMA InstrKnown ==
  ASSUME CodeInv, BlockInv, MachineInv, Straight, phase = "run"
  PROVE  Instr.arg \in Nat /\ Top.ip \in Nat /\ OpAt(Top) = Instr.op /\ Running(Top)
<1>1. Running(Top)
  BY Runs
<1>2. codes[Top.co].code \in Seq(Instruction) /\ Top.ip \in DOMAIN codes[Top.co].code
  BY <1>1 DEF Running, Sound
<1>3. Instr \in Instruction
  BY <1>2 DEF Instr
<1>4. Top.ip \in Nat
  BY <1>1 DEF Running, Frame
<1> QED
  BY <1>1, <1>3, <1>4 DEF Instruction, OpAt, Instr

\* Instructions that have nothing to do with catch blocks and end in Goto.
LEMMA GoingNamed ==
  ASSUME CodeInv, BlockInv, CatchInv, MachineInv, NamedInv, Straight,
         \/ Eval \/ Pop \/ MakeFunction \/ Jump \/ JumpIfFalse \/ GetIter \/ ForEach
         \/ Load /\ ~Executing("LOAD")
  PROVE  NamedIs(codes, frames', phase', exc')
<1> USE DEF Executing
<1>1. phase = "run" /\ Top.sp # NullPtr
  BY DEF Eval, Pop, MakeFunction, Jump, JumpIfFalse, GetIter, ForEach, Load
<1>2. /\ Instr.arg \in Nat /\ Top.ip + 1 \in Nat /\ OpAt(Top) = Instr.op
      /\ Top.sp \in Int /\ Top.sp + 1 \in Int /\ Top.sp - 1 \in Int
  BY <1>1, InstrKnown, TopKnown
<1>3. Instr.op \notin {"LOAD", "CATCH"}
  BY <1>1 DEF Eval, Pop, MakeFunction, Jump, JumpIfFalse, GetIter, ForEach, Load
<1>4. FrameUnnamed(codes, Top)
  BY <1>1, <1>2, <1>3, TopKnown
<1>5. \E sp \in Int, ip \in Nat : Goto(sp, ip)
  BY <1>2 DEF Eval, Pop, MakeFunction, Jump, JumpIfFalse, GetIter, ForEach, Load, PushTo, PopTo
<1> QED
  BY <1>1, <1>4, <1>5, GotoNamed

\* LOAD: the type of the catch block is on the stack, CATCH is next.
LEMMA LoadNamed ==
  ASSUME CodeInv, BlockInv, CatchInv, MachineInv, NamedInv, Straight, Load, Executing("LOAD")
  PROVE  NamedIs(codes, frames', phase', exc')
<1> USE DEF Executing
<1>1. /\ phase = "run" /\ phase' = "run" /\ exc' = exc /\ Instr.op = "LOAD"
      /\ Goto(Top.sp + 1, Top.ip + 1)
  BY DEF Load, PushTo, Same
<1>2. PICK f, code, hs, tries, sp, ip :
        /\ f = Top /\ code = codes[f.co].code /\ hs = codes[f.co].handlers /\ tries = f.tries
        /\ sp = Top.sp + 1 /\ ip = Top.ip + 1
  OBVIOUS
<1>3. /\ f \in Frame /\ IsTop(f) /\ exc \in Nat /\ tries \in Seq(Entry) /\ sp \in Int /\ ip \in Nat
      /\ f.ip \in Nat /\ ip = f.ip + 1 /\ code[f.ip].op = "LOAD" /\ f.co \in DOMAIN codes
      /\ FrameNamed(codes, f, phase, exc) /\ \E gone : FrameOK(f, gone)
  <2>1. /\ f \in Frame /\ IsTop(f) /\ exc \in Nat /\ f.co \in DOMAIN codes /\ f.sp \in Int
        /\ FrameNamed(codes, f, phase, exc) /\ \E gone : FrameOK(f, gone)
    BY <1>1, <1>2, TopKnown
  <2>2. f.ip \in Nat /\ code[f.ip].op = "LOAD"
    BY <1>1, <1>2, InstrKnown DEF OpAt
  <2>3. tries \in Seq(Entry)
    BY <1>2, <2>1 DEF Frame
  <2> QED
    BY <1>2, <2>1, <2>2, <2>3
<1>4. PICK f2 : SetTop(f2) /\ GoesTo(f, f2, ip)
  BY <1>1, <1>2, <1>3, GotoFrame
<1>5. PICK tries2 : tries2 = f2.tries
  OBVIOUS
<1>6. SeenIs(hs, tries, ip, exc, tries2)
  <2>1. tries2 = SeenAt(hs, tries, ip, exc)
    BY <1>2, <1>4, <1>5 DEF GoesTo
  <2> QED
    BY <1>3, <2>1, SeenTypes
<1>7. f2.co = f.co /\ f2.ip = f.ip + 1 /\ f2 \in Frame
  BY <1>3, <1>4 DEF GoesTo
<1>8. FrameNamed(codes, f2, "run", exc)
  <2> SUFFICES ASSUME NEW k \in DOMAIN tries2, NamedBy(codes, f2, tries2[k])
               PROVE  /\ k = Len(tries2) /\ exc = tries2[k].raised
                      /\ f2.ip \in {hs[tries2[k].h].first, hs[tries2[k].h].first + 1}
    BY <1>2, <1>5, <1>7 DEF FrameNamed
  <2>1. k \in DOMAIN tries /\ Alike(tries2[k], tries[k]) /\ Len(tries2) = Len(tries)
    BY <1>6 DEF SeenIs, Alike
  <2>2. NamedBy(codes, f, tries[k])
    BY <1>7, <2>1 DEF NamedBy, Alike
  <2>3. PICK h : h = tries[k].h
    OBVIOUS
  <2>4. k = Len(tries) /\ exc = tries[k].raised /\ f.ip \in {hs[h].first, hs[h].first + 1}
    BY <1>2, <1>3, <2>1, <2>2, <2>3 DEF FrameNamed
  <2>5. code[hs[h].first + 1].op = "CATCH"
    <3>1. h \in DOMAIN hs
      BY <1>2, <1>3, <2>1, <2>3 DEF FrameOK, HistoryAt, AroundAt
    <3> QED
      BY <1>2, <1>3, <3>1 DEF CatchInv, CatchStarts
  <2>6. f.ip = hs[h].first
    BY <1>3, <2>4, <2>5
  <2> QED
    BY <1>7, <2>1, <2>3, <2>4, <2>6 DEF Alike
<1> QED
  BY <1>1, <1>4, <1>7, <1>8, SetTopNamed

\* A catch block for another type.
LEMMA CatchDoesNotNamed ==
  ASSUME CodeInv, BlockInv, CatchInv, MachineInv, NamedInv, Straight, CatchDoesNot
  PROVE  NamedIs(codes, frames', phase', exc')
<1> USE DEF Executing
<1>1. /\ phase = "run" /\ Instr.op = "CATCH" /\ ~Matches /\ Goto(Top.sp, Instr.arg)
  BY DEF CatchDoesNot, PopTo
<1>2. Instr.arg \in Nat /\ Top.sp \in Int /\ Top.ip \in Nat /\ OpAt(Top) = "CATCH"
  BY <1>1, InstrKnown, TopKnown
<1>3. FrameUnnamed(codes, Top)
  <2> SUFFICES ASSUME NEW k \in DOMAIN Top.tries, NamedBy(codes, Top, Top.tries[k]) PROVE FALSE
    BY DEF FrameUnnamed
  <2>1. PICK code, hs, h, a :
          /\ code = codes[Top.co].code /\ hs = codes[Top.co].handlers /\ h = Top.tries[k].h
          /\ a = hs[h].first
    OBVIOUS
  <2>2. h \in DOMAIN hs /\ Top.co \in DOMAIN codes
    <3>1. Top.co \in DOMAIN codes /\ \E gone : FrameOK(Top, gone)
      BY <1>1, TopKnown
    <3> QED
      BY <2>1, <3>1 DEF FrameOK, HistoryAt, AroundAt
  <2>3. code[a].op = "LOAD" /\ a \in Nat
    <3>1. CatchStarts(code, hs[h])
      BY <2>1, <2>2 DEF CatchInv
    <3>2. code \in Seq(Instruction) /\ a \in DOMAIN code
      BY <1>1, <2>1, <3>1, InstrKnown DEF Running, Sound, CatchStarts
    <3>3. code[a].op = "LOAD"
      BY <2>1, <3>1 DEF CatchStarts
    <3>4. a \in Nat
      BY <3>2
    <3> QED
      BY <3>3, <3>4
  <2>4. /\ Top.ip \in {a, a + 1} /\ exc = Top.tries[k].raised /\ Top.tries[k].raised = code[a].arg
    <3>1. FrameNamed(codes, Top, phase, exc)
      BY <1>1, TopKnown
    <3> QED
      BY <2>1, <3>1 DEF FrameNamed, NamedBy
  <2>5. Top.ip - 1 = a
    <3>1. PICK x : x = Top.ip
      OBVIOUS
    <3>2. x \in {a, a + 1} /\ code[x].op = "CATCH"
      BY <1>2, <2>1, <2>4, <3>1 DEF OpAt
    <3>3. x = a + 1
      BY <2>3, <3>2
    <3> QED
      BY <2>3, <3>1, <3>3
  <2> QED
    BY <1>1, <2>1, <2>4, <2>5 DEF Matches
<1> QED
  BY <1>1, <1>2, <1>3, GotoNamed

\* The history stays.
LEMMA SameTriesNamed ==
  ASSUME CodeInv, BlockInv, CatchInv, MachineInv, NamedInv, Straight, phase \in {"run", "error"},
         FrameUnnamed(codes, Top), NEW f2 \in Frame, SetTop(f2), f2.co = Top.co,
         f2.tries = Top.tries
  PROVE  NamedIs(codes, frames', phase', exc')
<1>1. EntriesFrom(f2, Top)
  BY DEF EntriesFrom, Alike
<1>2. FrameNamed(codes, f2, phase', exc')
  BY <1>1, UnnamedFrom
<1> QED
  BY <1>2, SetTopNamed

\* Instructions that have nothing to do with the history.
LEMMA PlainNamed ==
  ASSUME CodeInv, BlockInv, CatchInv, MachineInv, NamedInv, Straight,
         \/ Store \/ Delete
         \/ EvalFails \/ DeleteFails \/ JumpIfFalseFails \/ GetIterFails \/ ForEachFails
         \/ RaiseException
  PROVE  NamedIs(codes, frames', phase', exc')
<1> USE DEF Executing
<1>1. phase = "run" /\ Instr.op \notin {"LOAD", "CATCH"}
  BY DEF Store, Delete, EvalFails, DeleteFails, JumpIfFalseFails, GetIterFails, ForEachFails,
     RaiseException
<1>2. /\ Instr.arg \in Nat /\ Top.ip \in Nat /\ OpAt(Top) = Instr.op
      /\ Top.sp \in Int /\ Top \in Frame
  BY <1>1, InstrKnown, TopKnown
<1>3. FrameUnnamed(codes, Top)
  BY <1>1, <1>2, TopKnown
<1>4. PICK f : f = Top
  OBVIOUS
<1>5. f \in Frame /\ f.sp \in Int /\ f.sp - 1 \in Int /\ f.bound \in SUBSET Nat /\ f.ip + 1 \in Nat
  BY <1>2, <1>4 DEF Frame
<1>6. \A sp \in Int, ip \in Nat, bound \in SUBSET Nat :
        LET g == [f EXCEPT !.sp = sp, !.ip = ip, !.bound = bound]
        IN  g \in Frame /\ g.co = f.co /\ g.tries = f.tries
  BY <1>5 DEF Frame
<1>7. \A sp \in Int :
        [f EXCEPT !.sp = sp] = [f EXCEPT !.sp = sp, !.ip = f.ip, !.bound = f.bound]
  BY <1>5 DEF Frame
<1>8. \E sp \in Int, ip \in Nat, bound \in SUBSET Nat :
        SetTop([f EXCEPT !.sp = sp, !.ip = ip, !.bound = bound])
  <2>1. CASE Store
    <3>1. f.bound \cup {Instr.arg} \in SUBSET Nat
      BY <1>2, <1>5
    <3>2. SetTop([f EXCEPT !.sp = f.sp - 1, !.ip = f.ip + 1, !.bound = f.bound \cup {Instr.arg}])
      BY <1>4, <2>1 DEF Store
    <3> QED
      BY <1>5, <3>1, <3>2
  <2>2. CASE Delete
    <3>1. f.bound \ {Instr.arg} \in SUBSET Nat
      BY <1>5
    <3>2. [f EXCEPT !.ip = @ + 1, !.bound = @ \ {Instr.arg}] =
            [f EXCEPT !.sp = f.sp, !.ip = f.ip + 1, !.bound = f.bound \ {Instr.arg}]
      BY <1>5 DEF Frame
    <3>3. SetTop([f EXCEPT !.sp = f.sp, !.ip = f.ip + 1, !.bound = f.bound \ {Instr.arg}])
      BY <1>4, <2>2, <3>2 DEF Delete
    <3> QED
      BY <1>5, <3>1, <3>3
  <2>3. CASE ~(Store \/ Delete)
    <3>1. PICK sp \in Int : SetTop([f EXCEPT !.sp = sp])
      BY <1>4, <1>5, <2>3 DEF EvalFails, DeleteFails, JumpIfFalseFails, GetIterFails, ForEachFails,
         RaiseException, Fail
    <3>2. PICK g : g = [f EXCEPT !.sp = sp]
      OBVIOUS
    <3>3. SetTop(g)
      BY <3>1, <3>2
    <3>4. g = [f EXCEPT !.sp = sp, !.ip = f.ip, !.bound = f.bound]
      BY <1>7, <3>2
    <3>5. f.ip \in Nat
      BY <1>5 DEF Frame
    <3> QED
      BY <1>5, <3>3, <3>4, <3>5
  <2> QED
    BY <2>1, <2>2, <2>3
<1>9. \E f2 \in Frame : SetTop(f2) /\ f2.co = f.co /\ f2.tries = f.tries
  BY <1>6, <1>8
<1> QED
  BY <1>1, <1>3, <1>4, <1>9, SameTriesNamed

\* What the current frame becomes is a frame.
LEMMA NextTyped ==
  ASSUME CodeInv, BlockInv, MachineInv, Straight, Run, used' = used, NEW f2, SetTop(f2)
  PROVE  f2 \in Frame
<1>1. phase \in {"run", "error"} /\ phase' # "compile"
  BY RunSteps DEF RunStep
<1>2. FramesOK /\ FramesOK'
  <2>1. MachineInv'
    BY MachineRuns
  <2> QED
    BY <1>1, <2>1 DEF MachineInv, Straight
<1>3. frames \in Seq(Frame) /\ frames' \in Seq(Frame) /\ frames # <<>>
  BY <1>1, <1>2 DEF FramesOK
<1>4. Len(frames) \in DOMAIN frames
  BY <1>3, EmptySeq
<1>5. DOMAIN frames' = DOMAIN frames /\ frames'[Len(frames)] = f2
  BY <1>3, <1>4 DEF SetTop
<1> QED
  BY <1>3, <1>4, <1>5

\* The last entry is not looked for any more.
LEMMA MarkedNamed ==
  ASSUME CodeInv, BlockInv, CatchInv, MachineInv, NamedInv, Straight, phase \in {"run", "error"},
         NEW f2 \in Frame, SetTop(f2), f2.co = Top.co, DOMAIN f2.tries = DOMAIN Top.tries,
         \A k \in DOMAIN Top.tries :
           f2.tries[k] = Top.tries[k] \/ f2.tries[k].caught \/ f2.tries[k].lost,
         \A k \in DOMAIN Top.tries :
           k = Len(Top.tries) => f2.tries[k].caught \/ f2.tries[k].lost
  PROVE  NamedIs(codes, frames', phase', exc')
<1>1. FrameNamed(codes, Top, phase, exc)
  BY TopKnown
<1>2. ASSUME NEW k \in DOMAIN f2.tries, NamedBy(codes, f2, f2.tries[k]) PROVE FALSE
  <2>1. f2.tries[k] = Top.tries[k]
    BY <1>2 DEF NamedBy
  <2>2. NamedBy(codes, Top, Top.tries[k])
    BY <1>2, <2>1 DEF NamedBy
  <2>3. k = Len(Top.tries)
    BY <1>1, <2>2 DEF FrameNamed
  <2> QED
    BY <1>2, <2>3 DEF NamedBy
<1>3. FrameNamed(codes, f2, phase', exc')
  BY <1>2 DEF FrameNamed
<1> QED
  BY <1>3, SetTopNamed

\* A catch block takes the exception, or its type is not defined.
LEMMA CatchNamed ==
  ASSUME CodeInv, BlockInv, CatchInv, MachineInv, NamedInv, Straight, CatchMatches \/ LoadFails
  PROVE  NamedIs(codes, frames', phase', exc')
<1>1. phase = "run" /\ used' = used /\ Run
  BY DEF CatchMatches, LoadFails, Executing, Run
<1>2. PICK f, tries, n, e : f = Top /\ tries = f.tries /\ n = Len(tries) /\ e = tries[n]
  OBVIOUS
<1>3. f \in Frame /\ tries \in Seq(Entry)
  <2>1. f \in Frame
    BY <1>1, <1>2, TopKnown
  <2> QED
    BY <1>2, <2>1 DEF Frame
<1>4. n \in DOMAIN tries => e \in Entry
  BY <1>2, <1>3
<1>5. CASE CatchMatches
  <2>1. PICK f2, tries2, e2 :
          /\ e2 = [e EXCEPT !.caught = TRUE] /\ tries2 = [tries EXCEPT ![n] = e2]
          /\ f2 = [f EXCEPT !.sp = @ + 1, !.ip = @ + 1, !.tries = tries2]
    OBVIOUS
  <2>2. SetTop(f2)
    <3>1. SetTop([Top EXCEPT !.sp = @ + 1, !.ip = @ + 1, !.tries[Len(Top.tries)].caught = TRUE])
      BY <1>5 DEF CatchMatches
    <3>2. [Top EXCEPT !.sp = @ + 1, !.ip = @ + 1, !.tries[Len(Top.tries)].caught = TRUE] = f2
      BY <1>2, <2>1
    <3> QED
      BY <3>1, <3>2
  <2>3. f2 \in Frame
    BY <1>1, <2>2, NextTyped
  <2>4. f2.co = f.co /\ f2.tries = tries2
    BY <1>3, <2>1 DEF Frame
  <2>5. DOMAIN tries2 = DOMAIN tries /\ \A k \in DOMAIN tries : k # n => tries2[k] = tries[k]
    BY <2>1
  <2>6. n \in DOMAIN tries => tries2[n].caught
    BY <1>4, <2>1 DEF Entry
  <2> QED
    BY <1>1, <1>2, <2>2, <2>3, <2>4, <2>5, <2>6, MarkedNamed
<1>6. CASE LoadFails
  <2>1. PICK f2, tries2, e2 :
          /\ e2 = [e EXCEPT !.lost = TRUE] /\ tries2 = [tries EXCEPT ![n] = e2]
          /\ f2 = [f EXCEPT !.tries = tries2]
    OBVIOUS
  <2>2. SetTop(f2)
    <3>1. SetTop([Top EXCEPT !.tries[Len(Top.tries)].lost = TRUE])
      BY <1>6 DEF LoadFails
    <3>2. [Top EXCEPT !.tries[Len(Top.tries)].lost = TRUE] = f2
      BY <1>2, <2>1
    <3> QED
      BY <3>1, <3>2
  <2>3. f2 \in Frame
    BY <1>1, <2>2, NextTyped
  <2>4. f2.co = f.co /\ f2.tries = tries2
    BY <1>3, <2>1 DEF Frame
  <2>5. DOMAIN tries2 = DOMAIN tries /\ \A k \in DOMAIN tries : k # n => tries2[k] = tries[k]
    BY <2>1
  <2>6. n \in DOMAIN tries => tries2[n].lost
    BY <1>4, <2>1 DEF Entry
  <2> QED
    BY <1>1, <1>2, <2>2, <2>3, <2>4, <2>5, <2>6, MarkedNamed
<1> QED
  BY <1>5, <1>6

\* A try statement begins: its entry has seen no exception.
LEMMA EnterNamed ==
  ASSUME CodeInv, BlockInv, CatchInv, MachineInv, NamedInv, Straight, EnterTry
  PROVE  NamedIs(codes, frames', phase', exc')
<1>1. /\ phase = "run" /\ used' = used /\ Run /\ Instr.op = "TRY"
  BY DEF EnterTry, Executing, Run
<1>2. PICK f, code, hs, a, tries, h, sp, e :
        /\ f = Top /\ code = codes[f.co].code /\ hs = codes[f.co].handlers /\ a = f.ip
        /\ tries = f.tries /\ h = StartingAt(a) /\ sp = f.sp /\ e = Try(h, sp)
  OBVIOUS
<1>3. Running(f) /\ f \in Frame /\ f.co \in DOMAIN codes /\ sp \in Int /\ FrameUnnamed(codes, f)
  <2>1. Running(f) /\ OpAt(f) = "TRY"
    BY <1>1, <1>2, InstrKnown
  <2> QED
    BY <1>1, <1>2, <2>1, TopKnown
<1>4. Sound(code, hs) /\ a \in DOMAIN code /\ code[a].op = "TRY" /\ HistoryAt(hs, a, FALSE, tries)
  <2>1. Sound(code, hs) /\ a \in DOMAIN code /\ HistoryAt(hs, a, FALSE, tries)
    BY <1>2, <1>3 DEF Running, FrameOK
  <2>2. code[a].op = "TRY"
    BY <1>1, <1>2 DEF Instr
  <2> QED
    BY <2>1, <2>2
<1>5. h \in DOMAIN hs /\ StartsAt(hs, h, a)
  <2>1. PromisedAt(code, hs, DOMAIN codes, a)
    BY <1>2, <1>3, <1>4 DEF Running, Ready
  <2>2. \E g \in DOMAIN hs : hs[g].start = a
    BY <1>4, <2>1 DEF PromisedAt
  <2>3. h = CHOOSE g \in DOMAIN hs : hs[g].start = a
    BY <1>2 DEF StartingAt, Handlers
  <2>4. h \in DOMAIN hs /\ hs[h].start = a
    BY <2>2, <2>3
  <2> QED
    BY <2>4 DEF StartsAt
<1>6. Outside(tries, h) = tries /\ e \in Entry /\ tries \in Seq(Entry)
  <2>1. /\ Outside(tries, h) = tries /\ Try(h, sp) \in Entry
        /\ HistoryAt(hs, a + 1, FALSE, Append(tries, Try(h, sp)))
    BY <1>3, <1>4, <1>5, HistoryBegins
  <2>2. e \in Entry
    BY <1>2, <2>1
  <2>3. tries \in Seq(Entry)
    BY <1>4 DEF HistoryAt
  <2> QED
    BY <2>1, <2>2, <2>3
<1>7. PICK tries2, f2 : tries2 = Append(tries, e) /\ f2 = [f EXCEPT !.ip = @ + 1, !.tries = tries2]
  OBVIOUS
<1>8. SetTop(f2)
  <2>1. SetTop([Top EXCEPT !.ip = @ + 1,
                           !.tries = Append(Outside(@, StartingAt(Top.ip)),
                                            Try(StartingAt(Top.ip), Top.sp))])
    BY DEF EnterTry
  <2>2. Outside(f.tries, StartingAt(f.ip)) = f.tries
    BY <1>2, <1>6
  <2>3. [f EXCEPT !.ip = @ + 1,
                  !.tries = Append(Outside(@, StartingAt(f.ip)), Try(StartingAt(f.ip), f.sp))] = f2
    BY <1>2, <1>7, <2>2
  <2> QED
    BY <1>2, <2>1, <2>3
<1>9. f2 \in Frame /\ f2.co = f.co /\ f2.tries = tries2
  <2>1. f2 \in Frame
    BY <1>1, <1>8, NextTyped
  <2> QED
    BY <1>3, <1>7, <2>1 DEF Frame
<1>10. ASSUME NEW k \in DOMAIN tries2, NamedBy(codes, f2, tries2[k]) PROVE FALSE
  <2>1. CASE k \in DOMAIN tries
    <3>1. tries2[k] = tries[k]
      BY <1>6, <1>7, <2>1
    <3>2. NamedBy(codes, f, tries[k])
      BY <1>9, <1>10, <3>1 DEF NamedBy
    <3> QED
      BY <1>2, <1>3, <2>1, <3>2 DEF FrameUnnamed
  <2>2. CASE k \notin DOMAIN tries
    <3>1. tries2[k] = e
      BY <1>6, <1>7, <1>10, <2>2
    <3>2. e.h = h /\ e.raised = NoException
      BY <1>2 DEF Try
    <3>3. ~NamedBy(codes, f, e)
      BY <1>2, <1>3, <1>5, <3>2, NoneRaised
    <3> QED
      BY <1>9, <1>10, <3>1, <3>3 DEF NamedBy
  <2> QED
    BY <2>1, <2>2
<1>11. FrameNamed(codes, f2, phase', exc')
  BY <1>9, <1>10 DEF FrameNamed
<1> QED
  BY <1>1, <1>8, <1>9, <1>11, SetTopNamed

\* A try statement ends.
LEMMA LeaveNamed ==
  ASSUME CodeInv, BlockInv, CatchInv, MachineInv, NamedInv, Straight, LeaveTry
  PROVE  NamedIs(codes, frames', phase', exc')
<1>1. /\ phase = "run" /\ used' = used /\ Run /\ Instr.op = "END_TRY"
  BY DEF LeaveTry, Executing, Run
<1>2. PICK f, code, hs, a, tries, h, tries2 :
        /\ f = Top /\ code = codes[f.co].code /\ hs = codes[f.co].handlers /\ a = f.ip
        /\ tries = f.tries /\ h = EndingAt(a) /\ tries2 = Outside(tries, h)
  OBVIOUS
<1>3. Running(f) /\ f \in Frame /\ f.co \in DOMAIN codes /\ FrameUnnamed(codes, f)
  <2>1. Running(f) /\ OpAt(f) = "END_TRY"
    BY <1>1, <1>2, InstrKnown
  <2> QED
    BY <1>1, <1>2, <2>1, TopKnown
<1>4. Sound(code, hs) /\ a \in DOMAIN code /\ code[a].op = "END_TRY" /\ HistoryAt(hs, a, FALSE, tries)
  <2>1. Sound(code, hs) /\ a \in DOMAIN code /\ HistoryAt(hs, a, FALSE, tries)
    BY <1>2, <1>3 DEF Running, FrameOK
  <2>2. code[a].op = "END_TRY"
    BY <1>1, <1>2 DEF Instr
  <2> QED
    BY <2>1, <2>2
<1>5. h \in DOMAIN hs /\ EndsAt(hs, h, a)
  <2>1. PromisedAt(code, hs, DOMAIN codes, a)
    BY <1>2, <1>3, <1>4 DEF Running, Ready
  <2>2. \E g \in DOMAIN hs : hs[g].end = a
    BY <1>4, <2>1 DEF PromisedAt
  <2>3. h = CHOOSE g \in DOMAIN hs : hs[g].end = a
    BY <1>2 DEF EndingAt, Handlers
  <2>4. h \in DOMAIN hs /\ hs[h].end = a
    BY <2>2, <2>3
  <2> QED
    BY <2>4 DEF EndsAt
<1>6. \A k \in DOMAIN tries2 : k \in DOMAIN tries /\ tries2[k] = tries[k]
  <2>1. EndedHistory(hs, h, a, a + 1, tries, Outside(tries, h))
    BY <1>4, <1>5, HistoryEnds
  <2>2. EndedHistory(hs, h, a, a + 1, tries, tries2)
    BY <1>2, <2>1
  <2> QED
    BY <2>2, Zenon DEF EndedHistory
<1>7. PICK f2 : f2 = [f EXCEPT !.sp = Restored(h), !.tries = tries2,
                               !.ip = IF Resumes THEN @ + 1 ELSE @]
  OBVIOUS
<1>8. SetTop(f2)
  <2>1. SetTop([Top EXCEPT !.sp = Restored(EndingAt(Top.ip)),
                           !.tries = Outside(@, EndingAt(Top.ip)),
                           !.ip = IF Resumes THEN @ + 1 ELSE @])
    BY DEF LeaveTry
  <2>2. [Top EXCEPT !.sp = Restored(EndingAt(Top.ip)), !.tries = Outside(@, EndingAt(Top.ip)),
                    !.ip = IF Resumes THEN @ + 1 ELSE @] = f2
    BY <1>2, <1>7
  <2> QED
    BY <2>1, <2>2
<1>9. f2 \in Frame /\ f2.co = f.co /\ f2.tries = tries2
  <2>1. f2 \in Frame
    BY <1>1, <1>8, NextTyped
  <2> QED
    BY <1>3, <1>7, <2>1 DEF Frame
<1>10. EntriesFrom(f2, f)
  BY <1>2, <1>6, <1>9 DEF EntriesFrom, Alike
<1>11. FrameNamed(codes, f2, phase', exc')
  BY <1>3, <1>10, UnnamedFrom
<1> QED
  BY <1>1, <1>8, <1>9, <1>11, SetTopNamed

\* error: a catch block is to be found, or none.
LEMMA HandleNamed ==
  ASSUME CodeInv, BlockInv, CatchInv, MachineInv, NamedInv, Straight, HandleError
  PROVE  NamedIs(codes, frames', phase', exc')
<1>1. /\ phase = "error" /\ Around # {} /\ phase' = "run" /\ exc' = exc /\ used' = used /\ Run
  BY DEF HandleError, Same, Run
<1>2. PICK f, hs, h, r, tries, n :
        /\ f = Top /\ hs = codes[f.co].handlers /\ h = Innermost /\ r = hs[h]
        /\ tries = f.tries /\ n = Len(tries)
  OBVIOUS
<1>3. /\ Failed(f) /\ InnermostAt(f, h) /\ tries # <<>> /\ tries[n].h = h
      /\ r = Handlers[Innermost] /\ f \in Frame /\ FrameUnnamed(codes, f) /\ f.sp \in Int
  <2>1. Failed(f)
    BY <1>1, <1>2, Fails
  <2>2. InnermostAt(f, h) /\ tries # <<>> /\ tries[n].h = h
    BY <1>1, <1>2, <2>1, InnermostIs
  <2>3. r = Handlers[Innermost]
    BY <1>2 DEF Handlers
  <2>4. f \in Frame /\ FrameUnnamed(codes, f) /\ f.sp \in Int
    BY <1>1, <1>2, TopKnown
  <2> QED
    BY <2>1, <2>2, <2>3, <2>4
<1>4. r.first \in Nat /\ r.end \in Nat /\ r.finally \in Nat
  <2>1. hs \in Seq(Handler) /\ h \in DOMAIN hs
    BY <1>2, <1>3 DEF Failed, Sound, InnermostAt, AroundAt
  <2>2. r \in Handler
    BY <1>2, <2>1
  <2> QED
    BY <2>2 DEF Handler
<1>5. tries \in Seq(Entry) /\ n \in DOMAIN tries /\ tries[n] \in Entry
  <2>1. tries \in Seq(Entry)
    BY <1>2, <1>3 DEF Frame
  <2> QED
    BY <1>2, <1>3, <2>1, EmptySeq
<1>6. CASE SetTop([Top EXCEPT !.ip = r.first, !.tries[Len(Top.tries)].raised = exc])
  <2>1. PICK e2, tries2, f2 :
          /\ e2 = [tries[n] EXCEPT !.raised = exc] /\ tries2 = [tries EXCEPT ![n] = e2]
          /\ f2 = [f EXCEPT !.ip = r.first, !.tries = tries2]
    OBVIOUS
  <2>2. SetTop(f2)
    <3>1. [Top EXCEPT !.ip = r.first, !.tries[Len(Top.tries)].raised = exc] = f2
      BY <1>2, <2>1
    <3> QED
      BY <1>6, <3>1
  <2>3. f2 \in Frame
    BY <1>1, <2>2, NextTyped
  <2>4. f2.co = f.co /\ f2.ip = r.first /\ f2.tries = tries2
    BY <1>3, <2>1 DEF Frame
  <2>5. /\ DOMAIN tries2 = DOMAIN tries /\ tries2[n].h = h /\ tries2[n].raised = exc
        /\ \A k \in DOMAIN tries : k # n => tries2[k] = tries[k]
    <3>1. e2.h = h /\ e2.raised = exc
      BY <1>3, <1>5, <2>1 DEF Entry
    <3> QED
      BY <1>5, <2>1, <3>1
  <2>6. Len(tries2) = n
    <3>1. tries2 \in Seq(Entry)
      BY <2>3, <2>4 DEF Frame
    <3> QED
      BY <1>2, <1>5, <2>5, <3>1
  <2>7. FrameNamed(codes, f2, "run", exc)
    <3> SUFFICES ASSUME NEW k \in DOMAIN tries2, NamedBy(codes, f2, tries2[k])
                 PROVE  /\ k = n /\ exc = tries2[k].raised
                        /\ f2.ip \in {hs[tries2[k].h].first, hs[tries2[k].h].first + 1}
      BY <1>2, <2>4, <2>6 DEF FrameNamed
    <3>1. ASSUME k # n PROVE FALSE
      <4>1. NamedBy(codes, f, tries[k]) /\ k \in DOMAIN tries
        BY <2>4, <2>5, <3>1 DEF NamedBy
      <4> QED
        BY <1>2, <1>3, <4>1 DEF FrameUnnamed
    <3> QED
      BY <1>2, <2>4, <2>5, <3>1
  <2> QED
    BY <1>1, <2>2, <2>3, <2>7, SetTopNamed
<1>7. ASSUME NEW ip \in Nat, Goto(Top.sp, ip) PROVE NamedIs(codes, frames', phase', exc')
  BY <1>1, <1>2, <1>3, <1>7, GotoNamed
<1>8. AfterBlock(r) \in Nat /\ AfterFinally(r) \in Nat
  BY <1>4 DEF AfterBlock, AfterFinally
<1>9. \/ SetTop([Top EXCEPT !.ip = r.first, !.tries[Len(Top.tries)].raised = exc])
      \/ Goto(Top.sp, AfterBlock(r)) \/ Goto(Top.sp, AfterFinally(r))
  BY <1>3 DEF HandleError
<1> QED
  BY <1>6, <1>7, <1>8, <1>9

\* A call: the caller is in an expression, and the new frame in no try statement.
LEMMA CallNamed ==
  ASSUME CodeInv, BlockInv, CatchInv, MachineInv, NamedInv, Straight, NEW c \in defined, Call(c)
  PROVE  NamedIs(codes, frames', phase', exc')
<1>1. /\ phase = "run" /\ Instr.op = "EVAL"
      /\ frames' = Append(frames, NewFrame(c, Top.sp + 1))
  BY DEF Call, Executing
<1>2. PICK s, s2, n, q :
        s = frames /\ s2 = frames' /\ n = Len(frames) /\ q = NewFrame(c, Top.sp + 1)
  OBVIOUS
<1>3. /\ s \in Seq(Frame) /\ s # <<>> /\ Top = s[n] /\ Top.sp \in Int
      /\ NamedIs(codes, s, phase, exc) /\ FrameUnnamed(codes, s[n])
  <2>1. OpAt(Top) = "EVAL"
    BY <1>1, InstrKnown
  <2> QED
    BY <1>1, <1>2, <2>1, TopKnown
<1>4. q \in Frame /\ q.tries = <<>>
  <2>1. PICK sp : sp = Top.sp + 1
    OBVIOUS
  <2>2. sp \in Int /\ q = NewFrame(c, sp)
    BY <1>2, <1>3, <2>1
  <2>3. c \in Nat
    <3>1. codes \in Seq(CodeObject) /\ defined \subseteq DOMAIN codes
      BY <1>1 DEF CodeInv, CodesOK, MachineInv, FramesOK
    <3> QED
      BY <3>1
  <2> QED
    BY <2>2, <2>3 DEF NewFrame, Frame
<1>5. /\ n \in Nat \ {0} /\ DOMAIN s = 1 .. n /\ Len(s2) = n + 1 /\ DOMAIN s2 = 1 .. n + 1
      /\ s2[n + 1] = q /\ \A i \in DOMAIN s : s2[i] = s[i]
  <2>1. s2 = Append(s, q) /\ Len(s) = n
    BY <1>1, <1>2
  <2>2. n \in Nat \ {0}
    BY <1>3, <2>1, EmptySeq
  <2> QED
    BY <1>3, <1>4, <2>1, <2>2
<1>6. \A i \in DOMAIN s : FrameUnnamed(codes, s[i])
  BY <1>2, <1>3 DEF NamedIs
<1>7. ASSUME NEW i \in DOMAIN s2, NEW ph, NEW x
      PROVE  IF i = Len(s2) THEN FrameNamed(codes, s2[i], ph, x) ELSE FrameUnnamed(codes, s2[i])
  <2>1. CASE i = n + 1
    <3>1. DOMAIN s2[i].tries = {}
      BY <1>4, <1>5, <2>1
    <3> QED
      BY <1>5, <2>1, <3>1 DEF FrameNamed
  <2>2. CASE i # n + 1
    <3>1. i \in DOMAIN s /\ s2[i] = s[i]
      BY <1>5, <1>7, <2>2
    <3> QED
      BY <1>5, <1>6, <2>2, <3>1
  <2> QED
    BY <2>1, <2>2
<1>8. \A ph, x : NamedIs(codes, s2, ph, x)
  BY <1>7 DEF NamedIs
<1> QED
  BY <1>2, <1>8

\* The current frame ends: its callers are in an expression.
LEMMA ReturnNamed ==
  ASSUME CodeInv, BlockInv, CatchInv, MachineInv, NamedInv, Straight, ReturnValue \/ Propagate
  PROVE  NamedIs(codes, frames', phase', exc')
<1>1. phase \in {"run", "error"}
  BY DEF ReturnValue, Executing, Propagate
<1>2. PICK s, n, callers, m : s = frames /\ n = Len(frames) /\ callers = Front(frames) /\ m = n - 1
  OBVIOUS
<1>3. s \in Seq(Frame) /\ s # <<>> /\ NamedIs(codes, s, phase, exc) /\ Len(s) = n
  BY <1>1, <1>2, TopKnown
<1>4. /\ callers \in Seq(Frame) /\ n \in Nat \ {0} /\ Len(callers) = m /\ m \in Nat
      /\ \A i \in DOMAIN callers : callers[i] = s[i] /\ i \in DOMAIN s /\ i # n
  <2>1. /\ callers \in Seq(Frame) /\ n \in Nat \ {0} /\ Len(callers) = m
        /\ \A i \in 1 .. m : callers[i] = s[i]
    BY <1>2, <1>3, Fronts
  <2>2. DOMAIN callers = 1 .. m /\ DOMAIN s = 1 .. n /\ m = n - 1
    BY <1>2, <1>3, <2>1
  <2> QED
    BY <2>1, <2>2
<1>5. \A i \in DOMAIN callers : FrameUnnamed(codes, callers[i])
  BY <1>3, <1>4 DEF NamedIs
<1>6. ASSUME NEW fs, DOMAIN fs = DOMAIN callers,
             \A i \in DOMAIN callers : EntriesFrom(fs[i], callers[i])
      PROVE  \A ph, x : NamedIs(codes, fs, ph, x)
  <2>1. ASSUME NEW i \in DOMAIN fs
        PROVE  FrameUnnamed(codes, fs[i]) /\ \A ph, x : FrameNamed(codes, fs[i], ph, x)
    BY <1>5, <1>6, UnnamedFrom
  <2> QED
    BY <2>1 DEF NamedIs
<1>7. PICK fs2 : fs2 = frames'
  OBVIOUS
<1>8. fs2 = <<>> \/ (DOMAIN fs2 = DOMAIN callers /\ \A i \in DOMAIN callers : EntriesFrom(fs2[i], callers[i]))
  <2>1. CASE ReturnValue
    <3>1. CASE n = 1
      BY <1>2, <1>7, <2>1, <3>1 DEF ReturnValue
    <3>2. CASE n # 1
      <4>1. PICK f, f2 : f = Last(callers) /\ f2 = [f EXCEPT !.sp = @ + 1, !.ip = @ + 1]
        OBVIOUS
      <4>2. fs2 = [callers EXCEPT ![Len(callers)] = f2]
        BY <1>2, <1>7, <2>1, <3>2, <4>1 DEF ReturnValue
      <4>3. m \in DOMAIN callers /\ f = callers[m] /\ f \in Frame
        <5>1. m \in DOMAIN callers
          BY <1>2, <1>4, <3>2
        <5>2. Last(callers) = callers[Len(callers)]
          BY <1>4, <5>1 DEF Last
        <5> QED
          BY <1>4, <4>1, <5>1, <5>2
      <4>4. f2.co = f.co /\ f2.tries = f.tries
        BY <4>1, <4>3 DEF Frame
      <4>5. /\ DOMAIN fs2 = DOMAIN callers /\ fs2[m] = f2
            /\ \A i \in DOMAIN callers : i # m => fs2[i] = callers[i]
        BY <1>4, <4>2, <4>3
      <4> QED
        BY <4>3, <4>4, <4>5 DEF EntriesFrom, Alike
    <3> QED
      BY <3>1, <3>2
  <2>2. CASE Propagate
    <3>1. fs2 = callers
      BY <1>2, <1>7, <2>2 DEF Propagate
    <3> QED
      BY <3>1 DEF EntriesFrom, Alike
  <2> QED
    BY <2>1, <2>2
<1>9. \A ph, x : NamedIs(codes, fs2, ph, x)
  <2>1. CASE fs2 = <<>>
    BY <2>1 DEF NamedIs
  <2> QED
    BY <1>6, <1>8, <2>1
<1> QED
  BY <1>7, <1>9

\* Every step of execute keeps the invariant.
LEMMA NamedRuns ==
  ASSUME CodeInv, BlockInv, CatchInv, MachineInv, NamedInv, Straight, Run
  PROVE  NamedInv'
<1>1. codes' = codes
  BY RunSteps DEF RunStep, compilerVars
<1>2. NamedIs(codes, frames', phase', exc')
  <2>1. CASE Load
    BY <2>1, LoadNamed, GoingNamed
  <2>2. CASE Eval \/ Pop \/ MakeFunction \/ Jump \/ JumpIfFalse \/ GetIter \/ ForEach
    BY <2>2, GoingNamed
  <2>3. CASE \/ Store \/ Delete
             \/ EvalFails \/ DeleteFails \/ JumpIfFalseFails \/ GetIterFails \/ ForEachFails
             \/ RaiseException
    BY <2>3, PlainNamed
  <2>4. CASE CatchMatches \/ LoadFails
    BY <2>4, CatchNamed
  <2>5. CASE CatchDoesNot
    BY <2>5, CatchDoesNotNamed
  <2>6. CASE EnterTry
    BY <2>6, EnterNamed
  <2>7. CASE LeaveTry
    BY <2>7, LeaveNamed
  <2>8. CASE HandleError
    BY <2>8, HandleNamed
  <2>9. CASE ReturnValue \/ Propagate
    BY <2>9, ReturnNamed
  <2>10. ASSUME NEW c \in defined, Call(c) PROVE NamedIs(codes, frames', phase', exc')
    BY <2>10, CallNamed
  <2> QED
    BY <2>1, <2>2, <2>3, <2>4, <2>5, <2>6, <2>7, <2>8, <2>9, <2>10 DEF Run
<1> QED
  BY <1>1, <1>2 DEF NamedInv

\* The exception that ended a protected block and that the catch block names is
\* compared with that name next.
THEOREM NamedInvHolds ==
  ASSUME MaxCatches <= 1
  PROVE  Spec => []NamedInv
<1>1. Init => NamedInv
  BY DEF Init, CompilerInit, NamedInv
<1>2. CodeInv /\ BlockInv /\ CatchInv /\ MachineInv /\ MachineInv' /\ NamedInv /\ [Next]_vars => NamedInv'
  <2> SUFFICES ASSUME CodeInv, BlockInv, CatchInv, MachineInv, NamedInv, [Next]_vars
               PROVE  NamedInv'
    OBVIOUS
  <2>1. CASE /\ Compile
             /\ UNCHANGED <<frames, iterator, exc, defined>>
    <3>1. frames' = <<NewFrame(1, 1)>>
      BY <2>1, CompilePhase DEF MachineInv
    <3>2. PICK q : q = NewFrame(1, 1)
      OBVIOUS
    <3>3. q.tries = <<>> /\ frames' = <<q>>
      BY <3>1, <3>2 DEF NewFrame
    <3>4. ASSUME NEW cs, NEW ph, NEW x PROVE NamedIs(cs, <<q>>, ph, x)
      <4>1. PICK fs : fs = <<q>>
        OBVIOUS
      <4>2. Len(fs) = 1 /\ DOMAIN fs = {1} /\ fs[1] = q
        BY <4>1
      <4>3. FrameNamed(cs, q, ph, x)
        BY <3>3 DEF FrameNamed
      <4>4. NamedIs(cs, fs, ph, x)
        BY <4>2, <4>3 DEF NamedIs
      <4> QED
        BY <4>1, <4>4
    <3>5. NamedIs(codes', frames', phase', exc')
      BY <3>3, <3>4
    <3> QED
      BY <3>5 DEF NamedInv
  <2>2. CASE Run
    <3>1. used \subseteq used'
      BY <2>2, RunSteps DEF RunStep
    <3>2. ASSUME Straight' PROVE NamedInv'
      BY <2>2, <3>1, <3>2, StraightBefore, NamedRuns
    <3> QED
      BY <3>2 DEF NamedInv
  <2>3. CASE UNCHANGED vars
    BY <2>3 DEF vars, compilerVars, machineVars, NamedInv, Straight
  <2> QED
    BY <2>1, <2>2, <2>3 DEF Next
<1> QED
  BY <1>1, <1>2, CodeInvHolds, BlockInvHolds, CatchInvHolds, MachineInvHolds, PTL DEF Spec

\* With one catch block per try statement, an exception that ends a protected
\* block and that the catch block names is caught by it, unless the name of such
\* a type is not defined.
THEOREM CaughtByName ==
  ASSUME MaxCatches <= 1
  PROVE  Spec => [](Avoids({"jumpFromTry", "jumpFunction"}) => CaughtIfNamed)
<1>1. CodeInv /\ BlockInv /\ CatchInv /\ MachineInv /\ NamedInv =>
        (Avoids({"jumpFromTry", "jumpFunction"}) => CaughtIfNamed)
  <2> SUFFICES ASSUME CodeInv, BlockInv, CatchInv, MachineInv, NamedInv,
                      Avoids({"jumpFromTry", "jumpFunction"}), phase = "run", Top.tries # <<>>,
                      Top.ip \in {HandlerOf(Top, Last(Top.tries)).finally,
                                  HandlerOf(Top, Last(Top.tries)).end},
                      NEW k \in DOMAIN HandlerOf(Top, Last(Top.tries)).catches,
                      codes[Top.co].code[HandlerOf(Top, Last(Top.tries)).catches[k]].arg =
                        Last(Top.tries).raised,
                      ~Last(Top.tries).caught, ~Last(Top.tries).lost
               PROVE  FALSE
    BY DEF CaughtIfNamed
  <2>1. Straight
    BY DEF Avoids, Straight
  <2>2. PICK f, code, hs, a, tries, n, e, r :
          /\ f = Top /\ code = codes[f.co].code /\ hs = codes[f.co].handlers /\ a = f.ip
          /\ tries = f.tries /\ n = Len(tries) /\ e = tries[n] /\ r = hs[e.h]
    OBVIOUS
  <2>3. /\ Sound(code, hs) /\ a \in DOMAIN code /\ HistoryAt(hs, a, FALSE, tries) /\ a \in Nat
        /\ f.co \in DOMAIN codes /\ FrameNamed(codes, f, phase, exc) /\ hs \in Seq(Handler)
    <3>1. Running(f) /\ a \in Nat
      BY <2>1, <2>2, InstrKnown
    <3>2. Sound(code, hs) /\ a \in DOMAIN code /\ HistoryAt(hs, a, FALSE, tries)
      BY <2>2, <3>1 DEF Running, FrameOK
    <3>3. f.co \in DOMAIN codes /\ FrameNamed(codes, f, phase, exc)
      BY <2>1, <2>2, TopKnown
    <3>4. hs \in Seq(Handler)
      BY <3>2 DEF Sound
    <3> QED
      BY <3>1, <3>2, <3>3, <3>4
  <2>4. tries # <<>> /\ n \in DOMAIN tries /\ Last(tries) = e /\ e.h \in DOMAIN hs
    <3>1. tries # <<>>
      BY <2>2
    <3>2. /\ Len(tries) \in DOMAIN tries /\ Last(tries) = tries[Len(tries)]
          /\ tries[Len(tries)].h \in AroundAt(hs, a, FALSE)
      BY <2>3, <3>1, LastInnermost
    <3>3. n = Len(tries) /\ e = tries[Len(tries)]
      BY <2>2
    <3> QED
      BY <3>1, <3>2, <3>3 DEF AroundAt
  <2>5. HandlerOf(f, e) = r
    BY <2>2 DEF HandlerOf
  <2>6. CatchStarts(code, r)
    BY <2>2, <2>3, <2>4 DEF CatchInv
  <2>7. /\ a \in {r.finally, r.end} /\ k \in DOMAIN r.catches
        /\ code[r.catches[k]].arg = e.raised /\ ~e.caught /\ ~e.lost
    BY <2>2, <2>4, <2>5
  <2>8. r.catches[k] = r.first
    <3>1. r.catches = <<r.first>>
      BY <2>6 DEF CatchStarts
    <3>2. k = 1
      BY <2>7, <3>1
    <3> QED
      BY <3>1, <3>2
  <2>9. NamedBy(codes, f, e)
    BY <2>2, <2>7, <2>8 DEF NamedBy
  <2>10. a \in {r.first, r.first + 1}
    BY <2>2, <2>3, <2>4, <2>9 DEF FrameNamed
  <2>11. code[a].op \in {"LOAD", "CATCH"}
    BY <2>6, <2>10 DEF CatchStarts
  <2>12. HandlerOK(code, r)
    BY <2>2, <2>3, <2>4 DEF Sound
  <2>13. a # r.end
    BY <2>11, <2>12 DEF HandlerOK
  <2>14. a # r.finally
    <3> SUFFICES ASSUME a = r.finally PROVE FALSE
      OBVIOUS
    <3>1. a # NoAddress
      BY <2>3 DEF Sound, NoAddress
    <3>2. r.first < r.finally /\ JumpBefore(code, r.finally)
      BY <2>12, <3>1 DEF HandlerOK
    <3>3. r.first \in Nat /\ a = r.first + 1
      <4>1. r.first \in Nat
        BY <2>2, <2>3, <2>4, Parts
      <4> QED
        BY <2>10, <3>2, <4>1
    <3>4. code[r.first].op = "JMP"
      BY <3>1, <3>2, <3>3 DEF JumpBefore
    <3> QED
      BY <2>6, <3>4 DEF CatchStarts
  <2> QED
    BY <2>7, <2>13, <2>14
<1> QED
  BY <1>1, CodeInvHolds, BlockInvHolds, CatchInvHolds, MachineInvHolds, NamedInvHolds, PTL
=============================================================================
