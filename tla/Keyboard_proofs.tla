--------------------------- MODULE Keyboard_proofs ---------------------------
(***************************************************************************)
(* Proofs about the keyboard's ring buffer, for every size of the buffer   *)
(* and every number of key presses.                                        *)
(***************************************************************************)
EXTENDS Keyboard, TLAPS

LEMMA SuccValue ==
    \A i \in Slots : succ(i) = (IF i = KBUF_SIZE - 1 THEN 0 ELSE i + 1) /\ succ(i) \in Slots
<1> SUFFICES ASSUME NEW i \in Slots
             PROVE  succ(i) = (IF i = KBUF_SIZE - 1 THEN 0 ELSE i + 1) /\ succ(i) \in Slots
    OBVIOUS
<1>1. KBUF_SIZE \in Nat \ {0} /\ i \in 0 .. KBUF_SIZE - 1 /\ i + 1 \in 0 .. 2 * KBUF_SIZE - 1
    BY SizeAssumption DEF Slots
<1>2. (i + 1) % KBUF_SIZE = IF i + 1 < KBUF_SIZE THEN i + 1 ELSE i + 1 - KBUF_SIZE
    BY <1>1
<1> QED
    BY <1>1, <1>2 DEF succ, Slots

LEMMA LowByte ==
    \A n \in Indices : low_byte(n) \in Indices /\ (n \in Slots => low_byte(n) = EOI)
<1> SUFFICES ASSUME NEW n \in Indices
             PROVE  low_byte(n) \in Indices /\ (n \in Slots => low_byte(n) = EOI)
    OBVIOUS
<1>1. KBUF_SIZE \in Nat \ {0} /\ n \in Int /\ -KBUF_SIZE <= n /\ n < KBUF_SIZE
    BY SizeAssumption DEF Indices
<1>2. EOI \in Int /\ 0 <= EOI /\ EOI < KBUF_SIZE
    BY <1>1, EoiAssumption
<1>3. n % KBUF_SIZE = IF n < 0 THEN n + KBUF_SIZE ELSE n
    BY <1>1
<1>4. low_byte(n) = IF n < 0 THEN EOI - KBUF_SIZE ELSE EOI
    BY <1>1, <1>2, <1>3 DEF low_byte
<1> QED
    BY <1>1, <1>2, <1>4 DEF Indices, Slots

-----------------------------------------------------------------------------
(* The inductive invariant.  Nothing in the code counts laps, so the       *)
(* invariant does: a slot holds the character typed as many characters ago *)
(* as it lies behind khead.                                                *)

Age(j) == IF j < khead THEN khead - 1 - j ELSE khead - 1 - j + KBUF_SIZE

SlotsAged ==
    \A j \in Slots : kbuf[j] = IF typed > Age(j) THEN typed - Age(j) ELSE 0

(* What the arithmetic on a spoiled index still keeps to.                  *)
Masked ==
    /\ pc \in {"fix", "back"} => eax \in Slots
    /\ pc = "back" => edx \in Slots

(* What the registers hold when no interrupt has hit them.                 *)
Expected ==
    /\ pc \in {"tail", "cmp"} => edx \in Slots
    /\ pc \in {"cmp", "index", "sum"} => eax = ktail
    /\ pc \in {"fix", "back"} => eax = 0
    /\ pc = "fix" => edx = ktail + 1
    /\ pc = "back" => edx = succ(ktail)
    /\ pc = "put" => eax = succ(ktail)

(* Once the test has passed the reader takes a character whatever khead    *)
(* has become: equal indices then mean a full lap.                         *)
Lap == IF khead = ktail THEN KBUF_SIZE ELSE Unread

(* The reader will take a character; it has taken one and not moved ktail. *)
Bound == pc = "index" \/ (pc \in {"tail", "cmp"} /\ edx # ktail)
Holding == pc \in {"char", "sum", "fix", "back", "put"}

(* What the reader will still take is newer than what it took.             *)
Fresh ==
    /\ last >= 0
    /\ Bound => last + Lap <= typed
    /\ Holding => last >= 1 /\ last + Lap - 1 <= typed
    /\ ~Holding => last + Unread <= typed

(* Before the first overrun nothing is missing.                            *)
Exact ==
    ~overflowed =>
        /\ Taken + Unread = typed
        /\ Bound \/ Holding => khead # ktail

Sound == Expected /\ Fresh /\ Exact
KInv == TypeOK /\ SlotsAged /\ Masked /\ (~spoiled => Sound)

(* The facts every step's proof begins with.                               *)
LEMMA Ranges ==
    ASSUME KInv, ~spoiled
    PROVE  /\ khead \in 0 .. KBUF_SIZE - 1 /\ ktail \in 0 .. KBUF_SIZE - 1
           /\ KBUF_SIZE \in Nat \ {0} /\ last \in Nat /\ typed \in Nat /\ last <= typed
           /\ Unread \in 0 .. KBUF_SIZE - 1 /\ Lap \in 1 .. KBUF_SIZE
           /\ khead # ktail => Lap = Unread
           /\ khead = ktail => Unread = 0 /\ Lap = KBUF_SIZE
<1> USE SizeAssumption
<1>1. khead \in 0 .. KBUF_SIZE - 1 /\ ktail \in 0 .. KBUF_SIZE - 1 /\ KBUF_SIZE \in Nat \ {0}
    BY DEF KInv, TypeOK, Slots
<1>2. typed \in Nat /\ last \in {STRAY} \cup 0 .. typed /\ last >= 0
    BY DEF KInv, TypeOK, Chars, Sound, Fresh
<1>3. last \in Nat /\ last <= typed
    BY <1>2 DEF STRAY
<1>4. Unread \in 0 .. KBUF_SIZE - 1
    BY <1>1 DEF Unread
<1>5. khead = ktail => Unread = 0
    BY <1>1 DEF Unread
<1>6. khead # ktail => Unread >= 1
    BY <1>1 DEF Unread
<1> QED
    BY <1>1, <1>2, <1>3, <1>4, <1>5, <1>6 DEF Lap

LEMMA InitKInv == Init => KInv
<1> SUFFICES ASSUME Init PROVE KInv
    OBVIOUS
<1> USE SizeAssumption, BoundAssumption
<1>1. TypeOK
  <2>1. kbuf \in [Slots -> 0 .. typed] /\ khead \in Slots /\ ktail \in Slots
    BY DEF Init, Slots
  <2>2. 0 \in Chars /\ echoed \in Chars \X Chars
    BY DEF Init, Chars
  <2>3. /\ pc \in Steps \cup {"user"} /\ overflowed \in BOOLEAN
        /\ spoiled \in BOOLEAN /\ ~spoiled
    BY DEF Init, Steps
  <2>4. /\ typed \in 0 .. MaxTyped /\ last \in Chars /\ c \in Chars /\ al \in Chars
    BY <2>2 DEF Init
  <2>5. edx \in -KBUF_SIZE .. KBUF_SIZE /\ eax \in Indices /\ ktail \in Indices
    BY DEF Init, Indices
  <2> QED BY <2>1, <2>2, <2>3, <2>4, <2>5 DEF TypeOK
<1>2. SlotsAged
    BY DEF Init, SlotsAged, Slots, Age
<1>3. Masked
    BY DEF Init, Masked
<1>4. Expected
    BY DEF Init, Expected
<1>5. Fresh /\ Exact
    BY DEF Init, Fresh, Exact, Unread, Taken, Bound, Holding
<1> QED
    BY <1>1, <1>2, <1>3, <1>4, <1>5 DEF KInv, Sound

-----------------------------------------------------------------------------
(* What an interrupt does to the reader, apart from the buffer.            *)
LEMMA ReturnFacts ==
    ASSUME KInv, InterruptReturn
    PROVE  /\ pc' \in Steps \cup {"user"} /\ (pc' = "user" => pc = "user")
           /\ eax' \in Indices /\ al' \in {STRAY, al} /\ edx' = edx /\ c' = c
           /\ spoiled' \in BOOLEAN /\ (spoiled => spoiled') /\ (spoiled' => pc' # "user")
           /\ Masked'
           /\ ~spoiled' => eax' = eax
           /\ pc' = pc \/ (pc = "hlt" /\ pc' = "head")
<1>1. pc \in Steps \cup {"user"} /\ eax \in Indices /\ spoiled \in BOOLEAN
    BY DEF KInv, TypeOK
<1>2. eax' \in Indices /\ (eax \in Slots => eax' \in Slots)
    BY <1>1, LowByte, EoiAssumption DEF InterruptReturn, Slots
<1>3. pc' = pc \/ (pc = "hlt" /\ pc' = "head")
    BY DEF InterruptReturn
<1>4. pc' \in Steps \cup {"user"} /\ (pc' = "user" => pc = "user")
    BY <1>1, <1>3 DEF Steps
<1>5. /\ spoiled' \in BOOLEAN /\ (spoiled => spoiled') /\ (~spoiled' => eax' = eax)
      /\ edx' = edx /\ c' = c /\ al' \in {STRAY, al}
    BY <1>1 DEF InterruptReturn
<1>6. pc = "user" => eax' = eax /\ ~spoiled
    BY DEF KInv, TypeOK, InterruptReturn, Indexing
<1>7. spoiled' => pc' # "user"
    BY <1>3, <1>4, <1>6 DEF InterruptReturn
<1>8. Masked'
    BY <1>2, <1>3, <1>5 DEF KInv, Masked
<1> QED
    BY <1>2, <1>3, <1>4, <1>5, <1>7, <1>8

(* A store moves khead over the oldest slot and every other slot ages.     *)
LEMMA KeepStoreKey ==
    ASSUME KInv, NEW sc \in Codes, StoreKey(sc)
    PROVE  KInv'
<1> USE SizeAssumption, BoundAssumption
<1>1. /\ typed \in Nat /\ typed' = typed + 1 /\ typed' <= MaxTyped
      /\ kbuf' = [kbuf EXCEPT ![khead] = typed + 1]
      /\ khead' = (IF khead = KBUF_SIZE - 1 THEN 0 ELSE khead + 1)
      /\ khead \in Slots /\ khead' \in Slots /\ ktail' = ktail
      /\ UNCHANGED <<last, echoed>>
      /\ overflowed' = (overflowed \/ khead' = ktail)
      /\ InterruptReturn
  <2>1. khead \in Slots /\ typed \in Nat
    BY DEF KInv, TypeOK
  <2>2. khead' = succ(khead) /\ scancode_to_char(sc) = typed + 1 /\ typed < MaxTyped
    BY DEF StoreKey, scancode_to_char
  <2> QED BY <2>1, <2>2, SuccValue DEF StoreKey
<1>2. /\ pc' \in Steps \cup {"user"} /\ eax' \in Indices /\ al' \in {STRAY, al}
      /\ edx' = edx /\ c' = c /\ Masked'
      /\ spoiled' \in BOOLEAN /\ (spoiled => spoiled') /\ (spoiled' => pc' # "user")
      /\ ~spoiled' => eax' = eax
      /\ pc' = pc \/ (pc = "hlt" /\ pc' = "head")
    BY <1>1, ReturnFacts
<1>3. TypeOK'
  <2>1. kbuf' \in [Slots -> 0 .. typed']
    BY <1>1 DEF KInv, TypeOK
  <2>2. typed' \in 0 .. MaxTyped
    BY <1>1
  <2>3. \A x \in Chars : x \in Chars'
    BY <1>1 DEF Chars
  <2>4. last' \in Chars' /\ c' \in Chars' /\ STRAY \in Chars'
    BY <1>1, <1>2, <2>3 DEF KInv, TypeOK, Chars
  <2>5. al' \in Chars'
    BY <1>2, <2>3, <2>4 DEF KInv, TypeOK
  <2>6. echoed' \in Chars' \X Chars'
    BY <1>1, <2>3 DEF KInv, TypeOK
  <2>7. overflowed' \in BOOLEAN
    BY <1>1
  <2>8. ktail' \in Indices /\ (ktail' \notin Slots => spoiled') /\ edx' \in -KBUF_SIZE .. KBUF_SIZE
    BY <1>1, <1>2 DEF KInv, TypeOK
  <2> QED BY <1>1, <1>2, <2>1, <2>2, <2>4, <2>5, <2>6, <2>7, <2>8 DEF TypeOK
<1>4. SlotsAged'
  <2> SUFFICES ASSUME NEW j \in Slots
               PROVE  kbuf'[j] = IF typed' > Age(j)' THEN typed' - Age(j)' ELSE 0
    BY DEF SlotsAged
  <2>1. CASE j = khead
    <3>1. Age(j)' = 0
        BY <1>1, <2>1 DEF Age, Slots
    <3> QED BY <1>1, <2>1, <3>1 DEF KInv, TypeOK
  <2>2. CASE j # khead
    <3>1. Age(j)' = Age(j) + 1 /\ Age(j) \in Nat
        BY <1>1, <2>2 DEF Age, Slots
    <3>2. kbuf'[j] = kbuf[j]
        BY <1>1, <2>2 DEF KInv, TypeOK
    <3> QED BY <1>1, <3>1, <3>2 DEF KInv, SlotsAged
  <2> QED BY <2>1, <2>2
<1>5. ASSUME ~spoiled' PROVE Sound'
  <2>0. ~spoiled /\ Sound /\ eax' = eax
    BY <1>2, <1>5 DEF KInv
  <2>1. Expected'
    BY <1>1, <1>2, <2>0 DEF Sound, Expected, succ
  <2>2. /\ khead \in 0 .. KBUF_SIZE - 1 /\ ktail \in 0 .. KBUF_SIZE - 1
        /\ KBUF_SIZE \in Nat \ {0} /\ last \in Nat /\ last <= typed
        /\ Unread \in 0 .. KBUF_SIZE - 1 /\ Lap \in 1 .. KBUF_SIZE
        /\ khead # ktail => Lap = Unread
    BY <2>0, Ranges
  <2>3. Unread' = (IF khead' = ktail THEN 0 ELSE Unread + 1)
    BY <1>1, <2>2 DEF Unread
  <2>4. Lap' = (IF khead = ktail THEN 1 ELSE Lap + 1)
    BY <1>1, <2>2 DEF Unread, Lap
  <2>5. /\ Bound' <=> Bound
        /\ Holding' <=> Holding
        /\ Taken' = Taken
    BY <1>1, <1>2 DEF Bound, Holding, Taken
  <2>6. Fresh'
    <3>1. /\ last >= 0
          /\ Bound => last + Lap <= typed
          /\ Holding => last >= 1 /\ last + Lap - 1 <= typed
          /\ ~Holding => last + Unread <= typed
        BY <2>0 DEF Sound, Fresh
    <3>2. last' = last /\ typed' = typed + 1 /\ last \in Int /\ typed \in Int
        BY <1>1, <2>2
    <3>3. Lap \in Int /\ Lap >= 1 /\ Unread \in Int /\ Unread >= 0
        BY <2>2
    <3>4. Bound' => last' + Lap' <= typed'
        BY <2>4, <2>5, <3>1, <3>2, <3>3
    <3>5. Holding' => last' >= 1 /\ last' + Lap' - 1 <= typed'
        BY <2>4, <2>5, <3>1, <3>2, <3>3
    <3>6. ~Holding' => last' + Unread' <= typed'
        BY <2>2, <2>3, <2>5, <3>1, <3>2, <3>3
    <3> QED BY <3>1, <3>2, <3>4, <3>5, <3>6 DEF Fresh
  <2>7. Exact'
    <3> SUFFICES ASSUME ~overflowed, khead' # ktail
                 PROVE  Taken' + Unread' = typed'
        BY <1>1 DEF Exact
    <3>1. Taken + Unread = typed
        BY <2>0 DEF Sound, Exact
    <3>2. Taken \in Int
        BY <2>2 DEF Taken
    <3> QED BY <1>1, <2>2, <2>3, <2>5, <3>1, <3>2
  <2> QED BY <2>1, <2>6, <2>7 DEF Sound
<1> QED
    BY <1>2, <1>3, <1>4, <1>5 DEF KInv

(* The slot at ktail holds the oldest character of the lap.                *)
LEMMA Oldest ==
    ASSUME KInv, ~spoiled
    PROVE  /\ kbuf[ktail] \in 0 .. typed
           /\ Bound => kbuf[ktail] = typed - Lap + 1 /\ kbuf[ktail] > last
           /\ khead # ktail /\ ~Holding =>
                  kbuf[ktail] = typed - Unread + 1 /\ kbuf[ktail] > last
<1> USE SizeAssumption
<1>1. /\ khead \in 0 .. KBUF_SIZE - 1 /\ ktail \in 0 .. KBUF_SIZE - 1
      /\ typed \in Nat /\ last \in Nat /\ Lap \in 1 .. KBUF_SIZE
      /\ khead # ktail => Lap = Unread
    BY Ranges
<1>5. Age(ktail) = Lap - 1
    BY <1>1, SizeAssumption DEF Age, Lap, Unread
<1>2. kbuf[ktail] = (IF typed > Lap - 1 THEN typed - (Lap - 1) ELSE 0) /\ kbuf[ktail] \in 0 .. typed
    BY <1>1, <1>5 DEF KInv, SlotsAged, Slots, TypeOK
<1>3. Bound => last + Lap <= typed
    BY DEF KInv, Sound, Fresh
<1>4. ~Holding => last + Unread <= typed
    BY DEF KInv, Sound, Fresh
<1> QED
    BY <1>1, <1>2, <1>3, <1>4

(* The steps that leave the buffer and the ghosts of its reader alone: it  *)
(* remains to show that the registers are as expected and that the reader  *)
(* is bound to take a character only when there was one.                   *)
LEMMA KeepOther ==
    ASSUME KInv, UNCHANGED buffer, Masked',
           pc' \in Steps \cup {"user"}, edx' \in -KBUF_SIZE .. KBUF_SIZE, eax' \in Indices,
           c' \in Chars, al' \in Chars, echoed' \in Chars \X Chars,
           spoiled' \in BOOLEAN, spoiled => spoiled', spoiled' => pc' # "user",
           ~spoiled' => /\ Expected'
                        /\ Holding' <=> Holding
                        /\ Bound' => Bound \/ khead # ktail
    PROVE  KInv' /\ last' = last
<1> USE SizeAssumption
<1>1. UNCHANGED <<kbuf, khead, ktail, typed, last, overflowed>>
    BY DEF buffer
<1>2. TypeOK'
  <2>1. Chars' = Chars
    BY <1>1 DEF Chars
  <2>2. ktail' \in Indices /\ (ktail' \notin Slots => spoiled')
    BY <1>1 DEF KInv, TypeOK
  <2> QED BY <1>1, <2>1, <2>2 DEF KInv, TypeOK
<1>3. SlotsAged'
    BY <1>1 DEF KInv, SlotsAged, Age
<1>4. ASSUME ~spoiled' PROVE Sound'
  <2>1. ~spoiled /\ Sound /\ (Holding' <=> Holding) /\ (Bound' => Bound \/ khead # ktail)
    BY <1>4 DEF KInv
  <2>2. Unread' = Unread /\ Lap' = Lap
    BY <1>1 DEF Unread, Lap
  <2>3. Taken' = Taken
    BY <1>1, <2>1 DEF Taken, Holding
  <2>4. /\ last \in Nat /\ typed \in Nat /\ Lap \in 1 .. KBUF_SIZE
        /\ khead # ktail => Lap = Unread
    BY <2>1, Ranges
  <2>5. Fresh'
    <3>1. /\ last >= 0
          /\ Bound => last + Lap <= typed
          /\ Holding => last >= 1 /\ last + Lap - 1 <= typed
          /\ ~Holding => last + Unread <= typed
        BY <2>1 DEF Sound, Fresh
    <3>2. ~(Bound' /\ Holding')
        BY DEF Bound, Holding
    <3>3. Bound' => last + Lap <= typed
        BY <2>1, <2>4, <3>1, <3>2
    <3> QED BY <1>1, <2>1, <2>2, <3>1, <3>3 DEF Fresh
  <2>6. Exact'
    BY <1>1, <2>1, <2>2, <2>3 DEF Sound, Exact
  <2> QED BY <1>4, <2>5, <2>6 DEF Sound
<1> QED
    BY <1>1, <1>2, <1>3, <1>4 DEF KInv

(* An interrupt that stores nothing.                                       *)
LEMMA KeepReturn ==
    ASSUME KInv, InterruptReturn, UNCHANGED <<buffer, echoed>>
    PROVE  KInv' /\ last' = last
<1>1. /\ pc' \in Steps \cup {"user"} /\ eax' \in Indices /\ al' \in {STRAY, al}
      /\ edx' = edx /\ c' = c /\ Masked'
      /\ spoiled' \in BOOLEAN /\ (spoiled => spoiled') /\ (spoiled' => pc' # "user")
      /\ ~spoiled' => eax' = eax
      /\ pc' = pc \/ (pc = "hlt" /\ pc' = "head")
    BY ReturnFacts
<1>2. edx' \in -KBUF_SIZE .. KBUF_SIZE /\ c' \in Chars /\ al' \in Chars /\ echoed' \in Chars \X Chars
    BY <1>1 DEF KInv, TypeOK, Chars
<1>3. UNCHANGED <<kbuf, khead, ktail, typed, last, overflowed>>
    BY DEF buffer
<1>4. ASSUME ~spoiled' PROVE Expected' /\ (Holding' <=> Holding) /\ (Bound' => Bound)
  <2>1. Expected /\ eax' = eax
    BY <1>1, <1>4 DEF KInv, Sound
  <2> QED
    BY <1>1, <1>3, <2>1 DEF Expected, succ, Holding, Bound
<1> QED
    BY <1>1, <1>2, <1>4, KeepOther

LEMMA KeepGetHead ==
    ASSUME KInv, GetHead
    PROVE  KInv' /\ last' = last
<1> USE SizeAssumption
<1>1. /\ pc = "head" /\ pc' = "tail" /\ edx' = khead
      /\ UNCHANGED <<buffer, spoiled, eax, c, al, echoed>> /\ khead' = khead /\ ktail' = ktail
    BY DEF GetHead, buffer
<1>2. khead \in Slots /\ TypeOK
    BY DEF KInv, TypeOK
<1>3. edx' \in -KBUF_SIZE .. KBUF_SIZE
    BY <1>1, <1>2 DEF Slots
<1>4. pc' \in Steps \cup {"user"} /\ pc' # "user"
    BY <1>1 DEF Steps
<1>5. Masked' /\ Expected' /\ (Holding' <=> Holding) /\ (Bound' => khead # ktail)
    BY <1>1, <1>2 DEF Masked, Expected, Holding, Bound
<1> QED
    BY <1>1, <1>2, <1>3, <1>4, <1>5, KeepOther DEF TypeOK

LEMMA KeepGetTail ==
    ASSUME KInv, GetTail
    PROVE  KInv' /\ last' = last
<1> USE SizeAssumption
<1>1. /\ pc = "tail" /\ pc' = "cmp" /\ eax' = ktail
      /\ UNCHANGED <<buffer, spoiled, edx, c, al, echoed>> /\ khead' = khead /\ ktail' = ktail
    BY DEF GetTail, buffer
<1>2. TypeOK /\ ktail \in Indices
    BY DEF KInv, TypeOK
<1>4. pc' \in Steps \cup {"user"} /\ pc' # "user"
    BY <1>1 DEF Steps, Indexing
<1>5. Masked' /\ (Holding' <=> Holding) /\ (Bound' => Bound)
    BY <1>1, <1>2 DEF Masked, Holding, Bound
<1>6. ASSUME ~spoiled' PROVE Expected'
    BY <1>1, <1>6 DEF KInv, Sound, Expected
<1> QED
    BY <1>1, <1>2, <1>4, <1>5, <1>6, KeepOther DEF TypeOK

LEMMA KeepGetEmpty ==
    ASSUME KInv, GetEmpty
    PROVE  KInv' /\ last' = last
<1> USE SizeAssumption, BoundAssumption
<1>1. /\ pc = "cmp" /\ pc' = "ret" /\ c' = 0 /\ al' = 0
      /\ UNCHANGED <<buffer, spoiled, edx, eax, echoed>>
    BY DEF GetEmpty
<1>2. TypeOK /\ 0 \in Chars
    BY DEF KInv, TypeOK, Chars
<1>4. pc' \in Steps \cup {"user"} /\ pc' # "user"
    BY <1>1 DEF Steps, Carrying
<1>5. Masked' /\ Expected' /\ (Holding' <=> Holding) /\ ~Bound'
    BY <1>1, <1>2 DEF Masked, Expected, Holding, Bound
<1> QED
    BY <1>1, <1>2, <1>4, <1>5, KeepOther DEF TypeOK

LEMMA KeepGetCheck ==
    ASSUME KInv, GetCheck
    PROVE  KInv' /\ last' = last
<1> USE SizeAssumption
<1>1. /\ pc = "cmp" /\ pc' = "index" /\ eax' = ktail /\ edx # eax
      /\ UNCHANGED <<buffer, spoiled, edx, c, al, echoed>> /\ khead' = khead /\ ktail' = ktail
    BY DEF GetCheck, buffer, empty
<1>2. TypeOK /\ ktail \in Indices
    BY DEF KInv, TypeOK
<1>4. pc' \in Steps \cup {"user"} /\ pc' # "user"
    BY <1>1 DEF Steps, Indexing
<1>5. Masked' /\ Expected' /\ (Holding' <=> Holding)
    BY <1>1, <1>2 DEF Masked, Expected, Holding
<1>6. ASSUME ~spoiled' PROVE Bound' => Bound
    BY <1>1, <1>6 DEF KInv, Sound, Expected, Bound
<1> QED
    BY <1>1, <1>2, <1>4, <1>5, <1>6, KeepOther DEF TypeOK

LEMMA KeepGetLoad ==
    ASSUME KInv, GetLoad
    PROVE  KInv' /\ (~spoiled => last' > last /\ last' <= typed)
<1> USE SizeAssumption
<1>1. /\ pc = "index" /\ pc' = "char" /\ al' \in kbuf_at(eax) /\ last' = al'
      /\ UNCHANGED <<kbuf, khead, ktail, typed, overflowed, spoiled, edx, eax, c, echoed>>
    BY DEF GetLoad
<1>2. TypeOK /\ typed \in Nat
    BY DEF KInv, TypeOK
<1>3. al' \in Chars
    BY <1>1, <1>2 DEF TypeOK, kbuf_at, Chars
<1>4. TypeOK'
  <2>1. Chars' = Chars
    BY <1>1 DEF Chars
  <2>2. pc' \in Steps \cup {"user"} /\ pc' # "user"
    BY <1>1 DEF Steps, Carrying
  <2> QED BY <1>1, <1>2, <1>3, <2>1, <2>2 DEF TypeOK
<1>5. SlotsAged'
    BY <1>1 DEF KInv, SlotsAged, Age
<1>6. Masked'
    BY <1>1 DEF Masked
<1>7. ASSUME ~spoiled PROVE Sound' /\ last' > last /\ last' <= typed
  <2>1. Sound /\ Bound /\ eax = ktail /\ ktail \in Slots
    BY <1>1, <1>2, <1>7 DEF KInv, Sound, Expected, Bound, TypeOK
  <2>2. last' = kbuf[ktail]
    BY <1>1, <2>1 DEF kbuf_at
  <2>3. kbuf[ktail] = typed - Lap + 1 /\ kbuf[ktail] > last /\ kbuf[ktail] \in 0 .. typed
    BY <1>7, <2>1, Oldest
  <2>4. /\ last \in Nat /\ Lap \in 1 .. KBUF_SIZE /\ (khead # ktail => Lap = Unread)
    BY <1>7, Ranges
  <2>5. Unread' = Unread /\ Lap' = Lap
    BY <1>1 DEF Unread, Lap
  <2>6. Expected'
    BY <1>1 DEF Expected
  <2>7. ~Bound' /\ Holding' /\ Taken' = last' - 1
    BY <1>1 DEF Bound, Holding, Taken
  <2>8. Fresh'
    <3>1. last' >= 1 /\ last' + Lap - 1 <= typed
        BY <1>2, <2>2, <2>3, <2>4
    <3>2. last' >= 0
        BY <2>2, <2>3
    <3> QED BY <1>1, <2>5, <2>7, <3>1, <3>2 DEF Fresh
  <2>9. Exact'
    <3> SUFFICES ASSUME ~overflowed
                 PROVE  Taken' + Unread = typed /\ khead # ktail
        BY <1>1, <2>5 DEF Exact
    <3>1. khead # ktail
        BY <2>1 DEF Sound, Exact
    <3> QED BY <1>2, <2>2, <2>3, <2>4, <2>7, <3>1
  <2> QED BY <1>2, <2>2, <2>3, <2>6, <2>8, <2>9 DEF Sound
<1> QED
    BY <1>1, <1>4, <1>5, <1>6, <1>7 DEF KInv

LEMMA KeepGetChar ==
    ASSUME KInv, GetChar
    PROVE  KInv' /\ last' = last
<1> USE SizeAssumption
<1>1. /\ pc = "char" /\ pc' = "sum" /\ c' = al /\ eax' = ktail
      /\ UNCHANGED <<buffer, spoiled, edx, al, echoed>> /\ khead' = khead /\ ktail' = ktail
    BY DEF GetChar, buffer
<1>2. TypeOK /\ ktail \in Indices
    BY DEF KInv, TypeOK
<1>4. pc' \in Steps \cup {"user"} /\ pc' # "user"
    BY <1>1 DEF Steps, Indexing
<1>5. Masked' /\ Expected' /\ (Holding' <=> Holding) /\ ~Bound'
    BY <1>1, <1>2 DEF Masked, Expected, Holding, Bound
<1> QED
    BY <1>1, <1>2, <1>4, <1>5, KeepOther DEF TypeOK

LEMMA KeepGetSum ==
    ASSUME KInv, GetSum
    PROVE  KInv' /\ last' = last
<1> USE SizeAssumption
<1>1. /\ pc = "sum" /\ pc' = "fix" /\ edx' = eax + 1
      /\ eax' = (IF edx' < 0 THEN KBUF_SIZE - 1 ELSE 0)
      /\ UNCHANGED <<buffer, spoiled, c, al, echoed>> /\ khead' = khead /\ ktail' = ktail
    BY DEF GetSum, buffer
<1>2. TypeOK /\ eax \in Int /\ eax >= -KBUF_SIZE /\ eax < KBUF_SIZE
    BY DEF KInv, TypeOK, Indices
<1>3. edx' \in -KBUF_SIZE .. KBUF_SIZE /\ eax' \in Slots /\ eax' \in Indices
    BY <1>1, <1>2 DEF Slots, Indices
<1>4. pc' \in Steps \cup {"user"} /\ pc' # "user"
    BY <1>1 DEF Steps, Indexing
<1>5. Masked' /\ (Holding' <=> Holding) /\ ~Bound'
    BY <1>1, <1>3 DEF Masked, Holding, Bound
<1>6. ASSUME ~spoiled' PROVE Expected'
  <2>1. eax = ktail /\ ktail \in Int /\ ktail >= 0
    BY <1>1, <1>2, <1>6 DEF KInv, Sound, Expected, TypeOK, Slots
  <2>2. edx' = ktail + 1 /\ eax' = 0
    BY <1>1, <2>1
  <2> QED BY <1>1, <2>2 DEF Expected
<1> QED
    BY <1>1, <1>2, <1>3, <1>4, <1>5, <1>6, KeepOther DEF TypeOK

LEMMA KeepGetFix ==
    ASSUME KInv, GetFix
    PROVE  KInv' /\ last' = last
<1> USE SizeAssumption
<1>1. /\ pc = "fix" /\ pc' = "back" /\ edx' = (edx + eax) % KBUF_SIZE
      /\ UNCHANGED <<buffer, spoiled, eax, c, al, echoed>> /\ khead' = khead /\ ktail' = ktail
    BY DEF GetFix, buffer
<1>2. TypeOK /\ eax \in Int /\ edx \in Int /\ eax \in Slots
    BY <1>1 DEF KInv, TypeOK, Indices, Masked
<1>3. edx' \in Slots /\ edx' \in -KBUF_SIZE .. KBUF_SIZE
  <2>1. edx + eax \in Int /\ KBUF_SIZE \in Nat /\ KBUF_SIZE > 0
    BY <1>2
  <2>2. (edx + eax) % KBUF_SIZE \in 0 .. KBUF_SIZE - 1
    BY <2>1
  <2> QED BY <1>1, <2>1, <2>2 DEF Slots
<1>4. pc' \in Steps \cup {"user"} /\ pc' # "user"
    BY <1>1 DEF Steps, Indexing
<1>5. Masked' /\ (Holding' <=> Holding) /\ ~Bound'
    BY <1>1, <1>2, <1>3 DEF Masked, Holding, Bound
<1>6. ASSUME ~spoiled' PROVE Expected'
  <2>1. eax = 0 /\ edx = ktail + 1 /\ ktail \in Int
    BY <1>1, <1>2, <1>6 DEF KInv, Sound, Expected, TypeOK, Indices
  <2>2. edx' = succ(ktail)
    BY <1>1, <2>1 DEF succ
  <2> QED BY <1>1, <2>1, <2>2 DEF Expected, succ
<1> QED
    BY <1>1, <1>2, <1>3, <1>4, <1>5, <1>6, KeepOther DEF TypeOK

LEMMA KeepGetBack ==
    ASSUME KInv, GetBack
    PROVE  KInv' /\ last' = last
<1> USE SizeAssumption
<1>1. /\ pc = "back" /\ pc' = "put" /\ eax' = edx - eax
      /\ UNCHANGED <<buffer, spoiled, edx, c, al, echoed>> /\ khead' = khead /\ ktail' = ktail
    BY DEF GetBack, buffer
<1>2. TypeOK /\ eax \in 0 .. KBUF_SIZE - 1 /\ edx \in 0 .. KBUF_SIZE - 1
    BY <1>1 DEF KInv, TypeOK, Masked, Slots
<1>3. eax' \in Indices
    BY <1>1, <1>2 DEF Indices
<1>4. pc' \in Steps \cup {"user"} /\ pc' # "user"
    BY <1>1 DEF Steps, Indexing
<1>5. Masked' /\ (Holding' <=> Holding) /\ ~Bound'
    BY <1>1 DEF Masked, Holding, Bound
<1>6. ASSUME ~spoiled' PROVE Expected'
  <2>1. eax = 0 /\ edx = succ(ktail)
    BY <1>1, <1>6 DEF KInv, Sound, Expected
  <2>2. eax' = succ(ktail)
    BY <1>1, <1>2, <2>1
  <2> QED BY <1>1, <2>2 DEF Expected, succ
<1> QED
    BY <1>1, <1>2, <1>3, <1>4, <1>5, <1>6, KeepOther DEF TypeOK

LEMMA KeepGetPut ==
    ASSUME KInv, GetPut
    PROVE  KInv' /\ last' = last
<1> USE SizeAssumption
<1>1. /\ pc = "put" /\ pc' = "ret" /\ al' = c /\ ktail' = eax
      /\ UNCHANGED <<kbuf, khead, typed, last, overflowed, spoiled, edx, eax, c, echoed>>
    BY DEF GetPut
<1>2. TypeOK
    BY DEF KInv
<1>3. ASSUME ~spoiled
      PROVE  /\ Sound /\ Holding /\ ktail' \in Slots
             /\ ktail' = (IF ktail = KBUF_SIZE - 1 THEN 0 ELSE ktail + 1)
  <2>1. Sound /\ eax = succ(ktail) /\ ktail \in Slots /\ Holding
    BY <1>1, <1>2, <1>3 DEF KInv, Sound, Expected, TypeOK, Holding
  <2> QED BY <1>1, <2>1, SuccValue
<1>4. TypeOK'
  <2>1. Chars' = Chars
    BY <1>1 DEF Chars
  <2>2. pc' \in Steps \cup {"user"} /\ pc' # "user"
    BY <1>1 DEF Steps, Carrying
  <2>3. ktail' \in Indices /\ (ktail' \notin Slots => spoiled)
    BY <1>1, <1>2, <1>3 DEF TypeOK
  <2> QED BY <1>1, <1>2, <2>1, <2>2, <2>3 DEF TypeOK
<1>5. SlotsAged'
    BY <1>1 DEF KInv, SlotsAged, Age
<1>6. Masked'
    BY <1>1 DEF Masked
<1>7. ASSUME ~spoiled PROVE Sound'
  <2>1. /\ khead \in 0 .. KBUF_SIZE - 1 /\ ktail \in 0 .. KBUF_SIZE - 1
        /\ KBUF_SIZE \in Nat \ {0} /\ last \in Nat /\ typed \in Nat
        /\ Lap \in 1 .. KBUF_SIZE /\ (khead # ktail => Lap = Unread)
    BY <1>7, Ranges
  <2>2. Unread' = Lap - 1
    BY <1>1, <1>3, <1>7, <2>1 DEF Lap, Unread
  <2>3. ~Bound' /\ ~Holding' /\ Taken' = last /\ Taken = last - 1
    BY <1>1 DEF Bound, Holding, Taken
  <2>4. Fresh'
    <3>1. last + Lap - 1 <= typed
        BY <1>3, <1>7 DEF Sound, Fresh
    <3>2. last + Unread' <= typed
        BY <2>1, <2>2, <3>1
    <3> QED BY <1>1, <2>1, <2>3, <3>2 DEF Fresh
  <2>5. Exact'
    <3> SUFFICES ASSUME ~overflowed
                 PROVE  last + Unread' = typed
        BY <1>1, <2>3 DEF Exact
    <3>1. khead # ktail /\ last - 1 + Unread = typed
        BY <1>3, <1>7, <2>3 DEF Sound, Exact
    <3> QED BY <2>1, <2>2, <3>1
  <2>6. Expected'
    BY <1>1 DEF Expected
  <2> QED BY <2>4, <2>5, <2>6 DEF Sound
<1> QED
    BY <1>1, <1>4, <1>5, <1>6, <1>7 DEF KInv

LEMMA KeepIdle ==
    ASSUME KInv, Idle
    PROVE  KInv' /\ last' = last
<1>1. /\ pc = "ret" /\ pc' = "hlt" /\ echoed' = (IF al # 0 THEN <<c, al>> ELSE echoed)
      /\ UNCHANGED <<buffer, spoiled, edx, eax, c, al>>
    BY DEF Idle, regs
<1>2. TypeOK
    BY DEF KInv
<1>3. echoed' \in Chars \X Chars
    BY <1>1, <1>2 DEF TypeOK
<1>4. pc' \in Steps \cup {"user"} /\ pc' # "user"
    BY <1>1 DEF Steps
<1>5. Masked' /\ Expected' /\ (Holding' <=> Holding) /\ ~Bound'
    BY <1>1 DEF Masked, Expected, Holding, Bound
<1> QED
    BY <1>1, <1>2, <1>3, <1>4, <1>5, KeepOther DEF TypeOK

LEMMA KeepSyscallGet ==
    ASSUME KInv, SyscallGet
    PROVE  KInv' /\ last' > last /\ last' <= typed
<1> USE SizeAssumption
<1>0. TypeOK /\ ~spoiled /\ ktail \in Slots
    BY DEF KInv, TypeOK, SyscallGet
<1>1. /\ pc = "user" /\ pc' = "user" /\ c' = kbuf[ktail] /\ last' = kbuf[ktail]
      /\ khead # ktail
      /\ UNCHANGED <<kbuf, khead, typed, overflowed, spoiled, edx, eax, al, echoed>>
      /\ ktail' = (IF ktail = KBUF_SIZE - 1 THEN 0 ELSE ktail + 1) /\ ktail' \in Slots
    BY <1>0, SuccValue DEF SyscallGet, empty
<1>2. ~Holding /\ ~Holding' /\ ~Bound' /\ Taken' = last'
    BY <1>1 DEF Holding, Bound, Taken
<1>3. /\ kbuf[ktail] = typed - Unread + 1 /\ kbuf[ktail] > last /\ kbuf[ktail] \in 0 .. typed
    BY <1>0, <1>1, <1>2, Oldest
<1>4. /\ khead \in 0 .. KBUF_SIZE - 1 /\ ktail \in 0 .. KBUF_SIZE - 1
      /\ KBUF_SIZE \in Nat \ {0} /\ last \in Nat /\ typed \in Nat
    BY <1>0, Ranges
<1>5. TypeOK'
  <2>1. Chars' = Chars /\ kbuf[ktail] \in Chars
    BY <1>1, <1>3 DEF Chars
  <2>2. ktail' \in Indices
    BY <1>1, <1>4 DEF Indices, Slots
  <2> QED BY <1>0, <1>1, <2>1, <2>2 DEF TypeOK
<1>6. SlotsAged'
    BY <1>1 DEF KInv, SlotsAged, Age
<1>7. Masked' /\ Expected'
    BY <1>1 DEF Masked, Expected
<1>8. Unread' = Unread - 1 /\ Unread \in 1 .. KBUF_SIZE
    BY <1>1, <1>4 DEF Unread
<1>9. last' + Unread' = typed /\ last' >= 0 /\ last' <= typed
    BY <1>1, <1>3, <1>4, <1>8
<1>10. Fresh' /\ Exact'
    BY <1>1, <1>2, <1>4, <1>8, <1>9 DEF Fresh, Exact
<1> QED
    BY <1>0, <1>1, <1>3, <1>5, <1>6, <1>7, <1>9, <1>10 DEF KInv, Sound

LEMMA NextKInv ==
    ASSUME KInv, [Next]_vars
    PROVE  KInv' /\ (~spoiled /\ last' # last => last' > last /\ last' <= typed)
<1>1. ASSUME NEW sc \in Codes, StoreKey(sc) PROVE KInv' /\ last' = last
    BY <1>1, KeepStoreKey DEF StoreKey
<1>2. ASSUME InterruptReturn, UNCHANGED <<buffer, echoed>> PROVE KInv' /\ last' = last
    BY <1>2, KeepReturn
<1>3. CASE GetHead \/ GetTail \/ GetEmpty \/ GetCheck
    BY <1>3, KeepGetHead, KeepGetTail, KeepGetEmpty, KeepGetCheck
<1>4. CASE GetLoad
    BY <1>4, KeepGetLoad
<1>5. CASE GetChar \/ GetSum \/ GetFix \/ GetBack
    BY <1>5, KeepGetChar, KeepGetSum, KeepGetFix, KeepGetBack
<1>6. CASE GetPut \/ Idle
    BY <1>6, KeepGetPut, KeepIdle
<1>8. CASE SyscallGet
    BY <1>8, KeepSyscallGet
<1>9. CASE UNCHANGED vars
  <2>1. UNCHANGED <<buffer, spoiled, pc, edx, eax, c, al, echoed, khead, ktail>>
    BY <1>9 DEF vars, buffer
  <2>2. TypeOK /\ Masked /\ (~spoiled => Expected)
    BY DEF KInv, Sound
  <2>3. Masked' /\ (Holding' <=> Holding) /\ (Bound' => Bound) /\ (~spoiled' => Expected')
    BY <2>1, <2>2 DEF Masked, Holding, Bound, Expected, succ
  <2> QED
    BY <2>1, <2>2, <2>3, KeepOther DEF TypeOK
<1> QED
    BY <1>1, <1>2, <1>3, <1>4, <1>5, <1>6, <1>8, <1>9
    DEF Next, IdleLoop, IgnoreCode, OtherInterrupt

(* What the types say of the registers: wherever an interrupt replaces the *)
(* low byte of an index, ktail stays within one lap of the buffer, khead   *)
(* stays in it, and a user program's reads are never hit.                  *)
THEOREM KeyboardTypeCorrect == Spec => []TypeOK
<1>1. KInv => TypeOK
    BY DEF KInv
<1> QED
    BY <1>1, InitKInv, NextKInv, PTL DEF Spec

(* Until it is overrun the ring buffer is a queue, interrupts between the  *)
(* reader's instructions included, as long as none of them replaces an     *)
(* index in EAX.                                                           *)
THEOREM KeyboardLossless == Spec => []Lossless
<1>1. KInv => Lossless
  <2> SUFFICES ASSUME KInv, ~overflowed, ~spoiled
               PROVE  /\ Taken + Unread = typed
                      /\ \A k \in 1 .. Unread :
                             kbuf[(ktail + k - 1) % KBUF_SIZE] = Taken + k
    BY DEF Lossless
  <2>1. /\ khead \in 0 .. KBUF_SIZE - 1 /\ ktail \in 0 .. KBUF_SIZE - 1 /\ KBUF_SIZE \in Nat \ {0}
        /\ typed \in Nat /\ last \in Nat /\ Taken + Unread = typed
    BY Ranges DEF KInv, Sound, Exact
  <2>3. Taken \in Nat
    BY <2>1 DEF KInv, Sound, Fresh, Taken, Holding
  <2>2. ASSUME NEW k \in 1 .. Unread
        PROVE  kbuf[(ktail + k - 1) % KBUF_SIZE] = Taken + k
    <3> DEFINE j == (ktail + k - 1) % KBUF_SIZE
    <3>0. ktail + k - 1 \in 0 .. 2 * KBUF_SIZE - 1
        BY <2>1 DEF Unread
    <3>1. j = IF ktail + k - 1 < KBUF_SIZE THEN ktail + k - 1 ELSE ktail + k - 1 - KBUF_SIZE
        BY <2>1, <3>0
    <3> HIDE DEF j
    <3>2. j \in Slots /\ Age(j) = Unread - k
        BY <2>1, <3>1 DEF Age, Unread, Slots
    <3>3. kbuf[j] = IF typed > Age(j) THEN typed - Age(j) ELSE 0
        BY <3>2 DEF KInv, SlotsAged
    <3>4. Unread \in Nat
        BY <2>1 DEF Unread
    <3> QED BY <2>1, <2>3, <3>2, <3>3, <3>4 DEF j
  <2> QED BY <2>1, <2>2
<1> QED
    BY <1>1, InitKInv, NextKInv, PTL DEF Spec

(* Overrun or not, characters are read in the order typed, each at most    *)
(* once, until an interrupt replaces an index in EAX.                      *)
THEOREM KeyboardNoReplay == Spec => NoReplay
<1>1. KInv /\ [Next]_vars =>
        KInv' /\ [~spoiled /\ last' # last => last' > last /\ last' <= typed]_vars
    BY NextKInv
<1> QED
    BY <1>1, InitKInv, PTL DEF Spec, NoReplay

=============================================================================
