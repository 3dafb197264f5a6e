--------------------------- MODULE Output_proofs ---------------------------
(***************************************************************************)
(* Proofs about the port and the screen, for every size of the screen, all *)
(* texts, all numbers and every transmitter of two bytes or more.          *)
(***************************************************************************)
EXTENDS Output, NumberRecursion

-----------------------------------------------------------------------------
(* The texts that are printed.                                             *)

LEMMA DigitsDef ==
    /\ digits \in [Int -> Seq(Int)]
    /\ \A num \in Int : digits[num] = IF num < 10 THEN <<ZERO + remainder(num)>>
                                      ELSE Append(digits[num \div 10], ZERO + remainder(num))
<1> DEFINE start == [n \in Int |-> <<ZERO + remainder(n)>>]
           step == [p \in Int \X Seq(Int) |-> Append(p[2], ZERO + remainder(p[1]))]
           smaller == [n \in Int |-> n \div 10]
<1>1. \A n \in Int : remainder(n) \in Int /\ ZERO + remainder(n) \in Int
    BY DEF remainder, ZERO
<1>2. \A n \in Int : n < 10 => start[n] \in Seq(Int)
    BY <1>1
<1>3. \A n \in Int, v \in Seq(Int) : n >= 10 => step[<<n, v>>] \in Seq(Int)
    BY <1>1
<1>4. \A n \in Int : n >= 10 => smaller[n] \in Int /\ smaller[n] < n
    OBVIOUS
<1>5. \A n \in Int, v \in Seq(Int) : step[<<n, v>>] = Append(v, ZERO + remainder(n))
    OBVIOUS
<1>6. \A n \in Int : start[n] = <<ZERO + remainder(n)>> /\ smaller[n] = n \div 10
    OBVIOUS
<1> HIDE DEF start, step, smaller
<1>7. PICK f \in [Int -> Seq(Int)] : Solves(f, Int, start, step, smaller, 10)
    BY <1>2, <1>3, <1>4, Recursion
<1>8. ASSUME NEW n \in Int
      PROVE f[n] = IF n < 10 THEN <<ZERO + remainder(n)>>
                   ELSE Append(f[n \div 10], ZERO + remainder(n))
  <2>1. n \div 10 \in Int
    OBVIOUS
  <2> QED
    BY <1>5, <1>6, <1>7, <2>1 DEF Solves
<1>9. f = [n \in Int |-> IF n < 10 THEN <<ZERO + remainder(n)>>
                         ELSE Append(f[n \div 10], ZERO + remainder(n))]
    BY <1>8
<1> DEFINE P(g) == g = [n \in Int |-> IF n < 10 THEN <<ZERO + remainder(n)>>
                                      ELSE Append(g[n \div 10], ZERO + remainder(n))]
<1>10. digits = CHOOSE g : P(g)
    BY DEF digits
<1>11. P(digits)
  <2> HIDE DEF P
  <2>1. \E g : P(g)
    BY <1>9 DEF P
  <2> QED
    BY <1>10, <2>1
<1>12. \A n \in Int : digits[n] = IF n < 10 THEN <<ZERO + remainder(n)>>
                                  ELSE Append(digits[n \div 10], ZERO + remainder(n))
    BY <1>11
<1> DEFINE S == {n \in Int : digits[n] \in Seq(Int)}
<1>13. \A n \in Int : n < 10 => n \in S
  <2>1. ASSUME NEW n \in Int, n < 10 PROVE digits[n] \in Seq(Int)
    <3>1. digits[n] = <<ZERO + remainder(n)>> /\ ZERO + remainder(n) \in Int
      BY <1>1, <1>12, <2>1
    <3> QED
      BY <3>1
  <2> QED
    BY <2>1
<1>14. ASSUME NEW n \in Int, n >= 10, \A m \in Int : m < n => m \in S PROVE n \in S
  <2>1. n \div 10 \in Int /\ n \div 10 < n /\ ~(n < 10)
    BY <1>14
  <2>2. digits[n \div 10] \in Seq(Int)
    BY <1>14, <2>1
  <2>3. digits[n] = Append(digits[n \div 10], ZERO + remainder(n))
    BY <1>12, <2>1
  <2>4. ZERO + remainder(n) \in Int
    BY <1>1
  <2>5. \A d \in Seq(Int), x \in Int : Append(d, x) \in Seq(Int)
    OBVIOUS
  <2>6. digits[n] \in Seq(Int)
    BY <2>2, <2>3, <2>4, <2>5
  <2> QED
    BY <2>6
<1>15. \A n \in Int : n \in S
  <2> HIDE DEF S
  <2>1. Int \in SUBSET Int /\ 10 \in Nat
    OBVIOUS
  <2>2. \A n \in Int : n >= 10 /\ (\A m \in Int : m < n => m \in S) => n \in S
    BY <1>14
  <2> QED
    BY <1>13, <2>1, <2>2, Induction
<1>16. DOMAIN digits = Int /\ digits = [n \in Int |-> digits[n]]
    BY <1>11
<1> QED
    BY <1>12, <1>15, <1>16

LEMMA HexDigitsDef ==
    /\ hex_digits \in [Nat -> Seq(Int)]
    /\ \A num \in Nat : hex_digits[num] = IF num < 16 THEN <<hex(num)>>
                                      ELSE Append(hex_digits[num \div 16], hex(num % 16))
<1> DEFINE start == [n \in Nat |-> <<hex(n)>>]
           step == [p \in Nat \X Seq(Int) |-> Append(p[2], hex(p[1] % 16))]
           smaller == [n \in Nat |-> n \div 16]
<1>1. \A n \in Nat : hex(n) \in Int /\ hex(n % 16) \in Int
    BY DEF hex, ZERO
<1>2. \A n \in Nat : n < 16 => start[n] \in Seq(Int)
    BY <1>1
<1>3. \A n \in Nat, v \in Seq(Int) : n >= 16 => step[<<n, v>>] \in Seq(Int)
    BY <1>1
<1>4. \A n \in Nat : n >= 16 => smaller[n] \in Nat /\ smaller[n] < n
    OBVIOUS
<1>5. \A n \in Nat, v \in Seq(Int) : step[<<n, v>>] = Append(v, hex(n % 16))
    OBVIOUS
<1>6. \A n \in Nat : start[n] = <<hex(n)>> /\ smaller[n] = n \div 16
    OBVIOUS
<1> HIDE DEF start, step, smaller
<1>7. PICK f \in [Nat -> Seq(Int)] : Solves(f, Nat, start, step, smaller, 16)
  <2>1. Nat \in SUBSET Int /\ 16 \in Nat
    OBVIOUS
  <2> QED
    BY <1>2, <1>3, <1>4, <2>1, Recursion
<1>8. ASSUME NEW n \in Nat
      PROVE f[n] = IF n < 16 THEN <<hex(n)>>
                   ELSE Append(f[n \div 16], hex(n % 16))
  <2>1. n \div 16 \in Nat
    OBVIOUS
  <2> QED
    BY <1>5, <1>6, <1>7, <2>1 DEF Solves
<1>9. f = [n \in Nat |-> IF n < 16 THEN <<hex(n)>>
                         ELSE Append(f[n \div 16], hex(n % 16))]
    BY <1>8
<1> DEFINE P(g) == g = [n \in Nat |-> IF n < 16 THEN <<hex(n)>>
                                      ELSE Append(g[n \div 16], hex(n % 16))]
<1>10. hex_digits = CHOOSE g : P(g)
    BY DEF hex_digits
<1>11. P(hex_digits)
  <2> HIDE DEF P
  <2>1. \E g : P(g)
    BY <1>9 DEF P
  <2> QED
    BY <1>10, <2>1
<1>12. \A n \in Nat : hex_digits[n] = IF n < 16 THEN <<hex(n)>>
                                  ELSE Append(hex_digits[n \div 16], hex(n % 16))
    BY <1>11
<1> DEFINE S == {n \in Nat : hex_digits[n] \in Seq(Int)}
<1>13. \A n \in Nat : n < 16 => n \in S
  <2>1. ASSUME NEW n \in Nat, n < 16 PROVE hex_digits[n] \in Seq(Int)
    <3>1. hex_digits[n] = <<hex(n)>> /\ hex(n) \in Int
      BY <1>1, <1>12, <2>1
    <3> QED
      BY <3>1
  <2> QED
    BY <2>1
<1>14. ASSUME NEW n \in Nat, n >= 16, \A m \in Nat : m < n => m \in S PROVE n \in S
  <2>1. n \div 16 \in Nat /\ n \div 16 < n /\ ~(n < 16)
    BY <1>14
  <2>2. hex_digits[n \div 16] \in Seq(Int)
    BY <1>14, <2>1
  <2>3. hex_digits[n] = Append(hex_digits[n \div 16], hex(n % 16))
    BY <1>12, <2>1
  <2>4. hex(n % 16) \in Int
    BY <1>1
  <2>5. \A d \in Seq(Int), x \in Int : Append(d, x) \in Seq(Int)
    OBVIOUS
  <2>6. hex_digits[n] \in Seq(Int)
    BY <2>2, <2>3, <2>4, <2>5
  <2> QED
    BY <2>6
<1>15. \A n \in Nat : n \in S
  <2> HIDE DEF S
  <2>1. Nat \in SUBSET Int /\ 16 \in Nat
    OBVIOUS
  <2>2. \A n \in Nat : n >= 16 /\ (\A m \in Nat : m < n => m \in S) => n \in S
    BY <1>14
  <2> QED
    BY <1>13, <2>1, <2>2, Induction
<1>16. DOMAIN hex_digits = Nat /\ hex_digits = [n \in Nat |-> hex_digits[n]]
    BY <1>11
<1> QED
    BY <1>12, <1>15, <1>16

(* The loop of serial_vprintf on a format of one directive.                *)
LEMMA VprintfTwo ==
    ASSUME NEW c, NEW args
    PROVE  serial_vprintf(<<PERCENT, c>>, args) =
               formatted(formatted([skipped |-> FALSE, args |-> args, out |-> << >>], PERCENT), c).out
<1> DEFINE s0 == [skipped |-> FALSE, args |-> args, out |-> << >>]
           format == <<PERCENT, c>>
           P(g) == g = [i \in 0 .. Len(format) |-> IF i = 0 THEN s0 ELSE formatted(g[i - 1], format[i])]
           f == [i \in 0 .. 2 |-> IF i = 0 THEN s0 ELSE IF i = 1 THEN formatted(s0, PERCENT)
                                  ELSE formatted(formatted(s0, PERCENT), c)]
           h == CHOOSE g : P(g)
<1>1. serial_vprintf(format, args) = h[Len(format)].out
    BY DEF serial_vprintf
<1>2. Len(format) = 2 /\ format[1] = PERCENT /\ format[2] = c
    OBVIOUS
<1> HIDE DEF format, s0
<1>3. P(f)
  <2>1. ASSUME NEW i \in 0 .. 2
        PROVE  f[i] = IF i = 0 THEN s0 ELSE formatted(f[i - 1], format[i])
    <3>1. i = 0 \/ i = 1 \/ i = 2
      OBVIOUS
    <3>2. f[0] = s0 /\ f[1] = formatted(s0, PERCENT) /\ f[2] = formatted(formatted(s0, PERCENT), c)
      OBVIOUS
    <3>3. 1 - 1 = 0 /\ 2 - 1 = 1
      OBVIOUS
    <3> HIDE DEF f
    <3> QED
      BY <1>2, <3>1, <3>2, <3>3
  <2>2. f = [i \in 0 .. 2 |-> f[i]]
    OBVIOUS
  <2> HIDE DEF f
  <2> QED
    BY <1>2, <2>1, <2>2
<1>4. P(h)
  <2> HIDE DEF P, f
  <2> QED
    BY <1>3
<1> HIDE DEF h
<1>5. h[0] = s0 /\ h[1] = formatted(h[0], PERCENT) /\ h[2] = formatted(h[1], c)
  <2>1. \A i \in 0 .. 2 : h[i] = IF i = 0 THEN s0 ELSE formatted(h[i - 1], format[i])
    BY <1>2, <1>4
  <2>2. 0 \in 0 .. 2 /\ 1 \in 0 .. 2 /\ 2 \in 0 .. 2 /\ 1 - 1 = 0 /\ 2 - 1 = 1
    OBVIOUS
  <2> QED
    BY <1>2, <2>1, <2>2
<1> QED
    BY <1>1, <1>2, <1>5 DEF format, s0

(* What a directive prints.                                                *)
LEMMA Printed ==
    ASSUME NEW arg
    PROVE  /\ serial_vprintf(<<PERCENT, LETTER.d>>, <<arg>>) = << >> \o itoa_dec(arg)
           /\ serial_vprintf(<<PERCENT, LETTER.x>>, <<arg>>) = << >> \o itoa_hex(arg)
           /\ serial_vprintf(<<PERCENT, LETTER.s>>, <<arg>>) = << >> \o arg
           /\ serial_vprintf(<<PERCENT, LETTER.c>>, <<arg>>) = << >> \o <<arg>>
           /\ serial_vprintf(<<PERCENT, LETTER.p>>, <<arg>>) = << >> \o (<<ZERO, LETTER.x>> \o itoa_hex(arg))
           /\ serial_vprintf(<<PERCENT, PERCENT>>, <<arg>>) = <<PERCENT>>
           /\ serial_vprintf(<<PERCENT, LF>>, <<arg>>) = <<PERCENT, LF>>
<1> DEFINE s0 == [skipped |-> FALSE, args |-> <<arg>>, out |-> << >>]
           s1 == [skipped |-> TRUE, args |-> <<arg>>, out |-> << >>]
<1>1. formatted(s0, PERCENT) = s1
    BY DEF formatted
<1>2. \A c : serial_vprintf(<<PERCENT, c>>, <<arg>>) = formatted(s1, c).out
    BY <1>1, VprintfTwo
<1>3. {LETTER[k] : k \in DOMAIN LETTER} = {100, 120, 115, 99, 112}
    BY DEF LETTER
<1>4. ASSUME NEW c \in {100, 120, 115, 99, 112}
      PROVE  formatted(s1, c).out = << >> \o converted(c, arg)
  <2>1. s1.skipped /\ s1.out = << >> /\ Head(s1.args) = arg
    OBVIOUS
  <2>2. c # PERCENT
    BY DEF PERCENT
  <2> HIDE DEF s1
  <2> QED
    BY <1>3, <2>1, <2>2 DEF formatted
<1>5. /\ converted(LETTER.d, arg) = itoa_dec(arg)
      /\ converted(LETTER.x, arg) = itoa_hex(arg)
      /\ converted(LETTER.s, arg) = arg
      /\ converted(LETTER.c, arg) = <<arg>>
      /\ converted(LETTER.p, arg) = <<ZERO, LETTER.x>> \o itoa_hex(arg)
    BY DEF converted, LETTER
<1>6. LETTER.d = 100 /\ LETTER.x = 120 /\ LETTER.s = 115 /\ LETTER.c = 99 /\ LETTER.p = 112
    BY DEF LETTER
<1>7. formatted(s1, PERCENT).out = <<PERCENT>>
  <2>1. PERCENT \notin {100, 120, 115, 99, 112}
    BY DEF PERCENT
  <2>2. formatted(s1, PERCENT) = [s1 EXCEPT !.skipped = FALSE, !.out = Append(@, PERCENT)]
    BY <1>3, <2>1 DEF formatted
  <2>3. Append(<< >>, PERCENT) = <<PERCENT>>
    BY DEF PERCENT
  <2> QED
    BY <2>2, <2>3
<1>8. formatted(s1, LF).out = <<PERCENT, LF>>
    BY <1>3 DEF formatted, PERCENT, LF
<1> HIDE DEF s1
<1>9. \A c \in {100, 120, 115, 99, 112} :
        serial_vprintf(<<PERCENT, c>>, <<arg>>) = << >> \o converted(c, arg)
    BY <1>2, <1>4
<1>10. {LETTER.d, LETTER.x, LETTER.s, LETTER.c, LETTER.p} \subseteq {100, 120, 115, 99, 112}
    BY <1>6
<1> QED
  <2>1. /\ serial_vprintf(<<PERCENT, LETTER.d>>, <<arg>>) = << >> \o converted(LETTER.d, arg)
        /\ serial_vprintf(<<PERCENT, LETTER.x>>, <<arg>>) = << >> \o converted(LETTER.x, arg)
        /\ serial_vprintf(<<PERCENT, LETTER.s>>, <<arg>>) = << >> \o converted(LETTER.s, arg)
        /\ serial_vprintf(<<PERCENT, LETTER.c>>, <<arg>>) = << >> \o converted(LETTER.c, arg)
        /\ serial_vprintf(<<PERCENT, LETTER.p>>, <<arg>>) = << >> \o converted(LETTER.p, arg)
    BY <1>9, <1>10
  <2> QED
    BY <1>2, <1>5, <1>7, <1>8, <2>1

(* Reading a text digit by digit.                                          *)
LEMMA ReadDef ==
    ASSUME NEW base \in Int
    PROVE  /\ \A b \in Int : Read(base, <<b>>) = digit(b)
           /\ \A text \in Seq(Int), b \in Int :
                Read(base, Append(text, b)) = base * Read(base, text) + digit(b)
           /\ \A text \in Seq(Int) : Read(base, text) \in Int
<1> DEFINE P(text, g) == g = [i \in 0 .. Len(text) |-> IF i = 0 THEN 0
                                                       ELSE base * g[i - 1] + digit(text[i])]
           value(text) == CHOOSE g : P(text, g)
<1>1. \A text : Read(base, text) = value(text)[Len(text)]
    BY DEF Read
<1>2. \A b \in Int : digit(b) \in Int
    BY DEF digit, ZERO
<1>3. ASSUME NEW text \in Seq(Int)
      PROVE  /\ value(text)[0] = 0
             /\ \A i \in 1 .. Len(text) :
                  value(text)[i] = base * value(text)[i - 1] + digit(text[i])
  <2> DEFINE D == 0 .. Len(text)
             start == [i \in D |-> 0]
             step == [p \in D \X Int |-> base * p[2] + digit(text[p[1]])]
             smaller == [i \in D |-> i - 1]
  <2>1. Len(text) \in Nat /\ D \in SUBSET Int /\ 1 \in Nat
    OBVIOUS
  <2>2. \A i \in 1 .. Len(text) : text[i] \in Int /\ digit(text[i]) \in Int
    BY <1>2
  <2>3. \A n \in D : n < 1 => start[n] \in Int
    OBVIOUS
  <2>4. \A n \in D, v \in Int : n >= 1 => step[<<n, v>>] = base * v + digit(text[n])
    OBVIOUS
  <2>5. \A n \in D, v \in Int : n >= 1 => step[<<n, v>>] \in Int
    <3>1. \A n \in D : n >= 1 => digit(text[n]) \in Int
      BY <2>1, <2>2
    <3>2. \A v, d \in Int : base * v + d \in Int
      OBVIOUS
    <3> HIDE DEF step, D
    <3> QED
      BY <2>4, <3>1, <3>2
  <2>6. \A n \in D : n >= 1 => smaller[n] \in D /\ smaller[n] < n /\ smaller[n] = n - 1
    BY <2>1
  <2>7. \A n \in D : start[n] = 0
    OBVIOUS
  <2> HIDE DEF start, step, smaller
  <2>8. PICK f \in [D -> Int] : Solves(f, D, start, step, smaller, 1)
    <3> HIDE DEF D
    <3> QED
      BY <2>1, <2>3, <2>5, <2>6, Recursion
  <2>9. ASSUME NEW n \in D PROVE f[n] = IF n = 0 THEN 0 ELSE base * f[n - 1] + digit(text[n])
    <3>1. CASE n = 0
      <4>1. n < 1
        BY <3>1
      <4>2. f[n] = start[n]
        <5> HIDE DEF D
        <5> QED
          BY <2>8, <4>1 DEF Solves
      <4> QED
        BY <2>7, <3>1, <4>2
    <3>2. CASE n # 0
      <4>1. n >= 1 /\ ~(n < 1) /\ n - 1 \in D
        BY <2>1, <3>2
      <4>2. f[n] = step[<<n, f[n - 1]>>]
        <5> HIDE DEF D
        <5> QED
          BY <2>6, <2>8, <4>1 DEF Solves
      <4>3. f[n - 1] \in Int
        BY <2>8, <4>1
      <4> HIDE DEF D
      <4> QED
        BY <2>4, <3>2, <4>1, <4>2, <4>3
    <3> QED
      BY <3>1, <3>2
  <2>10. P(text, f)
    <3>1. f = [n \in D |-> f[n]]
      BY <2>8
    <3> QED
      BY <2>9, <3>1
  <2>11. P(text, value(text))
    <3> HIDE DEF P
    <3> QED
      BY <2>10
  <2> HIDE DEF value
  <2>12. \A i \in 0 .. Len(text) : value(text)[i] = IF i = 0 THEN 0
                                    ELSE base * value(text)[i - 1] + digit(text[i])
    BY <2>11
  <2> QED
    BY <2>1, <2>12
<1> HIDE DEF value, P
<1>4. ASSUME NEW text \in Seq(Int) PROVE \A i \in 0 .. Len(text) : value(text)[i] \in Int
  <2> DEFINE S == {i \in 0 .. Len(text) : value(text)[i] \in Int}
  <2>1. Len(text) \in Nat /\ 0 .. Len(text) \in SUBSET Int
    OBVIOUS
  <2>2. \A n \in 0 .. Len(text) : n < 1 => n \in S
    BY <1>3, <2>1
  <2>3. ASSUME NEW n \in 0 .. Len(text), n >= 1, \A m \in 0 .. Len(text) : m < n => m \in S
        PROVE  n \in S
    <3>1. n - 1 \in 0 .. Len(text) /\ n - 1 < n /\ n \in 1 .. Len(text)
      BY <2>1, <2>3
    <3>2. value(text)[n - 1] \in Int /\ digit(text[n]) \in Int
      <4>1. text[n] \in Int
        BY <3>1
      <4>2. n - 1 \in S
        BY <2>3, <3>1
      <4> QED
        BY <1>2, <4>1, <4>2
    <3>3. value(text)[n] = base * value(text)[n - 1] + digit(text[n])
      BY <1>3, <3>1
    <3>4. \A v, d \in Int : base * v + d \in Int
      OBVIOUS
    <3> QED
      BY <3>2, <3>3, <3>4
  <2> HIDE DEF S
  <2>4. \A n \in 0 .. Len(text) : n \in S
    <3>1. \A n \in 0 .. Len(text) :
            n >= 1 /\ (\A m \in 0 .. Len(text) : m < n => m \in S) => n \in S
      BY <2>3
    <3>2. 1 \in Nat
      OBVIOUS
    <3> QED
      BY <2>1, <2>2, <3>1, <3>2, Induction
  <2> QED
    BY <2>4 DEF S
<1>5. ASSUME NEW b \in Int PROVE Read(base, <<b>>) = digit(b)
  <2>1. <<b>> \in Seq(Int) /\ Len(<<b>>) = 1 /\ <<b>>[1] = b /\ 1 \in 1 .. 1 /\ 1 - 1 = 0
    OBVIOUS
  <2>2. value(<<b>>)[1] = base * value(<<b>>)[0] + digit(b) /\ value(<<b>>)[0] = 0
    BY <1>3, <2>1
  <2>3. base * 0 = 0 /\ 0 + digit(b) = digit(b)
    BY <1>2
  <2>4. value(<<b>>)[1] = digit(b)
    BY <2>2, <2>3
  <2> QED
    BY <1>1, <2>1, <2>4
<1>6. ASSUME NEW text \in Seq(Int), NEW b \in Int
      PROVE  Read(base, Append(text, b)) = base * Read(base, text) + digit(b)
  <2> DEFINE more == Append(text, b)
             S == {i \in 0 .. Len(text) : value(more)[i] = value(text)[i]}
  <2>1. /\ more \in Seq(Int) /\ Len(more) = Len(text) + 1 /\ Len(text) \in Nat
        /\ more[Len(text) + 1] = b /\ 0 .. Len(text) \in SUBSET Int
        /\ \A i \in 1 .. Len(text) : more[i] = text[i]
    OBVIOUS
  <2> HIDE DEF more
  <2>2. \A n \in 0 .. Len(text) : n < 1 => n \in S
    BY <1>3, <2>1
  <2>3. ASSUME NEW n \in 0 .. Len(text), n >= 1, \A m \in 0 .. Len(text) : m < n => m \in S
        PROVE  n \in S
    <3>1. n - 1 \in 0 .. Len(text) /\ n - 1 < n /\ n \in 1 .. Len(text) /\ n \in 1 .. Len(more)
      BY <2>1, <2>3
    <3>2. value(more)[n - 1] = value(text)[n - 1] /\ more[n] = text[n]
      BY <2>1, <2>3, <3>1
    <3>3. value(text)[n] = base * value(text)[n - 1] + digit(text[n])
      BY <1>3, <3>1
    <3>4. value(more)[n] = base * value(more)[n - 1] + digit(more[n])
      BY <1>3, <2>1, <3>1
    <3> QED
      BY <3>2, <3>3, <3>4
  <2> HIDE DEF S
  <2>4. \A n \in 0 .. Len(text) : n \in S
    <3>1. \A n \in 0 .. Len(text) :
            n >= 1 /\ (\A m \in 0 .. Len(text) : m < n => m \in S) => n \in S
      BY <2>3
    <3>2. 1 \in Nat
      OBVIOUS
    <3> QED
      BY <2>1, <2>2, <3>1, <3>2, Induction
  <2>5. value(more)[Len(text)] = value(text)[Len(text)]
    BY <2>1, <2>4 DEF S
  <2>6. Len(text) + 1 \in 1 .. Len(more) /\ Len(text) + 1 - 1 = Len(text)
    BY <2>1
  <2>7. value(more)[Len(text) + 1] = base * value(more)[Len(text)] + digit(b)
    BY <1>3, <2>1, <2>6
  <2> QED
    BY <1>1, <2>1, <2>5, <2>7 DEF more
<1>7. ASSUME NEW text \in Seq(Int) PROVE Read(base, text) \in Int
  <2>1. Len(text) \in 0 .. Len(text)
    OBVIOUS
  <2> QED
    BY <1>1, <1>4, <2>1
<1> QED
    BY <1>5, <1>6, <1>7

(* A number's decimal digits read back as the number.                      *)
LEMMA DigitsRead ==
    ASSUME NEW num \in Nat
    PROVE  /\ digits[num] \in Seq(Int) /\ digits[num] # << >> /\ Head(digits[num]) >= ZERO
           /\ Read(10, digits[num]) = num
<1> DEFINE S == {n \in Nat : /\ digits[n] # << >> /\ Head(digits[n]) >= ZERO
                             /\ Read(10, digits[n]) = n}
<1>1. ASSUME NEW n \in Nat
      PROVE  remainder(n) = n % 10 /\ n % 10 \in 0 .. 9 /\ digit(ZERO + (n % 10)) = n % 10
    BY DEF remainder, digit, ZERO
<1>2. \A n \in Nat : digits[n] \in Seq(Int)
    BY DigitsDef
<1>3. ASSUME NEW n \in Nat, n < 10 PROVE n \in S
  <2>1. n % 10 = n
    BY <1>3
  <2>2. digits[n] = <<ZERO + n>>
    <3>1. n \in Int
      OBVIOUS
    <3>2. digits[n] = <<ZERO + remainder(n)>>
      BY <1>3, <3>1, DigitsDef
    <3>3. remainder(n) = n
      BY <1>1, <2>1
    <3> QED
      BY <3>2, <3>3
  <2>3. ZERO + n \in Int /\ ZERO + n >= ZERO /\ digit(ZERO + n) = n
    BY <1>1, <2>1 DEF ZERO
  <2>4. 10 \in Int
    OBVIOUS
  <2>5. Read(10, <<ZERO + n>>) = n
    BY <2>3, <2>4, ReadDef
  <2>6. Head(<<ZERO + n>>) = ZERO + n /\ <<ZERO + n>> # << >>
    OBVIOUS
  <2>7. digits[n] # << >> /\ Head(digits[n]) >= ZERO /\ Read(10, digits[n]) = n
    BY <2>2, <2>3, <2>5, <2>6
  <2> QED
    BY <2>7
<1>4. ASSUME NEW n \in Nat, n >= 10, \A m \in Nat : m < n => m \in S PROVE n \in S
  <2> DEFINE d == digits[n \div 10]
  <2>1. n \div 10 \in Nat /\ n \div 10 < n /\ ~(n < 10) /\ 10 \in Int
        /\ 10 * (n \div 10) + (n % 10) = n
    BY <1>4
  <2>2. digits[n] = Append(d, ZERO + (n % 10))
    <3>1. digits[n] = Append(d, ZERO + remainder(n))
      <4>1. n \in Int
        OBVIOUS
      <4> QED
        BY <2>1, <4>1, DigitsDef
    <3>2. remainder(n) = n % 10
      BY <1>1
    <3> QED
      BY <3>1, <3>2
  <2>3. d \in Seq(Int) /\ d # << >> /\ Head(d) >= ZERO /\ Read(10, d) = n \div 10
    BY <1>2, <1>4, <2>1
  <2>4. ZERO + (n % 10) \in Int /\ digit(ZERO + (n % 10)) = n % 10
    BY <1>1 DEF ZERO
  <2> HIDE DEF d
  <2>5. Read(10, Append(d, ZERO + (n % 10))) = 10 * Read(10, d) + (n % 10)
    BY <2>1, <2>3, <2>4, ReadDef
  <2>6. \A x \in Int : Append(d, x) # << >> /\ Head(Append(d, x)) = Head(d)
    BY <2>3
  <2>7. digits[n] # << >> /\ Head(digits[n]) >= ZERO
    BY <2>2, <2>3, <2>4, <2>6
  <2>8. Read(10, digits[n]) = n
    BY <2>1, <2>2, <2>3, <2>5
  <2> QED
    BY <2>7, <2>8
<1>5. \A n \in Nat : n \in S
  <2> HIDE DEF S
  <2>1. Nat \in SUBSET Int /\ 10 \in Nat
    OBVIOUS
  <2>2. \A n \in Nat : n >= 10 /\ (\A m \in Nat : m < n => m \in S) => n \in S
    BY <1>4
  <2>3. \A n \in Nat : n < 10 => n \in S
    BY <1>3
  <2> QED
    BY <2>1, <2>2, <2>3, Induction, ZenonT(60)
<1> QED
    BY <1>2, <1>5 DEF S

(* And its hexadecimal digits.                                             *)
LEMMA HexDigitsRead ==
    ASSUME NEW num \in Nat
    PROVE  hex_digits[num] \in Seq(Int) /\ Read(16, hex_digits[num]) = num
<1> DEFINE S == {n \in Nat : Read(16, hex_digits[n]) = n}
<1>1. \A n \in 0 .. 15 : hex(n) \in Int /\ digit(hex(n)) = n
    BY DEF hex, digit, ZERO
<1>2. \A n \in Nat : hex_digits[n] \in Seq(Int)
    BY HexDigitsDef
<1>3. ASSUME NEW n \in Nat, n < 16 PROVE n \in S
  <2>1. n \in 0 .. 15 /\ 16 \in Int
    BY <1>3
  <2>2. hex_digits[n] = <<hex(n)>>
    BY <1>3, HexDigitsDef
  <2>3. Read(16, <<hex(n)>>) = n
    BY <1>1, <2>1, ReadDef
  <2> QED
    BY <2>2, <2>3
<1>4. ASSUME NEW n \in Nat, n >= 16, \A m \in Nat : m < n => m \in S PROVE n \in S
  <2> DEFINE d == hex_digits[n \div 16]
  <2>1. n \div 16 \in Nat /\ n \div 16 < n /\ ~(n < 16) /\ 16 \in Int /\ n % 16 \in 0 .. 15
        /\ 16 * (n \div 16) + (n % 16) = n
    BY <1>4
  <2>2. hex_digits[n] = Append(d, hex(n % 16))
    BY <2>1, HexDigitsDef
  <2>3. d \in Seq(Int) /\ Read(16, d) = n \div 16
    BY <1>2, <1>4, <2>1
  <2>4. hex(n % 16) \in Int /\ digit(hex(n % 16)) = n % 16
    BY <1>1, <2>1
  <2> HIDE DEF d
  <2>5. Read(16, Append(d, hex(n % 16))) = 16 * Read(16, d) + (n % 16)
    BY <2>1, <2>3, <2>4, ReadDef
  <2> QED
    BY <2>1, <2>2, <2>3, <2>5
<1>5. \A n \in Nat : n \in S
  <2> HIDE DEF S
  <2>1. Nat \in SUBSET Int /\ 16 \in Nat
    OBVIOUS
  <2>2. \A n \in Nat : n >= 16 /\ (\A m \in Nat : m < n => m \in S) => n \in S
    BY <1>4
  <2>3. \A n \in Nat : n < 16 => n \in S
    BY <1>3
  <2> QED
    BY <2>1, <2>2, <2>3, Induction, ZenonT(60)
<1> QED
    BY <1>2, <1>5 DEF S

LEMMA PowerPositive == 2 ^ BITS \in Nat /\ 2 ^ BITS > 0
<1>1. \A i \in 1 .. 8 : i = 1 \/ i = 2 \/ i = 3 \/ i = 4 \/ i = 5 \/ i = 6 \/ i = 7 \/ i = 8
    OBVIOUS
<1>2. BITS \in {4, 8, 12, 16, 20, 24, 28, 32}
    BY <1>1, SerialAssumption
<1>3. /\ 2 ^ 4 > 0 /\ 2 ^ 8 > 0 /\ 2 ^ 12 > 0 /\ 2 ^ 16 > 0
      /\ 2 ^ 20 > 0 /\ 2 ^ 24 > 0 /\ 2 ^ 28 > 0 /\ 2 ^ 32 > 0
    OBVIOUS
<1>4. 2 ^ BITS > 0
    BY <1>2, <1>3
<1>5. BITS \in Nat
    BY <1>2
<1>6. 2 ^ BITS \in Int
    BY <1>5
<1> QED
    BY <1>4, <1>6

LEMMA NumbersInt == \A n \in Numbers : n \in Int
    BY OutputAssumption

(* itoa_dec and itoa_hex.                                                  *)
LEMMA HexRead ==
    ASSUME NEW n \in Int
    PROVE  itoa_hex(n) \in Seq(Int) /\ Read(16, itoa_hex(n)) = n % 2 ^ BITS
<1>1. \A M \in Int : M > 0 => n % M \in Nat
    OBVIOUS
<1>2. n % 2 ^ BITS \in Nat
    BY <1>1, PowerPositive
<1> QED
    BY <1>2, HexDigitsRead DEF itoa_hex

LEMMA DecType ==
    ASSUME NEW n \in Int
    PROVE  itoa_dec(n) \in Seq(Int)
<1>2. magnitude(n) \in Int
    BY DEF magnitude, negated
<1>3. digits[magnitude(n)] \in Seq(Int)
    BY <1>2, DigitsDef
<1>4. (IF n < 0 THEN <<MINUS>> ELSE << >>) \in Seq(Int)
    BY DEF MINUS
<1> QED
    BY <1>3, <1>4 DEF itoa_dec

LEMMA DecRead ==
    ASSUME NEW n \in Int, n # INT_MIN
    PROVE  ReadDec(itoa_dec(n)) = n
<1>1. CASE n >= 0
  <2>1. n \in Nat /\ ~(n < 0)
    BY <1>1
  <2>2. magnitude(n) = n
    BY <2>1 DEF magnitude
  <2>3. itoa_dec(n) = << >> \o digits[n]
    BY <2>1, <2>2 DEF itoa_dec
  <2> DEFINE d == digits[n]
  <2>4. d \in Seq(Int) /\ d # << >> /\ Head(d) >= ZERO /\ Read(10, d) = n
    BY <2>1, DigitsRead
  <2> HIDE DEF d
  <2>5. << >> \o d = d /\ Head(d) \in Int
    BY <2>4
  <2>6. Head(d) # MINUS
    BY <2>4, <2>5 DEF MINUS, ZERO
  <2> QED
    BY <2>3, <2>4, <2>5, <2>6 DEF ReadDec, d
<1>2. CASE n < 0
  <2>1. -n \in Nat /\ magnitude(n) = -n
    BY <1>2 DEF magnitude, negated
  <2> DEFINE d == digits[-n]
  <2>2. itoa_dec(n) = <<MINUS>> \o d
    BY <1>2, <2>1 DEF itoa_dec
  <2>3. d \in Seq(Int) /\ Read(10, d) = -n
    BY <2>1, DigitsRead
  <2> HIDE DEF d
  <2>4. Head(<<MINUS>> \o d) = MINUS /\ Tail(<<MINUS>> \o d) = d
    BY <2>3 DEF MINUS
  <2>5. -(-n) = n
    OBVIOUS
  <2> QED
    BY <2>2, <2>3, <2>4, <2>5 DEF ReadDec
<1> QED
    BY <1>1, <1>2

-----------------------------------------------------------------------------
(* The inductive invariant.                                                *)

Shades == Attributes \cup {attribute(0, 7)}
Bytes == Seq(Int)
Rests == [texts : Seq(Seq(Printable)), clear : BOOLEAN]

ScreenInv ==
    /\ fb \in [Cells -> (0 .. 127) \X Shades]
    /\ cursor_pos \in Cells
    /\ current \in Attributes

KernelInv ==
    /\ phase \in {"off", "console", "boot", "up"}
    /\ then \in Rests
    /\ ifl \in BOOLEAN

(* Unless one of them was hit, the outputs that are left are the last of   *)
(* the four for the cursor's position, and the display has taken the       *)
(* others.                                                                 *)
LowShown == hw_cursor[LOW] = cursor_pos % BYTE
Progress ==
    LET o == cursor_outputs(cursor_pos)
    IN  \/ outputs = o
        \/ outputs = <<o[2], o[3], o[4]>> /\ crtc = LOW
        \/ outputs = <<o[3], o[4]>> /\ LowShown
        \/ outputs = <<o[4]>> /\ LowShown /\ crtc = HIGH

DisplayInv ==
    /\ crtc \in Int /\ hw_cursor \in [{HIGH, LOW} -> Int]
    /\ outputs \in Seq(Int \X Int) /\ Len(outputs) <= 4
    /\ misplaced \in BOOLEAN
    /\ outputs # << >> /\ ~misplaced => Progress
    /\ CursorShown

(* The kernel may be between its test and its output, with a byte of the   *)
(* handler's in the queue and the kernel's to come; no further byte.  The  *)
(* handler leaves at most its last byte there, so that a test that went    *)
(* wrong does no harm.                                                     *)
Tags == Writers \cup {NOBODY}
PortInv ==
    /\ depth = IF phase = "off" THEN 1 ELSE FIFO
    /\ queue \in Seq(Tags \X Int) /\ Len(queue) <= 2
    /\ sending \in [Writers -> Bytes] /\ due \in [Writers -> Bytes]
    /\ at \in [Writers -> {"poll", "busy", "out"}]
    /\ \A w \in Writers : at[w] # "poll" => sending[w] # << >>
    /\ spoilt \in BOOLEAN /\ (spoilt => sending["kernel"] # << >>)
    /\ active \in BOOLEAN
    /\ phase = "off" => /\ queue = << >> /\ \A w \in Writers : sending[w] = << >>
                        /\ ~ifl /\ ~active /\ then = Nothing
    /\ ~active => sending["handler"] = << >>
    /\ active /\ sending["handler"] = << >> => Len(queue) <= 1
    /\ at["handler"] = "out" => queue = << >>
    /\ at["kernel"] = "out" => Len(queue) <= 1
    /\ NothingLost

OutputInv == ScreenInv /\ KernelInv /\ DisplayInv /\ PortInv

LEMMA OutputInvTypeOK == OutputInv => TypeOK
<1> SUFFICES ASSUME OutputInv PROVE TypeOK
    OBVIOUS
<1>1. FIFO \in Nat /\ FIFO >= 2
    BY SerialAssumption
<1>2. Len(queue) <= depth
  <2>1. CASE phase = "off"
    BY <2>1 DEF OutputInv, PortInv
  <2>2. CASE phase # "off"
    BY <1>1, <2>2 DEF OutputInv, PortInv
  <2> QED
    BY <2>1, <2>2
<1>3. \A i \in Cells : fb[i] \in (0 .. 127) \X (Attributes \cup {attribute(0, 7)})
    BY DEF OutputInv, ScreenInv, Shades
<1>4. /\ then.clear \in BOOLEAN /\ phase \in {"off", "console", "boot", "up"}
      /\ {ifl, active, misplaced} \subseteq BOOLEAN /\ Len(outputs) <= 4
    BY DEF OutputInv, KernelInv, DisplayInv, PortInv, Rests
<1>5. depth \in {1, FIFO} /\ (spoilt => sending["kernel"] # << >>)
    BY DEF OutputInv, PortInv
<1>6. \A w \in Writers : at[w] = "poll" \/ (at[w] \in {"busy", "out"} /\ sending[w] # << >>)
    BY DEF OutputInv, PortInv
<1> QED
    BY <1>2, <1>3, <1>4, <1>5, <1>6 DEF TypeOK, OutputInv, ScreenInv

-----------------------------------------------------------------------------
(* The screen.                                                             *)

LEMMA Positions ==
    /\ WIDTH \in Nat /\ WIDTH >= 1 /\ HEIGHT \in Nat /\ HEIGHT >= 1 /\ TAB \in Nat /\ TAB >= 1
    /\ CELLS \in Nat /\ CELLS >= WIDTH
    /\ CELLS - WIDTH \in Cells /\ 0 \in Cells
    /\ \A p \in Cells : p \in Nat /\ p < CELLS
<1>1. WIDTH \in Nat /\ WIDTH >= 1 /\ HEIGHT \in Nat /\ HEIGHT >= 1 /\ TAB \in Nat /\ TAB >= 1
    BY ScreenAssumption
<1>2. \A a, b \in Nat : a >= 1 /\ b >= 1 => a * b \in Nat /\ a * b >= a
    OBVIOUS
<1>3. CELLS \in Nat /\ CELLS >= WIDTH
    BY <1>1, <1>2 DEF CELLS
<1> QED
    BY <1>1, <1>3 DEF Cells

(* A position is a row and a place in the row.                             *)
LEMMA Division ==
    ASSUME NEW p \in Nat
    PROVE  /\ p \div WIDTH \in Nat /\ p % WIDTH \in Nat /\ p % WIDTH < WIDTH
           /\ (p \div WIDTH) * WIDTH \in Nat
           /\ p = (p \div WIDTH) * WIDTH + (p % WIDTH)
<1>1. \A w \in Nat : w >= 1 => 
           /\ p \div w \in Nat /\ p % w \in Nat /\ p % w < w
           /\ p = (p \div w) * w + (p % w)
    OBVIOUS
<1>2. \A a, b \in Nat : a * b \in Nat
    OBVIOUS
<1> QED
    BY <1>1, <1>2, Positions

Screens == [Cells -> (0 .. 127) \X Shades]

LEMMA BlankType ==
    ASSUME ScreenInv
    PROVE  /\ blank \in (0 .. 127) \X Shades
           /\ \A c \in 0 .. 127 : <<c, current>> \in (0 .. 127) \X Shades
<1>1. current \in Shades
    BY DEF ScreenInv, Shades
<1>2. 32 \in 0 .. 127
    OBVIOUS
<1> QED
    BY <1>1, <1>2 DEF blank, SPACE

LEMMA ScrolledType ==
    ASSUME ScreenInv, NEW cells \in Screens, NEW pos \in Nat, scrolled(cells, pos)
    PROVE  fb' \in Screens /\ cursor_pos' \in Cells
<1>1. \A i \in Cells : i \in Nat /\ (i + WIDTH < CELLS => i + WIDTH \in Cells)
    BY Positions DEF Cells
<1>2. [i \in Cells |-> IF i + WIDTH < CELLS THEN cells[i + WIDTH] ELSE cells[i]] \in Screens
    BY <1>1 DEF Screens
<1>3. \A s \in Screens : fb_clear_line(s, HEIGHT - 1) \in Screens
    BY BlankType DEF fb_clear_line, Screens
<1>4. fb_scroll(cells) \in Screens
    BY <1>2, <1>3 DEF fb_scroll
<1>5. ~(pos >= CELLS) => pos \in Cells
    BY Positions DEF Cells
<1> QED
    BY <1>4, <1>5, Positions DEF scrolled

LEMMA CellType ==
    ASSUME NEW s \in Screens, NEW p \in Int, NEW cell \in (0 .. 127) \X Shades
    PROVE  fb_write_cell(s, p, cell) \in Screens
    BY DEF fb_write_cell, Screens

LEMMA CharType ==
    ASSUME ScreenInv, NEW c \in 0 .. 127, fb_write_char(c)
    PROVE  ScreenInv'
<1> USE DEF Screens
<1>1. fb \in Screens /\ cursor_pos \in Nat /\ cursor_pos < CELLS
    BY Positions DEF ScreenInv
<1>2. current' = current
    BY DEF fb_write_char
<1> SUFFICES fb' \in Screens /\ cursor_pos' \in Cells
    BY <1>2 DEF ScreenInv
<1>3. CASE c = LF
  <2>1. newline
    BY <1>3 DEF fb_write_char, BS, CR, HT, LF
  <2>2. cursor_pos + WIDTH \in Nat
    BY <1>1, Positions
  <2>3. ((cursor_pos + WIDTH) \div WIDTH) * WIDTH \in Nat
    BY <2>2, Division
  <2> QED
    BY <1>1, <2>1, <2>3, ScrolledType DEF newline
<1>4. CASE c = HT
  <2> DEFINE cells == [i \in Cells |-> IF i \in cursor_pos .. cursor_pos + TAB - 1 THEN blank ELSE fb[i]]
  <2>0. tab
    BY <1>4 DEF fb_write_char, BS, CR, HT, LF
  <2>1. scrolled(cells, cursor_pos + TAB)
    BY <2>0 DEF tab
  <2>2. cells \in Screens
    BY <1>1, BlankType
  <2>3. cursor_pos + TAB \in Nat
    BY <1>1, Positions
  <2> HIDE DEF cells
  <2> QED
    BY <2>1, <2>2, <2>3, ScrolledType
<1>5. CASE c = CR
  <2>1. return
    BY <1>5 DEF fb_write_char, BS, CR, HT, LF
  <2>2. (cursor_pos \div WIDTH) * WIDTH \in Nat
    BY <1>1, Division
  <2> QED
    BY <1>1, <2>1, <2>2, ScrolledType DEF return
<1>6. CASE c = BS
  <2>1. backspace
    BY <1>6 DEF fb_write_char, BS, CR, HT, LF
  <2>2. CASE cursor_pos = 0
    <3>1. scrolled(fb, 0) /\ 0 \in Nat
      BY <2>1, <2>2 DEF backspace
    <3> QED
      BY <1>1, <3>1, ScrolledType
  <2>3. CASE cursor_pos # 0
    <3>1. cursor_pos - 1 \in Nat /\ cursor_pos - 1 \in Int
      BY <1>1, <2>3
    <3>2. fb_write_cell(fb, cursor_pos - 1, blank) \in Screens
      BY <1>1, <3>1, CellType, BlankType
    <3>3. scrolled(fb_write_cell(fb, cursor_pos - 1, blank), cursor_pos - 1)
      BY <2>1, <2>3 DEF backspace
    <3> QED
      BY <3>1, <3>2, <3>3, ScrolledType
  <2> QED
    BY <2>2, <2>3
<1>7. CASE c \notin {LF, HT, CR, BS}
  <2>1. glyph(c)
    BY <1>7 DEF fb_write_char
  <2>2. cursor_pos \in Int /\ cursor_pos + 1 \in Nat
    BY <1>1
  <2>3. fb_write_cell(fb, cursor_pos, <<c, current>>) \in Screens
    BY <1>1, <2>2, CellType, BlankType
  <2> QED
    BY <2>1, <2>2, <2>3, ScrolledType DEF glyph
<1> QED
    BY <1>3, <1>4, <1>5, <1>6, <1>7

LEMMA ClearType ==
    ASSUME ScreenInv, fb_clear
    PROVE  ScreenInv' /\ cursor_pos' = 0 /\ fb_set_cursor(0)
<1>1. fb' = [i \in Cells |-> blank] /\ cursor_pos' = 0 /\ fb_set_cursor(0) /\ current' = current
    BY DEF fb_clear
<1>2. fb' \in [Cells -> (0 .. 127) \X Shades]
    BY <1>1, BlankType
<1> QED
    BY <1>1, <1>2, Positions DEF ScreenInv

-----------------------------------------------------------------------------
(* The display's cursor.                                                   *)

LEMMA OutputsType ==
    ASSUME NEW p \in Cells
    PROVE  /\ p % BYTE \in Int /\ p \div BYTE \in Int
           /\ (p \div BYTE) * BYTE + (p % BYTE) = p
           /\ cursor_outputs(p) \in Seq(Int \X Int) /\ Len(cursor_outputs(p)) = 4
<1>1. BYTE \in Nat /\ BYTE >= 1 /\ p \in Nat
    BY ScreenAssumption, Positions
<1>2. \A w \in Nat : w >= 1 => /\ p \div w \in Nat /\ p % w \in Nat
                              /\ p = (p \div w) * w + (p % w)
    BY <1>1
<1>3. p % BYTE \in Int /\ p \div BYTE \in Int /\ (p \div BYTE) * BYTE + (p % BYTE) = p
    BY <1>1, <1>2
<1>4. \A x, y \in Int : <<<<INDEX, LOW>>, <<DATA, x>>, <<INDEX, HIGH>>, <<DATA, y>>>> \in Seq(Int \X Int)
    BY DEF INDEX, DATA, HIGH, LOW
<1> QED
    BY <1>3, <1>4 DEF cursor_outputs

(* The last of four.                                                       *)
LEMMA Tails ==
    ASSUME NEW a, NEW b, NEW c, NEW d
    PROVE  /\ <<b, c, d>> # << >> /\ <<c, d>> # << >> /\ <<d>> # << >>
           /\ <<a, b, c, d>>[1] = a /\ Tail(<<a, b, c, d>>) = <<b, c, d>>
           /\ <<b, c, d>>[1] = b /\ Tail(<<b, c, d>>) = <<c, d>>
           /\ <<c, d>>[1] = c /\ Tail(<<c, d>>) = <<d>>
           /\ <<d>>[1] = d /\ Tail(<<d>>) = << >>
    OBVIOUS

LEMMA SetCursorKeeps ==
    ASSUME DisplayInv, ScreenInv', fb_set_cursor(cursor_pos')
    PROVE  DisplayInv'
<1>1. cursor_pos' \in Cells /\ ~(cursor_pos' >= CELLS)
    BY Positions DEF ScreenInv
<1>2. /\ outputs' = cursor_outputs(cursor_pos') /\ misplaced' = FALSE
      /\ crtc' = crtc /\ hw_cursor' = hw_cursor
    BY <1>1 DEF fb_set_cursor
<1>3. outputs' \in Seq(Int \X Int) /\ Len(outputs') = 4
    BY <1>1, <1>2, OutputsType
<1>4. outputs' # << >> /\ Len(outputs') <= 4
  <2>1. Len(<< >>) = 0 /\ 0 # 4 /\ 4 <= 4
    OBVIOUS
  <2> QED
    BY <1>3, <2>1
<1>5. Progress'
    BY <1>2 DEF Progress
<1>6. CursorShown'
    BY <1>4 DEF CursorShown
<1> QED
    BY <1>2, <1>3, <1>4, <1>5, <1>6 DEF DisplayInv

LEMMA OutbDisplayKeeps ==
    ASSUME ScreenInv, DisplayInv, outb_display
    PROVE  ScreenInv' /\ DisplayInv'
<1>1. /\ outputs # << >> /\ outputs' = Tail(outputs)
      /\ crtc' = IF outputs[1][1] = INDEX THEN outputs[1][2] ELSE crtc
      /\ hw_cursor' = [k \in {HIGH, LOW} |->
                         IF outputs[1][1] = DATA /\ k = crtc THEN outputs[1][2] ELSE hw_cursor[k]]
      /\ fb' = fb /\ cursor_pos' = cursor_pos /\ current' = current /\ misplaced' = misplaced
    BY DEF outb_display
<1>2. ScreenInv'
    BY <1>1 DEF ScreenInv
<1>3. /\ crtc \in Int /\ hw_cursor \in [{HIGH, LOW} -> Int]
      /\ outputs \in Seq(Int \X Int) /\ Len(outputs) <= 4 /\ cursor_pos \in Cells
    BY DEF DisplayInv, ScreenInv
<1>4. outputs[1] \in Int \X Int
    BY <1>1, <1>3
<1>5. outputs[1][1] \in Int /\ outputs[1][2] \in Int
    BY <1>4
<1>6. outputs' \in Seq(Int \X Int) /\ Len(outputs') <= 4
    BY <1>1, <1>3
<1>7. crtc' \in Int /\ hw_cursor' \in [{HIGH, LOW} -> Int]
    BY <1>1, <1>3, <1>5
<1>8. ASSUME ~misplaced
      PROVE  /\ outputs' # << >> => Progress'
             /\ outputs' = << >> => hw_cursor'[HIGH] * BYTE + hw_cursor'[LOW] = cursor_pos'
  <2> DEFINE o1 == <<INDEX, LOW>>
             o2 == <<DATA, cursor_pos % BYTE>>
             o3 == <<INDEX, HIGH>>
             o4 == <<DATA, cursor_pos \div BYTE>>
             o == cursor_outputs(cursor_pos)
  <2>1. o = <<o1, o2, o3, o4>> /\ o' = o
    BY <1>1 DEF cursor_outputs
  <2>2. o[2] = o2 /\ o[3] = o3 /\ o[4] = o4
    BY <2>1
  <2>3. /\ o1[1] = INDEX /\ o1[2] = LOW /\ o2[1] = DATA /\ o2[2] = cursor_pos % BYTE
        /\ o3[1] = INDEX /\ o3[2] = HIGH /\ o4[1] = DATA /\ o4[2] = cursor_pos \div BYTE
        /\ INDEX # DATA /\ HIGH # LOW
    BY DEF INDEX, DATA, HIGH, LOW
  <2>4. LowShown' <=> hw_cursor'[LOW] = cursor_pos % BYTE
    BY <1>1 DEF LowShown
  <2> HIDE DEF o1, o2, o3, o4
  <2>5. /\ Progress <=> \/ outputs = <<o1, o2, o3, o4>>
                        \/ outputs = <<o2, o3, o4>> /\ crtc = LOW
                        \/ outputs = <<o3, o4>> /\ LowShown
                        \/ outputs = <<o4>> /\ LowShown /\ crtc = HIGH
        /\ Progress' <=> \/ outputs' = <<o1, o2, o3, o4>>
                         \/ outputs' = <<o2, o3, o4>> /\ crtc' = LOW
                         \/ outputs' = <<o3, o4>> /\ LowShown'
                         \/ outputs' = <<o4>> /\ LowShown' /\ crtc' = HIGH
    <3>1. o'[2] = o2 /\ o'[3] = o3 /\ o'[4] = o4
      BY <2>1, <2>2
    <3> QED
      BY <2>1, <2>2, <3>1 DEF Progress
  <2>6. Progress
    BY <1>1, <1>8 DEF DisplayInv
  <2>7. CASE outputs = <<o1, o2, o3, o4>>
    <3>1. outputs[1] = o1 /\ outputs' = <<o2, o3, o4>>
      BY <1>1, <2>7, Tails
    <3>2. crtc' = LOW
      BY <1>1, <2>3, <3>1
    <3>3. outputs' # << >>
      BY <3>1, Tails
    <3> QED
      BY <2>5, <3>1, <3>2, <3>3
  <2>8. CASE outputs = <<o2, o3, o4>> /\ crtc = LOW
    <3>1. outputs[1] = o2 /\ outputs' = <<o3, o4>>
      BY <1>1, <2>8, Tails
    <3>2. hw_cursor'[LOW] = cursor_pos % BYTE
      BY <1>1, <2>3, <2>8, <3>1
    <3>3. outputs' # << >>
      BY <3>1, Tails
    <3> QED
      BY <2>4, <2>5, <3>1, <3>2, <3>3
  <2>9. CASE outputs = <<o3, o4>> /\ LowShown
    <3>1. outputs[1] = o3 /\ outputs' = <<o4>>
      BY <1>1, <2>9, Tails
    <3>2. crtc' = HIGH
      BY <1>1, <2>3, <3>1
    <3>3. hw_cursor'[LOW] = hw_cursor[LOW]
      BY <1>1, <2>3, <3>1
    <3>4. LowShown'
      BY <2>4, <2>9, <3>3 DEF LowShown
    <3>5. outputs' # << >>
      BY <3>1, Tails
    <3> QED
      BY <2>5, <3>1, <3>2, <3>4, <3>5
  <2>10. CASE outputs = <<o4>> /\ LowShown /\ crtc = HIGH
    <3>1. outputs[1] = o4 /\ outputs' = << >>
      BY <1>1, <2>10, Tails
    <3>2. hw_cursor'[HIGH] = cursor_pos \div BYTE /\ hw_cursor'[LOW] = cursor_pos % BYTE
      BY <1>1, <2>3, <2>10, <3>1 DEF LowShown
    <3> QED
      BY <1>1, <1>3, <3>1, <3>2, OutputsType
  <2> QED
    BY <2>5, <2>6, <2>7, <2>8, <2>9, <2>10
<1>9. CursorShown' /\ (outputs' # << >> /\ ~misplaced' => Progress') /\ misplaced' \in BOOLEAN
    BY <1>1, <1>8 DEF CursorShown, DisplayInv
<1> QED
    BY <1>2, <1>6, <1>7, <1>9 DEF DisplayInv

LEMMA DisplayHitKeeps ==
    ASSUME ScreenInv, DisplayInv, DisplayHit(STUB)
    PROVE  ScreenInv' /\ DisplayInv'
<1>1. /\ outputs # << >> /\ outputs' = <<<<outputs[1][1], STUB>>>> \o Tail(outputs)
      /\ misplaced' = TRUE /\ crtc' = crtc /\ hw_cursor' = hw_cursor
      /\ fb' = fb /\ cursor_pos' = cursor_pos /\ current' = current
    BY DEF DisplayHit
<1>2. outputs \in Seq(Int \X Int) /\ Len(outputs) <= 4
    BY DEF DisplayInv
<1>3. outputs[1] \in Int \X Int
    BY <1>1, <1>2
<1> DEFINE h == <<outputs[1][1], STUB>>
<1>4. h \in Int \X Int
    BY <1>3 DEF STUB
<1> HIDE DEF h
<1>5. Tail(outputs) \in Seq(Int \X Int) /\ Len(Tail(outputs)) = Len(outputs) - 1 /\ Len(outputs) \in Nat
    BY <1>1, <1>2
<1>6. outputs' \in Seq(Int \X Int) /\ Len(outputs') <= 4
  <2> DEFINE t == Tail(outputs)
  <2>1. t \in Seq(Int \X Int) /\ Len(t) + 1 <= 4 /\ Len(t) \in Nat
    BY <1>2, <1>5
  <2>2. outputs' = <<h>> \o t
    BY <1>1 DEF h
  <2> HIDE DEF t
  <2>3. <<h>> \in Seq(Int \X Int) /\ Len(<<h>>) = 1
    BY <1>4
  <2> QED
    BY <2>1, <2>2, <2>3
<1>7. ScreenInv' /\ CursorShown'
    BY <1>1 DEF ScreenInv, CursorShown
<1> QED
    BY <1>1, <1>6, <1>7 DEF DisplayInv

-----------------------------------------------------------------------------
(* The port.                                                               *)

(* Texts.                                                                  *)
LEMMA ConcatAssoc ==
    ASSUME NEW s \in Bytes, NEW t \in Bytes, NEW u \in Bytes
    PROVE  (s \o t) \o u = s \o (t \o u)
    BY DEF Bytes

LEMMA TailOfCons ==
    ASSUME NEW b \in Int, NEW s \in Bytes
    PROVE  Tail(<<b>> \o s) = s
    BY DEF Bytes

LEMMA Concatenation ==
    /\ \A s \in Bytes : << >> \o s = s /\ s \o << >> = s
    /\ \A s, t \in Bytes : s \o t \in Bytes
    /\ \A s, t \in Bytes : t # << >> => 
         /\ Head(t) \in Int /\ Tail(t) \in Bytes /\ <<Head(t)>> \in Bytes
         /\ (s \o <<Head(t)>>) \o Tail(t) = s \o t
    /\ \A b \in Int : <<b>> \in Bytes
<1> USE DEF Bytes
<1>1. \A s \in Bytes : << >> \o s = s /\ s \o << >> = s
    OBVIOUS
<1>2. \A s, t \in Bytes : s \o t \in Bytes
    OBVIOUS
<1>3. \A s, t, u \in Bytes : (s \o t) \o u = s \o (t \o u)
    BY ConcatAssoc
<1>4. ASSUME NEW s \in Bytes, NEW t \in Bytes, t # << >>
      PROVE  /\ Head(t) \in Int /\ Tail(t) \in Bytes /\ <<Head(t)>> \in Bytes
             /\ (s \o <<Head(t)>>) \o Tail(t) = s \o t
  <2>1. Head(t) \in Int /\ Tail(t) \in Bytes /\ <<Head(t)>> \in Bytes
    BY <1>4
  <2>2. <<Head(t)>> \o Tail(t) = t
    BY <1>4
  <2> QED
    BY <1>3, <2>1, <2>2
<1>5. \A b \in Int : <<b>> \in Bytes
    OBVIOUS
<1> QED
    BY <1>1, <1>2, <1>3, <1>4, <1>5

LEMMA OwnType ==
    ASSUME NEW w \in Writers, NEW u \in Tags, NEW b \in Int
    PROVE  /\ Own(w, <<u, b>>) = IF u = w THEN <<b>> ELSE << >>
           /\ Own(w, <<u, b>>) \in Bytes
    BY DEF Own, Bytes

(* What is left in the queue of a writer's bytes, when there are at most   *)
(* two bytes.                                                              *)
LEMMA FromShort ==
    ASSUME NEW w \in Writers, NEW q \in Seq(Tags \X Int), Len(q) <= 2
    PROVE  /\ Len(q) = 0 => From(w, q) = << >>
           /\ Len(q) = 1 => From(w, q) = Own(w, q[1]) /\ Own(w, q[1]) \in Bytes
           /\ Len(q) = 2 => /\ From(w, q) = Own(w, q[1]) \o Own(w, q[2])
                            /\ Own(w, q[1]) \in Bytes /\ Own(w, q[2]) \in Bytes
<1> DEFINE P(g) == g = [i \in 0 .. Len(q) |-> IF i = 0 THEN << >> ELSE g[i - 1] \o Own(w, q[i])]
           one == << >> \o Own(w, q[1])
           two == one \o Own(w, q[2])
           f == [i \in 0 .. Len(q) |-> IF i = 0 THEN << >> ELSE IF i = 1 THEN one ELSE two]
           h == CHOOSE g : P(g)
<1>1. From(w, q) = h[Len(q)]
    BY DEF From
<1>2. Len(q) \in Nat /\ (Len(q) = 0 \/ Len(q) = 1 \/ Len(q) = 2)
  <2>1. Len(q) \in Nat
    OBVIOUS
  <2>2. \A n \in Nat : n <= 2 => n = 0 \/ n = 1 \/ n = 2
    OBVIOUS
  <2> QED
    BY <2>1, <2>2
<1>3. P(f)
  <2>1. ASSUME NEW i \in 0 .. Len(q)
        PROVE  f[i] = IF i = 0 THEN << >> ELSE f[i - 1] \o Own(w, q[i])
    <3>1. i = 0 \/ i = 1 \/ (i = 2 /\ 1 \in 0 .. Len(q))
      BY <1>2
    <3>2. CASE i = 0
      BY <3>2
    <3>3. CASE i = 1
      <4>1. f[1] = one /\ f[0] = << >> /\ 1 - 1 = 0
        BY <1>2, <3>3
      <4> HIDE DEF f
      <4> QED
        BY <3>3, <4>1
    <3>4. CASE i = 2 /\ 1 \in 0 .. Len(q)
      <4>1. f[2] = two /\ f[1] = one /\ 2 - 1 = 1
        BY <1>2, <3>4
      <4>2. two = one \o Own(w, q[2])
        OBVIOUS
      <4>3. i = 2 /\ i # 0
        BY <3>4
      <4> HIDE DEF f, one, two
      <4> QED
        BY <4>1, <4>2, <4>3
    <3> QED
      BY <3>1, <3>2, <3>3, <3>4
  <2>2. f = [i \in 0 .. Len(q) |-> f[i]]
    OBVIOUS
  <2> HIDE DEF f
  <2> QED
    BY <2>1, <2>2
<1>4. P(h)
  <2> HIDE DEF P, f
  <2> QED
    BY <1>3
<1> HIDE DEF h
<1> DEFINE with(a, i) == a \o Own(w, q[i])
<1>5. \A i \in 0 .. Len(q) : h[i] = IF i = 0 THEN << >> ELSE with(h[i - 1], i)
    BY <1>4
<1> HIDE DEF with
<1>6. ASSUME NEW i \in 1 .. Len(q) PROVE Own(w, q[i]) \in Bytes /\ << >> \o Own(w, q[i]) = Own(w, q[i])
  <2>1. q[i] \in Tags \X Int
    OBVIOUS
  <2>2. q[i] = <<q[i][1], q[i][2]>> /\ q[i][1] \in Tags /\ q[i][2] \in Int
    BY <2>1
  <2>3. Own(w, q[i]) \in Bytes
    BY <2>2, OwnType
  <2> QED
    BY <2>3, Concatenation
<1>9. CASE Len(q) = 0
    BY <1>1, <1>5, <1>9
<1>7. CASE Len(q) = 1
  <2>1. 0 \in 0 .. Len(q) /\ 1 \in 0 .. Len(q) /\ 1 - 1 = 0
    BY <1>7
  <2>2. h[0] = << >> /\ h[1] = with(h[0], 1)
    BY <1>5, <2>1
  <2>3. 1 \in 1 .. Len(q)
    BY <1>7
  <2> QED
    BY <1>1, <1>6, <1>7, <2>2, <2>3 DEF with
<1>8. CASE Len(q) = 2
  <2>1. 0 \in 0 .. Len(q) /\ 1 \in 0 .. Len(q) /\ 2 \in 0 .. Len(q) /\ 1 - 1 = 0 /\ 2 - 1 = 1
    BY <1>8
  <2>2. h[0] = << >> /\ h[1] = with(h[0], 1) /\ h[2] = with(h[1], 2)
    BY <1>5, <2>1
  <2>3. 1 \in 1 .. Len(q) /\ 2 \in 1 .. Len(q)
    BY <1>8
  <2>4. h[1] = Own(w, q[1])
    BY <1>6, <2>2, <2>3 DEF with
  <2>5. h[2] = Own(w, q[1]) \o Own(w, q[2])
    BY <2>2, <2>4 DEF with
  <2> QED
    BY <1>1, <1>6, <1>8, <2>3, <2>5
<1> QED
    BY <1>2, <1>7, <1>8, <1>9

(* A byte into the queue.                                                  *)
LEMMA FromAppend ==
    ASSUME NEW w \in Writers, NEW q \in Seq(Tags \X Int), Len(q) <= 1,
           NEW u \in Tags, NEW b \in Int
    PROVE  /\ From(w, q) \in Bytes
           /\ Append(q, <<u, b>>) \in Seq(Tags \X Int)
           /\ Len(Append(q, <<u, b>>)) = Len(q) + 1
           /\ From(w, Append(q, <<u, b>>)) = IF u = w THEN From(w, q) \o <<b>> ELSE From(w, q)
<1> DEFINE r == Append(q, <<u, b>>)
           byte == <<u, b>>
           own == Own(w, byte)
<1>1. Len(q) \in Nat /\ (Len(q) = 0 \/ Len(q) = 1)
  <2>1. Len(q) \in Nat
    OBVIOUS
  <2>2. \A n \in Nat : n <= 1 => n = 0 \/ n = 1
    OBVIOUS
  <2> QED
    BY <2>1, <2>2
<1>2. byte \in Tags \X Int
    OBVIOUS
<1>3. /\ r \in Seq(Tags \X Int) /\ Len(r) = Len(q) + 1 /\ r[Len(q) + 1] = byte
      /\ Len(q) = 1 => r[1] = q[1] /\ q[1] \in Tags \X Int
    BY <1>1, <1>2
<1>4. own \in Bytes /\ own = IF u = w THEN <<b>> ELSE << >>
    BY OwnType
<1> HIDE DEF byte, r, own
<1>5. /\ From(w, q) \in Bytes
      /\ From(w, r) = From(w, q) \o own
  <2>1. CASE Len(q) = 0
    <3>1. From(w, q) = << >>
      <4>1. Len(q) <= 2
        BY <2>1
      <4> QED
        BY <2>1, <4>1, FromShort
    <3>2. r[1] = byte /\ Len(r) = 1 /\ Len(r) <= 2
      BY <1>3, <2>1
    <3>3. From(w, r) = own
      BY <1>3, <3>2, FromShort DEF own
    <3>4. << >> \in Bytes
      BY DEF Bytes
    <3> QED
      BY <1>4, <3>1, <3>3, <3>4, Concatenation
  <2>2. CASE Len(q) = 1
    <3>1. From(w, q) = Own(w, q[1]) /\ Own(w, q[1]) \in Bytes
      <4>1. Len(q) <= 2
        BY <2>2
      <4> QED
        BY <2>2, <4>1, FromShort
    <3>2. r[1] = q[1] /\ r[2] = byte /\ Len(r) = 2 /\ Len(r) <= 2
      BY <1>3, <2>2
    <3>3. From(w, r) = Own(w, r[1]) \o Own(w, r[2])
      BY <1>3, <3>2, FromShort
    <3> QED
      BY <3>1, <3>2, <3>3 DEF own
  <2> QED
    BY <1>1, <2>1, <2>2
<1>6. From(w, q) \o << >> = From(w, q)
    BY <1>5, Concatenation
<1> QED
    BY <1>3, <1>4, <1>5, <1>6 DEF r, byte

(* A byte out of the queue.                                                *)
LEMMA FromTail ==
    ASSUME NEW w \in Writers, NEW q \in Seq(Tags \X Int), Len(q) <= 2, q # << >>
    PROVE  /\ Head(q)[1] \in Tags /\ Head(q)[2] \in Int
           /\ Tail(q) \in Seq(Tags \X Int) /\ Len(Tail(q)) = Len(q) - 1
           /\ From(w, Tail(q)) \in Bytes
           /\ From(w, q) = IF Head(q)[1] = w THEN <<Head(q)[2]>> \o From(w, Tail(q))
                           ELSE From(w, Tail(q))
<1> DEFINE r == Tail(q)
<1>1. Len(q) \in Nat /\ (Len(q) = 1 \/ Len(q) = 2)
  <2>1. Len(q) \in Nat /\ Len(q) # 0
    OBVIOUS
  <2>2. \A n \in Nat : n # 0 /\ n <= 2 => n = 1 \/ n = 2
    OBVIOUS
  <2> QED
    BY <2>1, <2>2
<1>2. /\ Head(q) = q[1] /\ q[1] \in Tags \X Int
      /\ r \in Seq(Tags \X Int) /\ Len(r) = Len(q) - 1
      /\ Len(q) = 2 => r[1] = q[2] /\ q[2] \in Tags \X Int
    BY <1>1
<1> HIDE DEF r
<1>3. q[1] = <<q[1][1], q[1][2]>> /\ q[1][1] \in Tags /\ q[1][2] \in Int
    BY <1>2
<1>4. /\ Own(w, q[1]) = IF q[1][1] = w THEN <<q[1][2]>> ELSE << >>
      /\ Own(w, q[1]) \in Bytes
    BY <1>3, OwnType
<1>5. From(w, r) \in Bytes /\ From(w, q) = Own(w, q[1]) \o From(w, r)
  <2>1. CASE Len(q) = 1
    <3>1. From(w, q) = Own(w, q[1])
      BY <2>1, FromShort
    <3>2. Len(r) = 0 /\ Len(r) <= 2 /\ << >> \in Bytes
      BY <1>2, <2>1 DEF Bytes
    <3>3. From(w, r) = << >>
      BY <1>2, <3>2, FromShort
    <3> QED
      BY <1>4, <3>1, <3>2, <3>3, Concatenation
  <2>2. CASE Len(q) = 2
    <3>1. From(w, q) = Own(w, q[1]) \o Own(w, q[2]) /\ Own(w, q[2]) \in Bytes
      BY <2>2, FromShort
    <3>2. r[1] = q[2] /\ Len(r) = 1 /\ Len(r) <= 2
      BY <1>2, <2>2
    <3>3. From(w, r) = Own(w, r[1])
      BY <1>2, <3>2, FromShort
    <3> QED
      BY <3>1, <3>2, <3>3
  <2> QED
    BY <1>1, <2>1, <2>2
<1>6. << >> \o From(w, r) = From(w, r)
    BY <1>5, Concatenation
<1> QED
    BY <1>2, <1>3, <1>4, <1>5, <1>6 DEF r

LEMMA FromType ==
    ASSUME NEW w \in Writers, NEW q \in Seq(Tags \X Int), Len(q) <= 2
    PROVE  From(w, q) \in Bytes /\ From(w, << >>) = << >>
<1>1. << >> \in Bytes /\ << >> \in Seq(Tags \X Int) /\ Len(<< >>) = 0 /\ Len(<< >>) <= 2
    BY DEF Bytes
<1>2. From(w, << >>) = << >>
    BY <1>1, FromShort
<1>3. q # << >> => From(w, q) \in Bytes
  <2>1. Len(q) \in Nat /\ (q # << >> => Len(q) # 0)
    OBVIOUS
  <2>2. \A n \in Nat : n # 0 /\ n <= 2 => n = 1 \/ n = 2
    OBVIOUS
  <2>3. q # << >> => Len(q) = 1 \/ Len(q) = 2
    BY <2>1, <2>2
  <2>4. ASSUME Len(q) = 1 PROVE From(w, q) \in Bytes
    BY <2>4, FromShort
  <2>5. ASSUME Len(q) = 2 PROVE From(w, q) \in Bytes
    <3>1. From(w, q) = Own(w, q[1]) \o Own(w, q[2]) /\ Own(w, q[1]) \in Bytes /\ Own(w, q[2]) \in Bytes
      BY <2>5, FromShort
    <3> QED
      BY <3>1, Concatenation
  <2> QED
    BY <2>3, <2>4, <2>5
<1> QED
    BY <1>1, <1>2, <1>3

LEMMA WritersTags == "kernel" \in Writers /\ "handler" \in Writers /\ Writers \subseteq Tags
                     /\ NOBODY \in Tags /\ NOBODY \notin Writers
                     /\ \A w \in Writers : w = "kernel" \/ w = "handler"
    BY DEF Writers, Tags, NOBODY

(* What a writer has in the queue and what it owes is all that is due.     *)
LEMMA OwedType ==
    ASSUME PortInv, NEW v \in Writers
    PROVE  Owed(v) \in Bytes /\ From(v, queue) \in Bytes /\ due[v] = From(v, queue) \o Owed(v)
<1>1. sending[v] \in Bytes /\ (v = "kernel" /\ spoilt => sending[v] # << >>)
    BY DEF PortInv
<1>2. sending[v] # << >> => Tail(sending[v]) \in Bytes
    BY <1>1, Concatenation
<1>3. Owed(v) \in Bytes
    BY <1>1, <1>2 DEF Owed
<1>4. From(v, queue) \in Bytes
    BY FromType DEF PortInv
<1> QED
    BY <1>3, <1>4 DEF PortInv, NothingLost

LEMMA PrintfPort ==
    ASSUME PortInv, NEW w \in Writers, NEW text \in Bytes, sending[w] = << >>,
           phase # "off", phase' = phase, active' \in BOOLEAN,
           w = "handler" => text # << >>, w = "kernel" => active' = active,
           ~active' => sending'["handler"] = << >>, serial_printf(w, text)
    PROVE  PortInv'
<1>1. /\ sending' = [sending EXCEPT ![w] = text] /\ due' = [due EXCEPT ![w] = @ \o text]
      /\ depth' = depth /\ queue' = queue /\ at' = at /\ spoilt' = spoilt
    BY DEF serial_printf
<1>2. /\ queue \in Seq(Tags \X Int) /\ Len(queue) <= 2
      /\ sending \in [Writers -> Bytes] /\ due \in [Writers -> Bytes]
      /\ at \in [Writers -> {"poll", "busy", "out"}] /\ spoilt \in BOOLEAN
    BY DEF PortInv
<1>3. due[w] \o text \in Bytes
    BY <1>2, Concatenation
<1>4. sending' \in [Writers -> Bytes] /\ due' \in [Writers -> Bytes]
    BY <1>1, <1>2, <1>3
<1>5. ASSUME NEW v \in Writers, at'[v] # "poll" PROVE sending'[v] # << >>
    BY <1>1, <1>2, <1>5 DEF PortInv
<1>6. spoilt' => sending'["kernel"] # << >>
    BY <1>1, <1>2, WritersTags DEF PortInv
<1>7. ASSUME NEW v \in Writers PROVE due'[v] = From(v, queue) \o Owed(v)'
  <2>1. due[v] = From(v, queue) \o Owed(v) /\ From(v, queue) \in Bytes
    BY OwedType
  <2>2. CASE v # w
    <3>1. due'[v] = due[v] /\ Owed(v)' = Owed(v)
      BY <1>1, <1>2, <2>2 DEF Owed
    <3> QED
      BY <2>1, <3>1
  <2>3. CASE v = w
    <3>1. ~(v = "kernel" /\ spoilt)
      BY <2>3 DEF PortInv
    <3>2. Owed(v) = << >> /\ Owed(v)' = text
      BY <1>1, <1>2, <2>3, <3>1 DEF Owed
    <3>3. due[w] = From(w, queue)
      BY <2>1, <2>3, <3>2, Concatenation
    <3>4. due'[w] = due[w] \o text
      BY <1>1, <1>2
    <3> QED
      BY <2>3, <3>2, <3>3, <3>4
  <2> QED
    BY <2>2, <2>3
<1>8. NothingLost'
    BY <1>1, <1>7 DEF NothingLost
<1>9. active' /\ sending'["handler"] = << >> => Len(queue') <= 1
  <2>1. CASE w = "handler"
    BY <1>1, <1>2, <2>1, WritersTags
  <2>2. CASE w = "kernel"
    <3>1. sending'["handler"] = sending["handler"] /\ active' = active /\ queue' = queue
      BY <1>1, <1>2, <2>2, WritersTags
    <3> QED
      BY <3>1 DEF PortInv
  <2> QED
    BY <2>1, <2>2, WritersTags
<1>10. /\ depth' = IF phase' = "off" THEN 1 ELSE FIFO
       /\ at'["handler"] = "out" => queue' = << >>
       /\ at'["kernel"] = "out" => Len(queue') <= 1
    BY <1>1 DEF PortInv
<1> QED
    BY <1>1, <1>2, <1>4, <1>5, <1>6, <1>8, <1>9, <1>10 DEF PortInv

(* A step that moves nothing but a writer.                                 *)
LEMMA AtPort ==
    ASSUME PortInv, NEW w \in Writers, NEW place \in {"poll", "busy", "out"},
           sending[w] # << >>, at' = [at EXCEPT ![w] = place],
           place = "out" => IF w = "handler" THEN queue = << >> ELSE Len(queue) <= 1,
           phase' = phase, ifl' = ifl, then' = then,
           active' \in BOOLEAN, active' => active, ~active' => sending["handler"] = << >>,
           UNCHANGED <<depth, queue, sending, due, spoilt>>
    PROVE  PortInv'
<1>1. /\ depth' = depth /\ queue' = queue /\ sending' = sending /\ due' = due /\ spoilt' = spoilt
      /\ at \in [Writers -> {"poll", "busy", "out"}]
    BY DEF PortInv
<1>2. NothingLost'
  <2>1. \A v \in Writers : Owed(v)' = Owed(v)
    BY <1>1 DEF Owed
  <2> QED
    BY <1>1, <2>1 DEF PortInv, NothingLost
<1>3. at' \in [Writers -> {"poll", "busy", "out"}]
    BY <1>1
<1>4. \A v \in Writers : at'[v] # "poll" => sending'[v] # << >>
    BY <1>1 DEF PortInv
<1>5. at'["handler"] = "out" => queue' = << >>
    BY <1>1, WritersTags DEF PortInv
<1>6. at'["kernel"] = "out" => Len(queue') <= 1
    BY <1>1, WritersTags DEF PortInv
<1>7. phase' # "off"
    BY DEF PortInv
<1>8. /\ ~active' => sending'["handler"] = << >>
      /\ active' /\ sending'["handler"] = << >> => Len(queue') <= 1
    BY <1>1 DEF PortInv
<1>9. /\ depth' = FIFO /\ queue' \in Seq(Tags \X Int) /\ Len(queue') <= 2
      /\ sending' \in [Writers -> Bytes] /\ due' \in [Writers -> Bytes]
      /\ spoilt' \in BOOLEAN /\ (spoilt' => sending'["kernel"] # << >>)
    BY <1>1, <1>7 DEF PortInv
<1> QED
    BY <1>2, <1>3, <1>4, <1>5, <1>6, <1>7, <1>8, <1>9 DEF PortInv

LEMMA PollPort ==
    ASSUME PortInv, NEW w \in Writers, inb(w) \/ Again(w), active' = active, active \in BOOLEAN,
           phase' = phase, ifl' = ifl, then' = then
    PROVE  PortInv'
<1>1. UNCHANGED <<depth, queue, sending, due, spoilt>> /\ sending[w] # << >>
    BY DEF inb, Again, PortInv
<1>2. ~active' => sending["handler"] = << >>
    BY DEF PortInv
<1>3. CASE inb(w)
  <2>1. CASE queue = << >>
    <3>1. at' = [at EXCEPT ![w] = "out"] /\ Len(queue) <= 1
      BY <1>3, <2>1 DEF inb, serial_transmit_empty
    <3>2. "out" \in {"poll", "busy", "out"}
      OBVIOUS
    <3> QED
      BY <1>1, <1>2, <2>1, <3>1, <3>2, AtPort
  <2>2. CASE queue # << >>
    <3>1. at' = [at EXCEPT ![w] = "busy"]
      BY <1>3, <2>2 DEF inb, serial_transmit_empty
    <3>2. "busy" \in {"poll", "busy", "out"} /\ "busy" # "out"
      OBVIOUS
    <3> QED
      BY <1>1, <1>2, <3>1, <3>2, AtPort
  <2> QED
    BY <2>1, <2>2
<1>4. CASE Again(w)
  <2>1. at' = [at EXCEPT ![w] = "poll"]
    BY <1>4 DEF Again
  <2>2. "poll" \in {"poll", "busy", "out"} /\ "poll" # "out"
    OBVIOUS
  <2> QED
    BY <1>1, <1>2, <2>1, <2>2, AtPort
<1> QED
    BY <1>3, <1>4

LEMMA OutbPort ==
    ASSUME PortInv, NEW w \in Writers, w = "kernel" => ~active, active' = active,
           phase' = phase, ifl' = ifl, then' = then, outb(w)
    PROVE  PortInv'
<1> DEFINE b == Head(sending[w])
           t == Tail(sending[w])
           hit == w = "kernel" /\ spoilt
           u == IF hit THEN NOBODY ELSE w
<1>1. /\ at[w] = "out"
      /\ queue' = IF Len(queue) < depth /\ ~(hit /\ b = ELSEWHERE) THEN Append(queue, <<u, b>>) ELSE queue
      /\ sending' = [sending EXCEPT ![w] = t] /\ at' = [at EXCEPT ![w] = "poll"]
      /\ spoilt' = (spoilt /\ ~hit)
      /\ depth' = depth /\ due' = due
    BY DEF outb
<1>2. /\ queue \in Seq(Tags \X Int)
      /\ sending \in [Writers -> Bytes] /\ due \in [Writers -> Bytes]
      /\ at \in [Writers -> {"poll", "busy", "out"}] /\ spoilt \in BOOLEAN /\ active \in BOOLEAN
      /\ \A v \in Writers : at[v] # "poll" => sending[v] # << >>
    BY DEF PortInv
<1>3. Len(queue) <= 1 /\ (w = "handler" => Len(queue) = 0)
  <2>1. w = "handler" => queue = << >>
    BY <1>1 DEF PortInv
  <2>2. w = "kernel" => Len(queue) <= 1
    BY <1>1 DEF PortInv
  <2>3. Len(<< >>) = 0 /\ 0 <= 1
    OBVIOUS
  <2> QED
    BY <2>1, <2>2, <2>3, WritersTags
<1>4. sending[w] \in Bytes /\ sending[w] # << >> /\ phase # "off" /\ depth = FIFO
    BY <1>1, <1>2 DEF PortInv
<1>5. b \in Int /\ t \in Bytes
    BY <1>4, Concatenation
<1>6. Len(queue) < depth
  <2>1. FIFO \in Nat /\ FIFO >= 2 /\ Len(queue) \in Nat
    BY <1>2, SerialAssumption
  <2> QED
    BY <1>3, <1>4, <2>1
<1>7. u \in Tags /\ hit \in BOOLEAN
    BY <1>2, WritersTags
<1>8. sending' \in [Writers -> Bytes]
    BY <1>1, <1>2, <1>5
<1> HIDE DEF b, t
<1>9. ASSUME NEW v \in Writers
      PROVE  /\ queue' \in Seq(Tags \X Int) /\ Len(queue') <= Len(queue) + 1
             /\ From(v, queue') = IF ~hit /\ w = v THEN From(v, queue) \o <<b>> ELSE From(v, queue)
  <2>1. /\ Append(queue, <<u, b>>) \in Seq(Tags \X Int)
        /\ Len(Append(queue, <<u, b>>)) = Len(queue) + 1
        /\ From(v, Append(queue, <<u, b>>)) = IF u = v THEN From(v, queue) \o <<b>> ELSE From(v, queue)
    <3> HIDE DEF u
    <3> QED
      BY <1>2, <1>3, <1>5, <1>7, FromAppend, Zenon
  <2>2. u = v <=> ~hit /\ w = v
    BY WritersTags
  <2>3. Len(queue) \in Nat /\ Len(queue) <= Len(queue) + 1
    BY <1>2
  <2> DEFINE r == Append(queue, <<u, b>>)
  <2>4. queue' = r \/ (hit /\ queue' = queue)
    BY <1>1, <1>6
  <2>5. Len(r) = Len(queue) + 1 => Len(r) <= Len(queue) + 1
    BY <2>3
  <2> HIDE DEF r, u, hit
  <2>6. CASE queue' = r
    BY <2>1, <2>2, <2>5, <2>6 DEF r
  <2>7. CASE hit /\ queue' = queue
    BY <1>2, <2>3, <2>7
  <2> QED
    BY <2>4, <2>6, <2>7
<1>10. ASSUME NEW v \in Writers PROVE due'[v] = From(v, queue') \o Owed(v)'
  <2>1. due[v] = From(v, queue) \o Owed(v) /\ From(v, queue) \in Bytes
    BY OwedType
  <2>2. CASE v # w
    <3>1. sending'[v] = sending[v]
      BY <1>1, <1>2, <2>2
    <3>2. v = "kernel" => spoilt' = spoilt
      BY <1>1, <1>2, <2>2
    <3>3. Owed(v)' = Owed(v)
      BY <3>1, <3>2 DEF Owed
    <3> QED
      BY <1>1, <1>9, <2>1, <2>2, <3>3
  <2>3. CASE v = w
    <3>1. sending'[v] = t
      BY <1>1, <1>2, <2>3
    <3>2. ~(v = "kernel" /\ spoilt')
      BY <1>1, <2>3
    <3>3. Owed(v)' = t
      BY <3>1, <3>2 DEF Owed
    <3>4. CASE hit
      <4>1. Owed(v) = t
        BY <2>3, <3>4 DEF Owed, t
      <4> QED
        BY <1>1, <1>9, <2>1, <3>3, <3>4, <4>1
    <3>5. CASE ~hit
      <4>1. Owed(v) = sending[w]
        BY <2>3, <3>5 DEF Owed
      <4>2. (From(v, queue) \o <<b>>) \o t = From(v, queue) \o sending[w]
        BY <1>4, <2>1, Concatenation DEF b, t
      <4> HIDE DEF hit
      <4> QED
        BY <1>1, <1>9, <2>1, <2>3, <3>3, <3>5, <4>1, <4>2
    <3> QED
      BY <3>4, <3>5
  <2> QED
    BY <2>2, <2>3
<1>11. NothingLost'
    BY <1>10 DEF NothingLost
<1>12. queue' \in Seq(Tags \X Int) /\ Len(queue') <= 2 /\ (w = "handler" => Len(queue') <= 1)
  <2>1. Len(queue') <= Len(queue) + 1 /\ queue' \in Seq(Tags \X Int) /\ Len(queue) \in Nat
    BY <1>2, <1>9, WritersTags
  <2>2. Len(queue') \in Nat
    BY <2>1
  <2> QED
    BY <1>3, <2>1, <2>2
<1>13. /\ at' \in [Writers -> {"poll", "busy", "out"}]
       /\ \A v \in Writers : at'[v] # "poll" => sending'[v] # << >>
    BY <1>1, <1>2
<1>14. spoilt' \in BOOLEAN /\ (spoilt' => sending'["kernel"] # << >>)
  <2>1. spoilt' => w # "kernel" /\ spoilt
    BY <1>1, <1>2
  <2>2. w # "kernel" => sending'["kernel"] = sending["kernel"]
    BY <1>1, <1>2, WritersTags
  <2> QED
    BY <1>1, <1>2, <2>1, <2>2 DEF PortInv
<1>15. at'["handler"] # "out"
  <2>1. CASE w = "handler"
    BY <1>1, <1>2, <2>1
  <2>2. CASE w = "kernel"
    <3>1. sending["handler"] = << >>
      BY <2>2 DEF PortInv
    <3>2. at["handler"] = "poll"
      BY <1>2, <3>1, WritersTags
    <3> QED
      BY <1>1, <1>2, <2>2, <3>2, WritersTags
  <2> QED
    BY <2>1, <2>2, WritersTags
<1>16. at'["kernel"] = "out" => Len(queue') <= 1
  <2>1. w = "kernel" => at'["kernel"] # "out"
    BY <1>1, <1>2
  <2> QED
    BY <1>12, <2>1, WritersTags
<1>17. ~active' => sending'["handler"] = << >>
  <2>1. ASSUME ~active PROVE w = "kernel" /\ sending["handler"] = << >>
    BY <1>2, <1>4, <2>1, WritersTags DEF PortInv
  <2>2. w = "kernel" => sending'["handler"] = sending["handler"]
    BY <1>1, <1>2, WritersTags
  <2> QED
    BY <2>1, <2>2
<1>18. active' /\ sending'["handler"] = << >> => Len(queue') <= 1
    BY <1>12, WritersTags
<1>19. phase' # "off" /\ depth' = FIFO /\ due' \in [Writers -> Bytes]
    BY <1>1, <1>2, <1>4
<1> QED
    BY <1>8, <1>11, <1>12, <1>13, <1>14, <1>15, <1>16, <1>17, <1>18, <1>19 DEF PortInv

LEMMA TransmitPort ==
    ASSUME PortInv, phase' = phase, ifl' = ifl, then' = then, active' = active, Transmit
    PROVE  PortInv'
<1> DEFINE u == Head(queue)[1]
           b == Head(queue)[2]
<1>1. /\ queue # << >> /\ queue' = Tail(queue)
      /\ due' = [v \in Writers |-> IF v = u THEN Tail(due[v]) ELSE due[v]]
      /\ depth' = depth /\ sending' = sending /\ at' = at /\ spoilt' = spoilt
    BY DEF Transmit
<1>2. /\ queue \in Seq(Tags \X Int) /\ Len(queue) <= 2
      /\ sending \in [Writers -> Bytes] /\ due \in [Writers -> Bytes]
      /\ phase # "off" /\ depth = FIFO
    BY <1>1 DEF PortInv
<1>3. ASSUME NEW v \in Writers
      PROVE  /\ u \in Tags /\ b \in Int
             /\ queue' \in Seq(Tags \X Int) /\ Len(queue') = Len(queue) - 1
             /\ From(v, queue') \in Bytes
             /\ From(v, queue) = IF u = v THEN <<b>> \o From(v, queue') ELSE From(v, queue')
    BY <1>1, <1>2, FromTail
<1> HIDE DEF u, b
<1>4. u \in Tags /\ b \in Int /\ queue' \in Seq(Tags \X Int) /\ Len(queue') = Len(queue) - 1
    BY <1>3, WritersTags
<1>5. ASSUME NEW v \in Writers
      PROVE  due'[v] = From(v, queue') \o Owed(v)' /\ due'[v] \in Bytes
  <2> DEFINE x == From(v, queue')
             y == Owed(v)
  <2>1. due[v] = From(v, queue) \o y /\ y \in Bytes
    BY OwedType
  <2>2. Owed(v)' = y
    BY <1>1 DEF Owed
  <2>3. x \in Bytes
    BY <1>3
  <2> HIDE DEF x, y
  <2>4. x \o y \in Bytes
    BY <2>1, <2>3, Concatenation
  <2>5. CASE v # u
    <3>1. due'[v] = due[v] /\ From(v, queue) = x
      BY <1>1, <1>3, <2>5 DEF x
    <3> QED
      BY <2>1, <2>2, <2>4, <3>1 DEF x
  <2>6. CASE v = u
    <3>1. due'[v] = Tail(due[v]) /\ From(v, queue) = <<b>> \o x
      BY <1>1, <1>3, <2>6 DEF x
    <3>2. <<b>> \in Bytes
      BY <1>4, Concatenation
    <3>3. (<<b>> \o x) \o y = <<b>> \o (x \o y)
      BY <2>1, <2>3, <3>2, ConcatAssoc
    <3>4. Tail(<<b>> \o (x \o y)) = x \o y
      BY <1>4, <2>4, TailOfCons
    <3>5. due'[v] = x \o y
      BY <2>1, <3>1, <3>3, <3>4
    <3> QED
      BY <2>2, <2>4, <3>5 DEF x
  <2> QED
    BY <2>5, <2>6
<1>6. due' \in [Writers -> Bytes]
  <2>1. due' = [v \in Writers |-> due'[v]]
    BY <1>1
  <2> QED
    BY <1>5, <2>1
<1>7. Len(queue') <= 1
  <2>1. Len(queue) \in Nat
    BY <1>2
  <2> QED
    BY <1>2, <1>4, <2>1
<1>8. Len(queue') <= 2
  <2>1. Len(queue') \in Nat
    BY <1>4
  <2> QED
    BY <1>7, <2>1
<1>9. at'["handler"] # "out"
    BY <1>1 DEF PortInv
<1>10. NothingLost'
    BY <1>5 DEF NothingLost
<1>11. /\ at' \in [Writers -> {"poll", "busy", "out"}]
       /\ \A v \in Writers : at'[v] # "poll" => sending'[v] # << >>
       /\ spoilt' \in BOOLEAN /\ (spoilt' => sending'["kernel"] # << >>)
       /\ ~active' => sending'["handler"] = << >>
       /\ phase' # "off" /\ depth' = FIFO /\ sending' \in [Writers -> Bytes]
    BY <1>1, <1>2 DEF PortInv
<1> QED
    BY <1>4, <1>6, <1>7, <1>8, <1>9, <1>10, <1>11 DEF PortInv

(* What the stub's return does.                                            *)
LEMMA StatusHitPort ==
    ASSUME PortInv, active, sending["handler"] = << >>, active' = FALSE,
           phase' = phase, ifl' = ifl, then' = then, StatusHit
    PROVE  PortInv'
<1>1. /\ UNCHANGED <<depth, queue, sending, due, spoilt>> /\ sending["kernel"] # << >>
      /\ at' = [at EXCEPT !["kernel"] = "out"]
    BY DEF StatusHit
<1>2. Len(queue) <= 1
    BY DEF PortInv
<1>3. "out" \in {"poll", "busy", "out"} /\ "kernel" # "handler" /\ active' \in BOOLEAN
    OBVIOUS
<1> QED
    BY <1>1, <1>2, <1>3, AtPort, WritersTags

LEMMA Prefix ==
    ASSUME NEW s \in Bytes, NEW t \in Bytes
    PROVE  Len(s \o t) - Len(t) = Len(s) /\ SubSeq(s \o t, 1, Len(s)) = s
<1> USE DEF Bytes
<1>1. Len(s) \in Nat /\ Len(t) \in Nat /\ s \o t \in Seq(Int) /\ Len(s \o t) = Len(s) + Len(t)
    OBVIOUS
<1>2. \A i \in 1 .. Len(s) : (s \o t)[i] = s[i]
    OBVIOUS
<1> DEFINE st == s \o t
           p == SubSeq(st, 1, Len(s))
<1> HIDE DEF st
<1>3. st \in Seq(Int) /\ Len(st) = Len(s) + Len(t) /\ \A i \in 1 .. Len(s) : st[i] = s[i]
    BY <1>1, <1>2 DEF st
<1>4. p \in Seq(Int) /\ Len(p) = Len(s) /\ \A i \in 1 .. Len(s) : p[i] = st[i]
    BY <1>1, <1>3
<1> HIDE DEF p
<1>5. p = s
  <2>1. s = [i \in 1 .. Len(s) |-> s[i]] /\ p = [i \in 1 .. Len(s) |-> p[i]]
    BY <1>4
  <2>2. \A i \in 1 .. Len(s) : p[i] = s[i]
    BY <1>3, <1>4
  <2> QED
    BY <2>1, <2>2
<1> QED
    BY <1>1, <1>5 DEF p, st

LEMMA ByteHitPort ==
    ASSUME PortInv, active, sending["handler"] = << >>, active' = FALSE,
           phase' = phase, ifl' = ifl, then' = then, NEW h \in Int, ByteHit(h)
    PROVE  PortInv'
<1> DEFINE s == sending["kernel"]
           t == Tail(s)
           d == due["kernel"]
           n == Len(d) - Len(s)
<1>1. /\ s # << >> /\ at["kernel"] # "busy"
      /\ sending' = [sending EXCEPT !["kernel"] = <<h>> \o t] /\ spoilt' = TRUE
      /\ due' = IF spoilt THEN due ELSE [due EXCEPT !["kernel"] = SubSeq(d, 1, n) \o t]
      /\ depth' = depth /\ queue' = queue /\ at' = at
    BY DEF ByteHit
<1>2. /\ queue \in Seq(Tags \X Int) /\ Len(queue) <= 2
      /\ sending \in [Writers -> Bytes] /\ due \in [Writers -> Bytes]
      /\ at \in [Writers -> {"poll", "busy", "out"}] /\ spoilt \in BOOLEAN
    BY DEF PortInv
<1>3. s \in Bytes /\ t \in Bytes /\ <<h>> \in Bytes
  <2>1. s \in Bytes
    BY <1>2, WritersTags
  <2> QED
    BY <1>1, <2>1, Concatenation
<1> HIDE DEF s, t, n
<1>4. <<h>> \o t \in Bytes /\ Tail(<<h>> \o t) = t /\ <<h>> \o t # << >>
  <2>1. <<h>> \o t \in Bytes /\ Tail(<<h>> \o t) = t
    BY <1>3, Concatenation, TailOfCons
  <2>2. <<h>> \o t # << >>
    BY <1>3 DEF Bytes
  <2> QED
    BY <2>1, <2>2
<1> DEFINE q == From("kernel", queue)
<1>5. q \in Bytes /\ d = q \o Owed("kernel") /\ due["handler"] = From("handler", queue) \o Owed("handler")
    BY OwedType, WritersTags
<1> HIDE DEF q, d
<1>6. due'["kernel"] = q \o t /\ due'["handler"] = due["handler"]
  <2>1. CASE spoilt
    <3>1. Owed("kernel") = t
      BY <2>1 DEF Owed, s, t
    <3> QED
      BY <1>1, <1>5, <2>1, <3>1 DEF d
  <2>2. CASE ~spoilt
    <3>1. Owed("kernel") = s
      BY <2>2 DEF Owed, s
    <3>2. n = Len(q) /\ SubSeq(d, 1, n) = q
      BY <1>3, <1>5, <3>1, Prefix DEF n
    <3>3. due' = [due EXCEPT !["kernel"] = q \o t]
      BY <1>1, <2>2, <3>2
    <3> QED
      BY <1>2, <3>3, WritersTags
  <2> QED
    BY <1>2, <2>1, <2>2
<1>7. sending'["kernel"] = <<h>> \o t /\ sending'["handler"] = sending["handler"]
    BY <1>1, <1>2, WritersTags
<1>8. Owed("kernel")' = t /\ Owed("handler")' = Owed("handler")
    BY <1>1, <1>4, <1>7 DEF Owed
<1>9. NothingLost'
  <2>1. due'["kernel"] = From("kernel", queue') \o Owed("kernel")'
    BY <1>1, <1>6, <1>8 DEF q
  <2>2. due'["handler"] = From("handler", queue') \o Owed("handler")'
    BY <1>1, <1>5, <1>6, <1>8
  <2> QED
    BY <2>1, <2>2, WritersTags, Zenon DEF NothingLost
<1>10. sending' \in [Writers -> Bytes]
    BY <1>1, <1>2, <1>4
<1>11. due' \in [Writers -> Bytes]
  <2>1. q \o t \in Bytes
    BY <1>3, <1>5, Concatenation
  <2>2. due' = [v \in Writers |-> due'[v]]
    BY <1>1, <1>2
  <2>3. \A v \in Writers : due'[v] \in Bytes
    BY <1>2, <1>6, <2>1, WritersTags
  <2> QED
    BY <2>2, <2>3
<1>12. \A v \in Writers : at'[v] # "poll" => sending'[v] # << >>
  <2>1. \A v \in Writers : at[v] # "poll" => sending[v] # << >>
    BY DEF PortInv
  <2> QED
    BY <1>1, <1>4, <1>7, <2>1, WritersTags
<1>13. phase # "off"
    BY DEF PortInv
<1>14. /\ depth' = FIFO
       /\ at'["handler"] = "out" => queue' = << >>
       /\ at'["kernel"] = "out" => Len(queue') <= 1
       /\ sending'["handler"] = << >> /\ sending'["kernel"] # << >>
    BY <1>1, <1>4, <1>7, <1>13 DEF PortInv
<1> QED
    BY <1>1, <1>2, <1>9, <1>10, <1>11, <1>12, <1>13, <1>14 DEF PortInv

(* No byte is hit.                                                         *)
LEMMA ReturnPort ==
    ASSUME PortInv, active, sending["handler"] = << >>, active' = FALSE,
           phase' = phase, ifl' = ifl, then' = then, UNCHANGED serial
    PROVE  PortInv'
    BY DEF PortInv, NothingLost, Owed, serial

-----------------------------------------------------------------------------
(* The steps.                                                              *)

LEMMA SeqElements ==
    ASSUME NEW S, NEW s \in Seq(S)
    PROVE  /\ Len(s) \in Nat /\ DOMAIN s = 1 .. Len(s) /\ s \in [1 .. Len(s) -> S]
           /\ \A i \in 1 .. Len(s) : s[i] \in S
           /\ s # << >> => Head(s) \in S /\ s[1] \in S
    OBVIOUS

LEMMA SeqSubset ==
    ASSUME NEW S, NEW U, S \subseteq U, NEW s \in Seq(S)
    PROVE  s \in Seq(U)
<1>1. Len(s) \in Nat /\ s \in [1 .. Len(s) -> S]
    OBVIOUS
<1>2. s \in [1 .. Len(s) -> U]
    BY <1>1
<1> QED
    BY <1>1, <1>2

LEMMA TextsType ==
    /\ \A n \in Int : /\ itoa_dec(n) \in Bytes /\ itoa_hex(n) \in Bytes /\ <<n>> \in Bytes
                      /\ <<ZERO, LETTER.x>> \o itoa_hex(n) \in Bytes
    /\ <<PERCENT>> \in Bytes /\ <<PERCENT, LF>> \in Bytes
<1>1. \A n \in Int : itoa_dec(n) \in Bytes /\ itoa_hex(n) \in Bytes /\ <<n>> \in Bytes
    BY DecType, HexRead DEF Bytes
<1>2. <<ZERO, LETTER.x>> \in Bytes /\ <<PERCENT>> \in Bytes /\ <<PERCENT, LF>> \in Bytes
    BY DEF Bytes, ZERO, LETTER, PERCENT, LF
<1> QED
    BY <1>1, <1>2, Concatenation

(* Every format with a number, a character and a string.                   *)
LEMMA PrintedType ==
    /\ \A f \in Formats, n \in Int : serial_vprintf(f, <<n>>) \in Bytes
    /\ \A n \in Int : serial_vprintf(<<PERCENT, LETTER.d>>, <<n>>) \in Bytes
    /\ \A n \in Int : serial_vprintf(<<PERCENT, LETTER.x>>, <<n>>) \in Bytes
    /\ \A n \in Int : serial_vprintf(<<PERCENT, LETTER.c>>, <<n>>) \in Bytes
    /\ \A s \in Bytes : serial_vprintf(<<PERCENT, LETTER.s>>, <<s>>) \in Bytes
<1>1. \A s \in Bytes : << >> \o s \in Bytes
    BY Concatenation
<1>2. ASSUME NEW n \in Int
      PROVE  /\ serial_vprintf(<<PERCENT, LETTER.d>>, <<n>>) \in Bytes
             /\ serial_vprintf(<<PERCENT, LETTER.x>>, <<n>>) \in Bytes
             /\ serial_vprintf(<<PERCENT, LETTER.c>>, <<n>>) \in Bytes
             /\ serial_vprintf(<<PERCENT, LETTER.p>>, <<n>>) \in Bytes
             /\ serial_vprintf(<<PERCENT, PERCENT>>, <<n>>) \in Bytes
             /\ serial_vprintf(<<PERCENT, LF>>, <<n>>) \in Bytes
    BY <1>1, TextsType, Printed
<1>3. \A s \in Bytes : serial_vprintf(<<PERCENT, LETTER.s>>, <<s>>) \in Bytes
    BY <1>1, Printed
<1>4. \A f \in Formats, n \in Int : serial_vprintf(f, <<n>>) \in Bytes
  <2>1. ASSUME NEW f \in Formats, NEW n \in Int PROVE serial_vprintf(f, <<n>>) \in Bytes
    <3>1. \/ f = <<PERCENT, LETTER.d>> \/ f = <<PERCENT, LETTER.x>> \/ f = <<PERCENT, LETTER.p>>
          \/ f = <<PERCENT, PERCENT>> \/ f = <<PERCENT, LF>>
      BY DEF Formats
    <3> QED
      BY <1>2, <3>1, Zenon
  <2> QED
    BY <2>1
<1> QED
    BY <1>2, <1>3, <1>4

(* A number has a digit.                                                   *)
LEMMA HexSome ==
    ASSUME NEW n \in Int
    PROVE  serial_vprintf(<<PERCENT, LETTER.x>>, <<n>>) # << >>
<1> DEFINE m == n % 2 ^ BITS
<1>1. m \in Nat
    BY PowerPositive
<1> HIDE DEF m
<1>2. hex_digits[m \div 16] \in Seq(Int) /\ hex(m % 16) \in Int /\ hex(m) \in Int
  <2>1. m \div 16 \in Nat /\ m % 16 \in Nat
    BY <1>1
  <2> QED
    BY <1>1, <2>1, HexDigitsDef DEF hex, ZERO
<1>3. hex_digits[m] # << >>
  <2>1. Append(hex_digits[m \div 16], hex(m % 16)) # << >> /\ <<hex(m)>> # << >>
    BY <1>2
  <2> QED
    BY <1>1, <2>1, HexDigitsDef
<1>4. serial_vprintf(<<PERCENT, LETTER.x>>, <<n>>) = itoa_hex(n)
    BY Printed, TextsType, Concatenation
<1> QED
    BY <1>3, <1>4 DEF itoa_hex, m

LEMMA PrintableChars ==
    /\ Printable \subseteq 0 .. 127 /\ Chars \subseteq Printable
    /\ \A str \in Strings \cup {USER} : str \in Seq(Printable)
<1>1. ASSUME NEW str \in Strings \cup {USER}
      PROVE  str \in Seq(Printable) /\ Range(str) \subseteq 0 .. 127
  <2>1. str \in Seq(0 .. 127)
    BY OutputAssumption
  <2>2. Len(str) \in Nat /\ DOMAIN str = 1 .. Len(str) /\ str \in [1 .. Len(str) -> 0 .. 127]
    BY <2>1, SeqElements
  <2>3. \A i \in 1 .. Len(str) : str[i] \in Range(str)
    BY <2>2 DEF Range
  <2>4. Range(str) \subseteq Printable
    BY DEF Printable
  <2>5. str \in [1 .. Len(str) -> Printable]
    BY <2>2, <2>3, <2>4
  <2>6. str \in Seq(Printable)
    BY <2>2, <2>5
  <2> QED
    BY <2>2, <2>6 DEF Range
<1>2. NUL \in 0 .. 127 /\ LF \in 0 .. 127 /\ Chars \subseteq 0 .. 127
    BY OutputAssumption DEF NUL, LF
<1>3. UNION {Range(str) : str \in Strings \cup {USER}} \subseteq 0 .. 127
    BY <1>1
<1> QED
    BY <1>1, <1>2, <1>3 DEF Printable

LEMMA RestsType ==
    /\ Nothing \in Rests /\ Clear \in Rests
    /\ \A c \in Chars : Write(<<<<c>>>>) \in Rests
    /\ \A str \in Strings : Write(user_texts(str)) \in Rests /\ Write(putchars(str)) \in Rests
<1> DEFINE Texts == Seq(Printable)
<1>1. \A t \in Seq(Texts) : Write(t) \in Rests
    BY DEF Write, Rests
<1>2. Nothing \in Rests /\ Clear \in Rests
    BY DEF Nothing, Clear, Rests
<1>3. \A c \in Chars : <<<<c>>>> \in Seq(Texts)
    BY PrintableChars
<1>4. ASSUME NEW str \in Strings PROVE user_texts(str) \in Seq(Texts)
  <2>1. NUL \in Printable /\ LF \in Printable
    BY DEF Printable
  <2>2. \A s \in Texts : puts_text(s) \in Texts
    BY <2>1 DEF puts_text
  <2>3. USER \in Texts /\ <<LF>> \in Texts /\ str \in Texts
    BY <2>1, PrintableChars
  <2> HIDE DEF Texts
  <2>4. puts_text(USER) \in Texts /\ puts_text(str) \in Texts /\ puts_text(<<LF>>) \in Texts
    BY <2>2, <2>3
  <2> QED
    BY <2>4 DEF user_texts
<1>5. ASSUME NEW str \in Strings PROVE putchars(str) \in Seq(Texts)
  <2>1. str \in Seq(Printable)
    BY PrintableChars
  <2>2. Len(str) \in Nat /\ DOMAIN str = 1 .. Len(str)
    BY <2>1
  <2>3. ASSUME NEW i \in 1 .. Len(str) PROVE <<str[i]>> \in Texts
    <3>1. str[i] \in Printable
      BY <2>1, SeqElements
    <3> QED
      BY <3>1
  <2> HIDE DEF Texts
  <2>4. putchars(str) \in [1 .. Len(str) -> Texts]
    BY <2>2, <2>3 DEF putchars
  <2> QED
    BY <2>2, <2>4
<1> HIDE DEF Texts
<1> QED
    BY <1>1, <1>2, <1>3, <1>4, <1>5

(* The display is left alone, and so is the screen when no call is over.   *)
LEMMA DisplayStays ==
    ASSUME DisplayInv, UNCHANGED display,
           cursor_pos' = cursor_pos \/ (outputs = << >> /\ then' # Nothing),
           phase' # "off" /\ then' = Nothing => phase # "off" /\ then = Nothing
    PROVE  DisplayInv'
<1>1. crtc' = crtc /\ hw_cursor' = hw_cursor /\ outputs' = outputs /\ misplaced' = misplaced
    BY DEF display
<1>2. CursorShown'
    BY <1>1 DEF DisplayInv, CursorShown
<1>3. outputs' # << >> /\ ~misplaced' => Progress'
    BY <1>1 DEF DisplayInv, Progress, LowShown
<1> QED
    BY <1>1, <1>2, <1>3 DEF DisplayInv

LEMMA CallKeeps ==
    ASSUME OutputInv, phase # "off", NEW format, NEW args, NEW rest \in Rests, NEW i \in BOOLEAN,
           serial_vprintf(format, args) \in Bytes, Call(format, args, rest, i)
    PROVE  OutputInv'
<1> DEFINE text == serial_vprintf(format, args)
<1>1. /\ sending["kernel"] = << >> /\ then = Nothing /\ serial_printf("kernel", text)
      /\ then' = rest /\ ifl' = i /\ ~active
      /\ phase' = phase /\ active' = active /\ UNCHANGED screen
    BY DEF Call, Idle
<1> HIDE DEF text
<1>2. text \in Bytes /\ active \in BOOLEAN /\ "kernel" # "handler"
    BY DEF text, OutputInv, PortInv
<1>3. sending'["handler"] = << >>
  <2>1. sending \in [Writers -> Bytes] /\ sending["handler"] = << >>
    BY <1>1 DEF OutputInv, PortInv
  <2> QED
    BY <1>1, <2>1, WritersTags DEF serial_printf
<1>4. PortInv'
    BY <1>1, <1>2, <1>3, PrintfPort, WritersTags DEF OutputInv
<1>5. ScreenInv'
    BY <1>1 DEF OutputInv, ScreenInv, screen
<1>6. DisplayInv'
    BY <1>1, DisplayStays DEF OutputInv, screen, display
<1>7. KernelInv'
    BY <1>1 DEF OutputInv, KernelInv
<1> QED
    BY <1>4, <1>5, <1>6, <1>7 DEF OutputInv

LEMMA PortStays ==
    ASSUME PortInv, UNCHANGED <<serial, active, phase>>, phase # "off"
    PROVE  PortInv'
    BY DEF PortInv, NothingLost, Owed, serial

LEMMA ShowKeeps ==
    ASSUME OutputInv, Show
    PROVE  OutputInv'
<1> DEFINE Texts == Seq(Printable)
<1>1. /\ then \in [texts : Seq(Texts), clear : BOOLEAN]
      /\ ScreenInv /\ DisplayInv /\ PortInv
      /\ phase \in {"off", "console", "boot", "up"} /\ ifl \in BOOLEAN
    BY DEF OutputInv, KernelInv, Rests
<1>2. UNCHANGED <<serial, phase, ifl, active>> /\ outputs = << >>
    BY DEF Show
<1>3. CASE phase = "off"
  <2>1. then = Nothing
    BY <1>3 DEF OutputInv, PortInv
  <2> QED
    BY <2>1 DEF Show, Nothing
<1>4. CASE phase # "off"
  <2>1. PortInv'
    BY <1>1, <1>2, <1>4, PortStays
  <2>2. CASE /\ then.texts # << >> /\ Head(then.texts) # << >>
             /\ fb_write_char(Head(Head(then.texts)))
             /\ then' = [then EXCEPT !.texts[1] = next_char(@)]
    <3> DEFINE t == then.texts
    <3>1. t \in Seq(Texts) /\ t # << >> /\ Head(t) \in Texts /\ Head(t) # << >>
      <4> HIDE DEF Texts
      <4> QED
        BY <1>1, <2>2
    <3>2. Head(Head(t)) \in 0 .. 127
      BY <3>1, SeqElements, PrintableChars
    <3>3. ScreenInv'
      BY <1>1, <2>2, <3>2, CharType
    <3>4. Tail(Head(t)) \in Texts
      BY <3>1
    <3>5. then' = [then EXCEPT !.texts = [t EXCEPT ![1] = Tail(Head(t))]]
      <4> HIDE DEF Texts
      <4>1. t[1] = Head(t)
        BY <3>1
      <4> QED
        BY <1>1, <2>2, <3>1, <4>1 DEF next_char
    <3>6. [t EXCEPT ![1] = Tail(Head(t))] \in Seq(Texts) /\ [t EXCEPT ![1] = Tail(Head(t))] # << >>
      <4> HIDE DEF Texts
      <4> QED
        BY <3>1, <3>4
    <3>7. then' \in Rests /\ then' # Nothing
      BY <1>1, <3>5, <3>6 DEF Rests, Nothing
    <3>8. KernelInv'
      BY <1>1, <1>2, <3>7 DEF KernelInv
    <3>9. UNCHANGED display
      BY <2>2 DEF fb_write_char
    <3>10. DisplayInv'
      BY <1>1, <1>2, <3>7, <3>9, DisplayStays
    <3> QED
      BY <2>1, <3>3, <3>8, <3>10 DEF OutputInv
  <2>3. CASE /\ then.texts # << >> /\ Head(then.texts) = << >>
             /\ fb_write_end
             /\ then' = [then EXCEPT !.texts = Tail(@)]
    <3>1. ScreenInv' /\ fb_set_cursor(cursor_pos')
      BY <1>1, <2>3 DEF fb_write_end, ScreenInv
    <3>2. then' \in Rests
      <4> HIDE DEF Texts
      <4>1. then.texts \in Seq(Texts)
        BY <1>1
      <4>2. Tail(then.texts) \in Seq(Texts)
        BY <2>3, <4>1
      <4>3. then' \in [texts : Seq(Texts), clear : BOOLEAN]
        BY <1>1, <2>3, <4>2
      <4> QED
        BY <4>3 DEF Rests, Texts
    <3>3. KernelInv'
      BY <1>1, <1>2, <3>2 DEF KernelInv
    <3>4. DisplayInv'
      BY <1>1, <3>1, SetCursorKeeps
    <3> QED
      BY <2>1, <3>1, <3>3, <3>4 DEF OutputInv
  <2>4. CASE then.clear /\ fb_clear /\ then' = Nothing
    <3>1. ScreenInv' /\ fb_set_cursor(cursor_pos')
      BY <1>1, <2>4, ClearType
    <3>2. KernelInv'
      BY <1>1, <1>2, <2>4, RestsType DEF KernelInv
    <3>3. DisplayInv'
      BY <1>1, <3>1, SetCursorKeeps
    <3> QED
      BY <2>1, <3>1, <3>2, <3>3 DEF OutputInv
  <2> QED
    BY <2>2, <2>3, <2>4 DEF Show
<1> QED
    BY <1>3, <1>4

LEMMA MoveCursorKeeps ==
    ASSUME OutputInv, MoveCursor
    PROVE  OutputInv'
<1>1. /\ outb_display /\ UNCHANGED <<serial, phase, then, active>>
      /\ ifl' = (ifl \/ (phase = "up" /\ Len(outputs) = 1 /\ then = Nothing))
    BY DEF MoveCursor
<1>2. ScreenInv' /\ DisplayInv'
    BY <1>1, OutbDisplayKeeps DEF OutputInv
<1>3. ifl' \in BOOLEAN /\ (phase = "off" => ifl' = ifl)
    BY <1>1 DEF OutputInv, KernelInv
<1>4. KernelInv'
    BY <1>1, <1>3 DEF OutputInv, KernelInv
<1>5. PortInv'
    BY <1>1, <1>3 DEF OutputInv, PortInv, NothingLost, Owed, serial
<1> QED
    BY <1>2, <1>4, <1>5 DEF OutputInv

LEMMA BootKeeps ==
    ASSUME OutputInv, boot_early_console \/ Decorate \/ boot_interrupts_and_input
    PROVE  OutputInv'
<1>1. CASE boot_early_console
  <2>1. /\ phase = "off" /\ fb_clear /\ phase' = "console" /\ then' = then /\ ifl' = ifl
        /\ depth' = FIFO /\ queue' = queue /\ sending' = sending /\ at' = at /\ due' = due
        /\ spoilt' = spoilt /\ active' = active
    BY <1>1 DEF boot_early_console, fb_init, serial_init
  <2>2. ScreenInv' /\ fb_set_cursor(cursor_pos')
    BY <2>1, ClearType DEF OutputInv
  <2>3. DisplayInv'
    BY <2>2, SetCursorKeeps DEF OutputInv
  <2>4. PortInv'
    BY <2>1 DEF OutputInv, PortInv, NothingLost, Owed
  <2>5. KernelInv'
    BY <2>1 DEF OutputInv, KernelInv
  <2> QED
    BY <2>2, <2>3, <2>4, <2>5 DEF OutputInv
<1>2. CASE Decorate
  <2>1. /\ phase = "console" /\ phase' = "boot" /\ then' = then /\ ifl' = ifl
        /\ active' = active /\ UNCHANGED serial
    BY <1>2 DEF Decorate
  <2>2. PICK p \in Palette : \/ fb_set_color(p[1], p[2])
                             \/ \E i \in Cells, c \in Chars : fb_direct_write(i, c, p[1], p[2])
    BY <1>2 DEF Decorate
  <2>3. attribute(p[1], p[2]) \in Attributes
    BY <2>2 DEF Attributes
  <2>4. ScreenInv' /\ UNCHANGED display /\ cursor_pos' = cursor_pos
    <3>1. CASE fb_set_color(p[1], p[2])
      BY <2>3, <3>1 DEF fb_set_color, OutputInv, ScreenInv
    <3>2. ASSUME NEW i \in Cells, NEW c \in Chars, fb_direct_write(i, c, p[1], p[2])
          PROVE  ScreenInv' /\ UNCHANGED display /\ cursor_pos' = cursor_pos
      <4> DEFINE a == attribute(p[1], p[2])
      <4>1. /\ fb' = fb_write_cell(fb, i, <<c, a>>) /\ cursor_pos' = cursor_pos
            /\ current' = current /\ UNCHANGED display
        BY <3>2 DEF fb_direct_write
      <4> HIDE DEF a
      <4>2. a \in Shades /\ c \in 0 .. 127 /\ i \in Int
        BY <2>3, OutputAssumption, Positions DEF a, Shades
      <4>3. fb' \in Screens
        BY <4>1, <4>2, CellType DEF OutputInv, ScreenInv, Screens
      <4> QED
        BY <4>1, <4>3 DEF OutputInv, ScreenInv, Screens
    <3> QED
      BY <2>2, <3>1, <3>2
  <2>5. PortInv'
    BY <2>1 DEF OutputInv, PortInv, NothingLost, Owed, serial
  <2>6. DisplayInv'
    BY <2>1, <2>4, DisplayStays DEF OutputInv
  <2>7. KernelInv'
    BY <2>1 DEF OutputInv, KernelInv
  <2> QED
    BY <2>4, <2>5, <2>6, <2>7 DEF OutputInv
<1>3. CASE boot_interrupts_and_input
  <2>1. /\ phase = "boot" /\ phase' = "up" /\ ifl' = TRUE /\ then' = then
        /\ active' = active /\ UNCHANGED <<screen, serial>>
    BY <1>3 DEF boot_interrupts_and_input
  <2>2. ScreenInv'
    BY <2>1 DEF OutputInv, ScreenInv, screen
  <2>3. PortInv'
    BY <2>1 DEF OutputInv, PortInv, NothingLost, Owed, serial
  <2>4. DisplayInv'
    BY <2>1, DisplayStays DEF OutputInv, screen, display
  <2>5. KernelInv'
    BY <2>1 DEF OutputInv, KernelInv
  <2> QED
    BY <2>2, <2>3, <2>4, <2>5 DEF OutputInv
<1> QED
    BY <1>1, <1>2, <1>3

(* The steps of the port leave the screen and the kernel alone.            *)
LEMMA PortSteps ==
    ASSUME OutputInv,
           \/ \E int_no \in Vectors : interrupt_handler(int_no)
           \/ \E w \in Writers : Writing(w)
           \/ Line
    PROVE  OutputInv'
<1>1. phase' = phase /\ then' = then /\ ifl' = ifl /\ UNCHANGED screen
    BY DEF interrupt_handler, Writing, Line
<1>2. ScreenInv' /\ KernelInv'
    BY <1>1 DEF OutputInv, ScreenInv, KernelInv, screen
<1>3. DisplayInv'
    BY <1>1, DisplayStays DEF OutputInv, screen, display
<1>4. ASSUME NEW int_no \in Vectors, interrupt_handler(int_no) PROVE OutputInv'
  <2> DEFINE text == serial_vprintf(<<PERCENT, LETTER.x>>, <<int_no>>)
  <2>1. ifl /\ ~active /\ active' = TRUE /\ serial_printf("handler", text)
    BY <1>4 DEF interrupt_handler
  <2>2. text \in Bytes /\ text # << >>
    <3>1. int_no \in Int
      BY OutputAssumption
    <3> QED
      BY <3>1, PrintedType, HexSome
  <2>3. sending["handler"] = << >> /\ phase # "off" /\ active' \in BOOLEAN /\ "handler" # "kernel"
    BY <2>1 DEF OutputInv, PortInv
  <2> HIDE DEF text
  <2>4. PortInv'
    BY <1>1, <2>1, <2>2, <2>3, PrintfPort, WritersTags DEF OutputInv
  <2> QED
    BY <1>2, <1>3, <2>4 DEF OutputInv
<1>5. ASSUME NEW w \in Writers, Writing(w) PROVE OutputInv'
  <2>1. (w = "kernel" => ~active) /\ active' = active /\ ((inb(w) \/ Again(w)) \/ outb(w))
    BY <1>5 DEF Writing
  <2>2. PortInv /\ active \in BOOLEAN
    BY DEF OutputInv, PortInv
  <2>3. CASE inb(w) \/ Again(w)
    BY <1>1, <1>2, <1>3, <2>1, <2>2, <2>3, PollPort DEF OutputInv
  <2>4. CASE outb(w)
    BY <1>1, <1>2, <1>3, <2>1, <2>2, <2>4, OutbPort DEF OutputInv
  <2> QED
    BY <2>1, <2>3, <2>4
<1>6. CASE Line
  <2>1. Transmit /\ active' = active
    BY <1>6 DEF Line
  <2> QED
    BY <1>1, <1>2, <1>3, <2>1, TransmitPort DEF OutputInv
<1> QED
    BY <1>4, <1>5, <1>6

LEMMA StubKeeps ==
    ASSUME OutputInv, isr_common_stub
    PROVE  OutputInv'
<1>1. /\ active /\ sending["handler"] = << >> /\ active' = FALSE
      /\ phase' = phase /\ then' = then /\ ifl' = ifl
    BY DEF isr_common_stub
<1>2. KernelInv'
    BY <1>1 DEF OutputInv, KernelInv
<1>3. ASSUME UNCHANGED screen PROVE ScreenInv' /\ DisplayInv'
    BY <1>1, <1>3, DisplayStays DEF OutputInv, ScreenInv, screen, display
<1>4. CASE StatusHit /\ UNCHANGED screen
    BY <1>1, <1>2, <1>3, <1>4, StatusHitPort DEF OutputInv
<1>5. ASSUME NEW b \in {STUB, ELSEWHERE}, ByteHit(b), UNCHANGED screen PROVE OutputInv'
  <2>1. b \in Int
    BY DEF STUB, ELSEWHERE
  <2> QED
    BY <1>1, <1>2, <1>3, <1>5, <2>1, ByteHitPort DEF OutputInv
<1>6. CASE DisplayHit(STUB) /\ UNCHANGED serial
    BY <1>1, <1>2, <1>6, DisplayHitKeeps, ReturnPort DEF OutputInv
<1>7. CASE UNCHANGED <<serial, screen>>
    BY <1>1, <1>2, <1>3, <1>7, ReturnPort DEF OutputInv
<1> QED
    BY <1>4, <1>5, <1>6, <1>7 DEF isr_common_stub

LEMMA CallSteps ==
    ASSUME OutputInv,
           \/ \E f \in Formats, n \in Numbers : Log(f, n)
           \/ phase = "up" /\ \/ \E str \in Strings : SYSCALL_PUTS(str) \/ SYSCALL_WRITE(str)
                              \/ \E c \in Chars : SYSCALL_PUTCHAR(c) \/ boot_idle_forever(c)
                              \/ SYSCALL_IOCTL
    PROVE  OutputInv'
<1>1. ASSUME NEW f \in Formats, NEW n \in Numbers, Log(f, n) PROVE OutputInv'
  <2>1. phase # "off" /\ Call(f, <<n>>, Nothing, FALSE) /\ n \in Int
    BY <1>1, NumbersInt DEF Log
  <2> QED
    BY <2>1, CallKeeps, PrintedType, RestsType
<1>2. ASSUME phase = "up", NEW str \in Strings, SYSCALL_PUTS(str) \/ SYSCALL_WRITE(str)
      PROVE  OutputInv'
  <2>1. str \in Seq(0 .. 127) /\ 1 \in Int
    BY OutputAssumption
  <2>2. str \in Bytes
    <3>1. 0 .. 127 \subseteq Int
      OBVIOUS
    <3> QED
      BY <2>1, <3>1, SeqSubset DEF Bytes
  <2>3. Write(user_texts(str)) \in Rests /\ Write(putchars(str)) \in Rests
    BY RestsType
  <2>4. CASE SYSCALL_PUTS(str)
    BY <1>2, <2>2, <2>3, <2>4, CallKeeps, PrintedType DEF SYSCALL_PUTS
  <2>5. CASE SYSCALL_WRITE(str)
    BY <1>2, <2>1, <2>3, <2>5, CallKeeps, PrintedType DEF SYSCALL_WRITE
  <2> QED
    BY <1>2, <2>4, <2>5
<1>3. ASSUME phase = "up", NEW c \in Chars, SYSCALL_PUTCHAR(c) \/ boot_idle_forever(c)
      PROVE  OutputInv'
  <2>1. c \in 0 .. 127 /\ c \in Int
    BY OutputAssumption
  <2>2. Write(<<<<c>>>>) \in Rests
    BY RestsType
  <2>3. CASE SYSCALL_PUTCHAR(c)
    BY <1>3, <2>1, <2>2, <2>3, CallKeeps, PrintedType DEF SYSCALL_PUTCHAR
  <2>4. CASE boot_idle_forever(c)
    BY <1>3, <2>1, <2>2, <2>4, CallKeeps, PrintedType DEF boot_idle_forever
  <2> QED
    BY <1>3, <2>3, <2>4
<1>4. ASSUME phase = "up", SYSCALL_IOCTL PROVE OutputInv'
  <2>1. 1 \in Int
    OBVIOUS
  <2> QED
    BY <1>4, <2>1, CallKeeps, PrintedType, RestsType DEF SYSCALL_IOCTL
<1> QED
    BY <1>1, <1>2, <1>3, <1>4

LEMMA OutputInit == Init => OutputInv
<1> SUFFICES ASSUME Init PROVE OutputInv
    OBVIOUS
<1>1. ScreenInv
  <2>1. USER[1] \in 0 .. 127
    <3>1. USER \in Seq(0 .. 127) /\ USER # << >>
      BY OutputAssumption
    <3> QED
      BY <3>1, SeqElements
  <2>2. attribute(0, 7) \in Shades
    BY DEF Shades
  <2>3. <<USER[1], attribute(0, 7)>> \in (0 .. 127) \X Shades
    BY <2>1, <2>2
  <2>4. LIGHT_GRAY_ON_BLACK \in Attributes
    BY DEF Attributes
  <2> QED
    BY <2>3, <2>4, Positions DEF Init, ScreenInv
<1>2. KernelInv
    BY RestsType DEF Init, KernelInv
<1>3. << >> \in Bytes /\ << >> \o << >> = << >>
    BY DEF Bytes
<1>4. queue \in Seq(Tags \X Int) /\ Len(queue) <= 2 /\ at = [w \in Writers |-> "poll"] /\ ~spoilt
    BY DEF Init
<1>5. sending = [w \in Writers |-> << >>] /\ due = [w \in Writers |-> << >>] /\ queue = << >>
    BY DEF Init
<1>6. \A w \in Writers : From(w, << >>) = << >> /\ Owed(w) = << >>
  <2>1. \A w \in Writers : From(w, << >>) = << >>
    BY <1>4, FromType
  <2> QED
    BY <1>4, <1>5, <2>1 DEF Owed
<1>7. NothingLost
    BY <1>3, <1>5, <1>6 DEF NothingLost
<1>8. sending \in [Writers -> Bytes] /\ due \in [Writers -> Bytes]
    BY <1>3, <1>5
<1>9. PortInv
    BY <1>4, <1>5, <1>7, <1>8, WritersTags DEF Init, PortInv
<1>10. DisplayInv
  <2>1. /\ crtc = LOW /\ hw_cursor \in [{HIGH, LOW} -> {0, 1}] /\ outputs = << >> /\ misplaced = FALSE
        /\ phase = "off"
    BY DEF Init
  <2>2. crtc \in Int /\ hw_cursor \in [{HIGH, LOW} -> Int]
    BY <2>1 DEF LOW
  <2>3. outputs \in Seq(Int \X Int) /\ Len(outputs) <= 4
    BY <2>1
  <2>4. CursorShown
    BY <2>1 DEF CursorShown
  <2> QED
    BY <2>1, <2>2, <2>3, <2>4 DEF DisplayInv
<1> QED
    BY <1>1, <1>2, <1>9, <1>10 DEF OutputInv

LEMMA OutputStutter ==
    ASSUME OutputInv, UNCHANGED vars
    PROVE  OutputInv'
<1>1. UNCHANGED <<screen, serial>> /\ phase' = phase /\ then' = then /\ ifl' = ifl /\ active' = active
    BY DEF vars
<1>2. ScreenInv' /\ KernelInv'
    BY <1>1 DEF OutputInv, ScreenInv, KernelInv, screen
<1>3. PortInv'
    BY <1>1 DEF OutputInv, PortInv, NothingLost, Owed, serial
<1>4. DisplayInv'
    BY <1>1, DisplayStays DEF OutputInv, screen, display
<1> QED
    BY <1>2, <1>3, <1>4 DEF OutputInv

LEMMA OutputInductive == Spec => []OutputInv
<1>1. OutputInv /\ [Next]_vars => OutputInv'
    BY BootKeeps, CallSteps, ShowKeeps, MoveCursorKeeps, PortSteps, StubKeeps, OutputStutter DEF Next
<1> QED
    BY <1>1, OutputInit, PTL DEF Spec

(* Every cell holds a character and colours that something set; the        *)
(* position of the next one stays on the screen, also after scrolling,     *)
(* tabs and backspaces; and the transmitter never holds more than it can.  *)
THEOREM OutputTypeOK == Spec => []TypeOK
    BY OutputInductive, OutputInvTypeOK, PTL

(* serial_write_char, and an interrupt handler that writes between its     *)
(* test and its output and spoils its status, never make the transmitter   *)
(* lose a byte, and the bytes of each writer leave in the order of its     *)
(* text; but for the bytes that the handler's return replaces in AL.       *)
THEOREM OutputNothingLost == Spec => []NothingLost
<1>1. OutputInv => NothingLost
    BY DEF OutputInv, PortInv
<1> QED
    BY <1>1, OutputInductive, PTL

(* Whenever no text is being shown and the four bytes of fb_set_cursor are *)
(* out, the cursor on the display is where the next character goes, unless *)
(* the stub replaced one of those bytes in AL.                             *)
THEOREM OutputCursorShown == Spec => []CursorShown
<1>1. OutputInv => CursorShown
    BY DEF OutputInv, DisplayInv
<1> QED
    BY <1>1, OutputInductive, PTL

(* The text that serial_vprintf makes of a number is the number in the     *)
(* notation the format names, whatever the size of integers: no digit is   *)
(* missing, out of order or of the wrong sign.                             *)
THEOREM OutputReadsBack == Spec => ReadsBack
<1> DEFINE A == \A n \in Numbers :
        /\ Log(<<PERCENT, LETTER.d>>, n) /\ n # INT_MIN => ReadDec(sending'["kernel"]) = n
        /\ Log(<<PERCENT, LETTER.x>>, n) => Read(16, sending'["kernel"]) = n % 2 ^ BITS
<1>1. OutputInv => A
  <2> SUFFICES ASSUME OutputInv, NEW n \in Numbers
               PROVE  /\ Log(<<PERCENT, LETTER.d>>, n) /\ n # INT_MIN => ReadDec(sending'["kernel"]) = n
                      /\ Log(<<PERCENT, LETTER.x>>, n) => Read(16, sending'["kernel"]) = n % 2 ^ BITS
    OBVIOUS
  <2>1. n \in Int /\ "kernel" \in DOMAIN sending
    BY NumbersInt DEF OutputInv, PortInv, Writers
  <2>2. ASSUME NEW f, Log(f, n) PROVE sending'["kernel"] = serial_vprintf(f, <<n>>)
    BY <2>1, <2>2 DEF Log, Call, serial_printf
  <2>3. /\ serial_vprintf(<<PERCENT, LETTER.d>>, <<n>>) = itoa_dec(n)
        /\ serial_vprintf(<<PERCENT, LETTER.x>>, <<n>>) = itoa_hex(n)
    BY <2>1, Printed, TextsType, Concatenation
  <2> QED
    BY <2>1, <2>2, <2>3, DecRead, HexRead
<1> QED
    BY <1>1, OutputInductive, PTL DEF ReadsBack

-----------------------------------------------------------------------------
(* The terminal.                                                           *)

(* The rows of the cells f, and the place of position p on them.           *)
RowsOf(f) == [r \in 1 .. HEIGHT |-> [k \in 1 .. WIDTH |-> f[(r - 1) * WIDTH + k - 1]]]
At(f, p) == [rows |-> RowsOf(f), row |-> (p \div WIDTH) + 1, col |-> (p % WIDTH) + 1]

LEMMA DivisionUnique ==
    ASSUME NEW q \in Nat, NEW m \in Nat, m < WIDTH
    PROVE  q * WIDTH + m \in Nat /\ (q * WIDTH + m) \div WIDTH = q /\ (q * WIDTH + m) % WIDTH = m
<1>1. WIDTH \in Nat /\ WIDTH >= 1
    BY Positions
<1> DEFINE p == q * WIDTH + m
           d == p \div WIDTH
           e == p % WIDTH
<1>2. q * WIDTH \in Nat /\ p \in Nat
    BY <1>1
<1>3. d \in Nat /\ e \in Nat /\ e < WIDTH /\ p = d * WIDTH + e
    BY <1>2, Division
<1> HIDE DEF d, e
<1>4. \A a, b \in Nat : a < b => a * WIDTH + WIDTH <= b * WIDTH
    BY <1>1
<1>5. ~(d < q)
    BY <1>1, <1>2, <1>3, <1>4
<1>6. ~(q < d)
    BY <1>1, <1>2, <1>3, <1>4
<1>7. d = q
    BY <1>3, <1>5, <1>6
<1>8. e = m
    BY <1>2, <1>3, <1>7
<1> QED
    BY <1>2, <1>7, <1>8 DEF d, e

(* Cells and places correspond.                                            *)
LEMMA CellOf ==
    ASSUME NEW r \in 1 .. HEIGHT, NEW k \in 1 .. WIDTH
    PROVE  /\ (r - 1) * WIDTH + k - 1 \in Cells
           /\ ((r - 1) * WIDTH + k - 1) \div WIDTH = r - 1
           /\ ((r - 1) * WIDTH + k - 1) % WIDTH = k - 1
<1> DEFINE q == r - 1
           m == k - 1
<1>1. q \in Nat /\ m \in Nat /\ m < WIDTH /\ q + 1 <= HEIGHT /\ WIDTH \in Nat /\ HEIGHT \in Nat
    BY Positions
<1>2. \A a, b \in Nat : a + 1 <= b => a * WIDTH + WIDTH <= WIDTH * b
    BY <1>1
<1>3. q * WIDTH + WIDTH <= CELLS
    BY <1>1, <1>2 DEF CELLS
<1>4. q * WIDTH \in Nat
    BY <1>1
<1>5. q * WIDTH + m = (r - 1) * WIDTH + k - 1
    BY <1>4
<1>6. q * WIDTH + m \in Nat /\ (q * WIDTH + m) \div WIDTH = q /\ (q * WIDTH + m) % WIDTH = m
    BY <1>1, DivisionUnique
<1>7. q * WIDTH + m < CELLS
    BY <1>1, <1>3, <1>4, Positions
<1>8. q * WIDTH + m \in Cells
    BY <1>6, <1>7, Positions DEF Cells
<1> QED
    BY <1>5, <1>6, <1>8

LEMMA PlaceOf ==
    ASSUME NEW p \in Cells
    PROVE  /\ p \div WIDTH \in Nat /\ p % WIDTH \in Nat
           /\ (p \div WIDTH) + 1 \in 1 .. HEIGHT /\ (p % WIDTH) + 1 \in 1 .. WIDTH
           /\ (p \div WIDTH) * WIDTH + (p % WIDTH) = p
<1>1. p \in Nat /\ p < CELLS /\ WIDTH \in Nat /\ HEIGHT \in Nat /\ WIDTH >= 1
    BY Positions
<1> DEFINE d == p \div WIDTH
           e == p % WIDTH
<1>2. d \in Nat /\ e \in Nat /\ e < WIDTH /\ p = d * WIDTH + e /\ d * WIDTH \in Nat
    BY <1>1, Division
<1> HIDE DEF d, e
<1>3. \A a, b \in Nat : a >= b => a * WIDTH >= WIDTH * b
    BY <1>1
<1>4. ~(d >= HEIGHT)
    BY <1>1, <1>2, <1>3 DEF CELLS
<1>5. d + 1 \in 1 .. HEIGHT /\ e + 1 \in 1 .. WIDTH
    BY <1>1, <1>2, <1>4
<1> QED
    BY <1>2, <1>5 DEF d, e

(* The position after p.                                                   *)
LEMMA NextPlace ==
    ASSUME NEW p \in Cells
    PROVE  /\ (p % WIDTH) + 1 < WIDTH =>
                /\ p + 1 \in Cells
                /\ (p + 1) \div WIDTH = p \div WIDTH /\ (p + 1) % WIDTH = (p % WIDTH) + 1
           /\ (p % WIDTH) + 1 = WIDTH =>
                p + 1 = ((p \div WIDTH) + 1) * WIDTH
           /\ ((p + WIDTH) \div WIDTH) * WIDTH = ((p \div WIDTH) + 1) * WIDTH
           /\ (p \div WIDTH) + 1 < HEIGHT => 
                /\ ((p \div WIDTH) + 1) * WIDTH \in Cells
                /\ (((p \div WIDTH) + 1) * WIDTH) \div WIDTH = (p \div WIDTH) + 1
                /\ (((p \div WIDTH) + 1) * WIDTH) % WIDTH = 0
           /\ (p \div WIDTH) + 1 = HEIGHT => ((p \div WIDTH) + 1) * WIDTH = CELLS
<1> DEFINE d == p \div WIDTH
           e == p % WIDTH
<1>1. /\ d \in Nat /\ e \in Nat /\ d + 1 \in 1 .. HEIGHT /\ e + 1 \in 1 .. WIDTH
      /\ d * WIDTH + e = p
    BY PlaceOf
<1>2. WIDTH \in Nat /\ HEIGHT \in Nat /\ WIDTH >= 1 /\ p \in Nat
    BY Positions
<1> HIDE DEF d, e
<1>3. d * WIDTH \in Nat /\ (d + 1) * WIDTH = d * WIDTH + WIDTH /\ (d + 1) * WIDTH \in Nat
    BY <1>1, <1>2
<1>4. ASSUME e + 1 < WIDTH
      PROVE  p + 1 \in Cells /\ (p + 1) \div WIDTH = d /\ (p + 1) % WIDTH = e + 1
  <2>1. e + 1 \in Nat /\ d * WIDTH + (e + 1) = p + 1
    BY <1>1, <1>2, <1>3
  <2>2. (p + 1) \div WIDTH = d /\ (p + 1) % WIDTH = e + 1
    BY <1>1, <1>4, <2>1, DivisionUnique
  <2>3. e + 2 \in 1 .. WIDTH
    BY <1>1, <1>2, <1>4
  <2>4. (d + 1 - 1) * WIDTH + (e + 2) - 1 \in Cells
    BY <1>1, <2>3, CellOf
  <2>5. (d + 1 - 1) * WIDTH + (e + 2) - 1 = p + 1
    BY <1>1, <1>2, <1>3
  <2> QED
    BY <2>2, <2>4, <2>5
<1>5. e + 1 = WIDTH => p + 1 = (d + 1) * WIDTH
    BY <1>1, <1>2, <1>3
<1>6. (p + WIDTH) \div WIDTH = d + 1
  <2>1. (d + 1) * WIDTH + e = p + WIDTH /\ d + 1 \in Nat /\ e < WIDTH
    BY <1>1, <1>2, <1>3
  <2> QED
    BY <1>1, <2>1, DivisionUnique
<1>7. ASSUME d + 1 < HEIGHT
      PROVE  /\ (d + 1) * WIDTH \in Cells
             /\ ((d + 1) * WIDTH) \div WIDTH = d + 1 /\ ((d + 1) * WIDTH) % WIDTH = 0
  <2>1. PICK r, c : r = d + 2 /\ c = 1
    OBVIOUS
  <2>2. r \in 1 .. HEIGHT /\ c \in 1 .. WIDTH
    BY <1>1, <1>2, <1>7, <2>1
  <2>3. /\ (r - 1) * WIDTH + c - 1 \in Cells
        /\ ((r - 1) * WIDTH + c - 1) \div WIDTH = r - 1
        /\ ((r - 1) * WIDTH + c - 1) % WIDTH = c - 1
    BY <2>2, CellOf
  <2>4. r - 1 = d + 1 /\ (d + 1) * WIDTH + c - 1 = (d + 1) * WIDTH /\ c - 1 = 0
    BY <1>1, <1>3, <2>1
  <2> QED
    BY <2>3, <2>4
<1>8. d + 1 = HEIGHT => (d + 1) * WIDTH = CELLS
  <2>1. \A a, b \in Nat : a * b = b * a
    OBVIOUS
  <2> QED
    BY <1>2, <2>1 DEF CELLS
<1> QED
    BY <1>4, <1>5, <1>6, <1>7, <1>8 DEF d, e

Values == (0 .. 127) \X Shades

LEMMA RowsType ==
    ASSUME NEW f \in Screens
    PROVE  /\ RowsOf(f) \in [1 .. HEIGHT -> [1 .. WIDTH -> Values]]
           /\ RowsOf(f) \in Seq([1 .. WIDTH -> Values]) /\ Len(RowsOf(f)) = HEIGHT
<1>1. \A r \in 1 .. HEIGHT, k \in 1 .. WIDTH : f[(r - 1) * WIDTH + k - 1] \in Values
    BY CellOf DEF Screens, Values
<1>2. \A r \in 1 .. HEIGHT : [k \in 1 .. WIDTH |-> f[(r - 1) * WIDTH + k - 1]] \in [1 .. WIDTH -> Values]
    BY <1>1
<1> DEFINE R == [1 .. WIDTH -> Values]
<1>3. RowsOf(f) \in [1 .. HEIGHT -> R]
    BY <1>2 DEF RowsOf
<1> HIDE DEF R
<1>4. HEIGHT \in Nat
    BY Positions
<1>5. RowsOf(f) \in Seq(R) /\ Len(RowsOf(f)) = HEIGHT
    BY <1>3, <1>4
<1> QED
    BY <1>3, <1>5 DEF R

(* Writing a cell.                                                         *)
InCells(f, p, cell) == [f EXCEPT ![p] = cell]
InRows(rows, p, cell) == [rows EXCEPT ![(p \div WIDTH) + 1][(p % WIDTH) + 1] = cell]

LEMMA RowsWrite ==
    ASSUME NEW f \in Screens, NEW p \in Cells, NEW cell \in Values
    PROVE  InRows(RowsOf(f), p, cell) = RowsOf(InCells(f, p, cell))
<1> DEFINE g == [f EXCEPT ![p] = cell]
           d == (p \div WIDTH) + 1
           e == (p % WIDTH) + 1
           index(r, k) == (r - 1) * WIDTH + k - 1
           rows == [RowsOf(f) EXCEPT ![d][e] = cell]
<1>1. d \in 1 .. HEIGHT /\ e \in 1 .. WIDTH /\ index(d, e) = p
  <2>1. (p \div WIDTH) * WIDTH \in Nat /\ WIDTH \in Nat
    BY Division, Positions
  <2> QED
    BY <2>1, PlaceOf
<1>2. ASSUME NEW r \in 1 .. HEIGHT, NEW k \in 1 .. WIDTH, index(r, k) = p
      PROVE  r = d /\ k = e
  <2>1. index(r, k) \div WIDTH = r - 1 /\ index(r, k) % WIDTH = k - 1
    BY CellOf
  <2> QED
    BY <1>2, <2>1
<1>3. \A r \in 1 .. HEIGHT, k \in 1 .. WIDTH : index(r, k) \in Cells
    BY CellOf
<1> HIDE DEF d, e, index
<1>4. \A r \in 1 .. HEIGHT, k \in 1 .. WIDTH : g[index(r, k)] = IF r = d /\ k = e THEN cell ELSE f[index(r, k)]
    BY <1>1, <1>2, <1>3 DEF Screens
<1>5. RowsOf(f) = [r \in 1 .. HEIGHT |-> [k \in 1 .. WIDTH |-> f[index(r, k)]]]
    BY DEF RowsOf, index
<1>6. RowsOf(g) = [r \in 1 .. HEIGHT |-> [k \in 1 .. WIDTH |-> g[index(r, k)]]]
    BY DEF RowsOf, index
<1> HIDE DEF g
<1> DEFINE old == RowsOf(f)
           new == RowsOf(g)
<1>7. ASSUME NEW r \in 1 .. HEIGHT PROVE rows[r] = new[r]
  <2>1. /\ old[r] = [k \in 1 .. WIDTH |-> f[index(r, k)]]
        /\ new[r] = [k \in 1 .. WIDTH |-> g[index(r, k)]]
    BY <1>5, <1>6
  <2>2. rows[r] = IF r = d THEN [old[d] EXCEPT ![e] = cell] ELSE old[r]
    <3>1. old = [q \in 1 .. HEIGHT |-> old[q]]
      BY <1>5
    <3> HIDE DEF old
    <3>2. [old EXCEPT ![d][e] = cell][r] = IF r = d THEN [old[d] EXCEPT ![e] = cell] ELSE old[r]
      BY <1>1, <3>1
    <3> QED
      BY <3>2 DEF old
  <2> HIDE DEF old, new, rows
  <2>3. CASE r = d
    <3>1. rows[r] = [k \in 1 .. WIDTH |-> IF k = e THEN cell ELSE f[index(r, k)]]
      BY <2>1, <2>2, <2>3
    <3>2. \A k \in 1 .. WIDTH : g[index(r, k)] = IF k = e THEN cell ELSE f[index(r, k)]
      BY <1>4, <2>3
    <3> QED
      BY <2>1, <3>1, <3>2
  <2>4. CASE r # d
    <3>1. \A k \in 1 .. WIDTH : g[index(r, k)] = f[index(r, k)]
      BY <1>4, <2>4
    <3> QED
      BY <2>1, <2>2, <2>4, <3>1
  <2> QED
    BY <2>3, <2>4
<1>8. rows = [r \in 1 .. HEIGHT |-> rows[r]] /\ new = [r \in 1 .. HEIGHT |-> new[r]]
    BY <1>5, <1>6
<1> HIDE DEF rows, new
<1>9. rows = new
    BY <1>7, <1>8
<1> QED
    BY <1>9 DEF rows, new, g, d, e, InRows, InCells

(* Moving every row up by one.                                             *)
LEMMA AppendTail ==
    ASSUME NEW S, NEW n \in Nat, n >= 1, NEW s \in [1 .. n -> S], NEW e \in S
    PROVE  Append(Tail(s), e) = [r \in 1 .. n |-> IF r < n THEN s[r + 1] ELSE e]
<1>1. s \in Seq(S) /\ Len(s) = n /\ s # << >>
    OBVIOUS
<1>2. Tail(s) \in Seq(S) /\ Len(Tail(s)) = n - 1 /\ \A r \in 1 .. n - 1 : Tail(s)[r] = s[r + 1]
    BY <1>1
<1> DEFINE t == Tail(s)
<1> HIDE DEF t
<1>3. t \in Seq(S) /\ Len(t) = n - 1 /\ \A r \in 1 .. n - 1 : t[r] = s[r + 1]
    BY <1>2 DEF t
<1>4. /\ Append(t, e) \in Seq(S) /\ Len(Append(t, e)) = n
      /\ \A r \in 1 .. n : Append(t, e)[r] = IF r < n THEN t[r] ELSE e
    BY <1>3
<1> DEFINE u == Append(t, e)
<1>5. u \in Seq(S) /\ Len(u) = n /\ \A r \in 1 .. n : u[r] = IF r < n THEN s[r + 1] ELSE e
    BY <1>3, <1>4
<1> HIDE DEF u
<1>6. u = [r \in 1 .. n |-> u[r]]
    BY <1>5
<1> QED
    BY <1>5, <1>6 DEF u, t

LEMMA RowsScroll ==
    ASSUME ScreenInv, NEW f \in Screens
    PROVE  Append(Tail(RowsOf(f)), T!EmptyRow) = RowsOf(fb_scroll(f))
<1> DEFINE index(r, k) == (r - 1) * WIDTH + k - 1
           g == fb_scroll(f)
<1>1. WIDTH \in Nat /\ HEIGHT \in Nat /\ WIDTH >= 1 /\ HEIGHT >= 1 /\ CELLS \in Nat
    BY Positions
<1>2. ASSUME NEW r \in 1 .. HEIGHT, NEW k \in 1 .. WIDTH
      PROVE  /\ index(r, k) \in Cells
             /\ r < HEIGHT => index(r, k) + WIDTH = index(r + 1, k) /\ index(r + 1, k) \in Cells
                              /\ r + 1 \in 1 .. HEIGHT
             /\ index(r, k) \div WIDTH = HEIGHT - 1 <=> ~(r < HEIGHT)
  <2>1. index(r, k) \in Cells /\ index(r, k) \div WIDTH = r - 1
    BY CellOf
  <2>2. ASSUME r < HEIGHT PROVE index(r, k) + WIDTH = index(r + 1, k) /\ index(r + 1, k) \in Cells
                                /\ r + 1 \in 1 .. HEIGHT
    <3>1. r + 1 \in 1 .. HEIGHT
      BY <1>1, <2>2
    <3>2. index(r + 1, k) \in Cells
      BY <3>1, CellOf
    <3>3. (r + 1 - 1) * WIDTH = (r - 1) * WIDTH + WIDTH /\ (r - 1) * WIDTH \in Nat
      BY <1>1
    <3> QED
      BY <1>1, <3>1, <3>2, <3>3
  <2> QED
    BY <1>1, <2>1, <2>2
<1>3. T!EmptyRow = [k \in 1 .. WIDTH |-> blank]
    BY DEF T!EmptyRow, T!Space, blank, SPACE
<1>4. ASSUME NEW r \in 1 .. HEIGHT, NEW k \in 1 .. WIDTH
      PROVE  g[index(r, k)] = IF r < HEIGHT THEN f[index(r + 1, k)] ELSE blank
  <2> DEFINE i == index(r, k)
  <2>1. i \in Cells
    BY <1>2
  <2>2. g[i] = IF i \div WIDTH = HEIGHT - 1 THEN blank
               ELSE IF i + WIDTH < CELLS THEN f[i + WIDTH] ELSE f[i]
    <3> HIDE DEF i
    <3> QED
      BY <2>1 DEF fb_scroll, fb_clear_line
  <2>3. CASE r < HEIGHT
    <3>1. i + WIDTH = index(r + 1, k) /\ i + WIDTH < CELLS /\ i \div WIDTH # HEIGHT - 1
      <4>1. i + WIDTH = index(r + 1, k) /\ index(r + 1, k) \in Cells /\ i \div WIDTH # HEIGHT - 1
        BY <1>2, <2>3
      <4> HIDE DEF i, index
      <4> QED
        BY <4>1, Positions
    <3> HIDE DEF i, index
    <3> QED
      BY <2>2, <2>3, <3>1 DEF i
  <2>4. CASE ~(r < HEIGHT)
    <3>1. i \div WIDTH = HEIGHT - 1
      BY <1>2, <2>4
    <3> HIDE DEF i, index
    <3> QED
      BY <2>2, <2>4, <3>1 DEF i
  <2> QED
    BY <2>3, <2>4
<1> HIDE DEF g, index
<1>5. /\ RowsOf(f) = [r \in 1 .. HEIGHT |-> [k \in 1 .. WIDTH |-> f[index(r, k)]]]
      /\ RowsOf(g) = [r \in 1 .. HEIGHT |-> [k \in 1 .. WIDTH |-> g[index(r, k)]]]
    BY DEF RowsOf, index
<1>6. RowsOf(f) \in [1 .. HEIGHT -> [1 .. WIDTH -> Values]] /\ T!EmptyRow \in [1 .. WIDTH -> Values]
    BY <1>3, RowsType, BlankType DEF Values
<1>7. Append(Tail(RowsOf(f)), T!EmptyRow) =
        [r \in 1 .. HEIGHT |-> IF r < HEIGHT THEN RowsOf(f)[r + 1] ELSE T!EmptyRow]
  <2> DEFINE R == [1 .. WIDTH -> Values]
             s == RowsOf(f)
             e == T!EmptyRow
  <2>1. s \in [1 .. HEIGHT -> R] /\ e \in R
    BY <1>6
  <2> HIDE DEF R, s, e
  <2>2. Append(Tail(s), e) = [r \in 1 .. HEIGHT |-> IF r < HEIGHT THEN s[r + 1] ELSE e]
    BY <1>1, <2>1, AppendTail
  <2> QED
    BY <2>2 DEF s, e
<1>8. ASSUME NEW r \in 1 .. HEIGHT
      PROVE  RowsOf(g)[r] = IF r < HEIGHT THEN RowsOf(f)[r + 1] ELSE T!EmptyRow
  <2>1. RowsOf(g)[r] = [k \in 1 .. WIDTH |-> IF r < HEIGHT THEN f[index(r + 1, k)] ELSE blank]
    BY <1>4, <1>5
  <2>2. CASE r < HEIGHT
    <3>1. r + 1 \in 1 .. HEIGHT
      BY <1>1, <2>2
    <3>2. RowsOf(f)[r + 1] = [k \in 1 .. WIDTH |-> f[index(r + 1, k)]]
      BY <1>5, <3>1
    <3> QED
      BY <2>1, <2>2, <3>2
  <2>3. CASE ~(r < HEIGHT)
    BY <1>3, <2>1, <2>3
  <2> QED
    BY <2>2, <2>3
<1> QED
    BY <1>5, <1>7, <1>8 DEF g

(* The place after a round of fb_write that ends at position pos.          *)
After(f, pos) == IF pos >= CELLS THEN At(fb_scroll(f), CELLS - WIDTH) ELSE At(f, pos)

LEMMA ScrolledAfter ==
    ASSUME NEW f, NEW pos, scrolled(f, pos)
    PROVE  At(fb', cursor_pos') = After(f, pos)
    BY DEF scrolled, After

LEMMA AtFields ==
    ASSUME NEW f, NEW p
    PROVE  /\ At(f, p).rows = RowsOf(f) /\ At(f, p).row = (p \div WIDTH) + 1
           /\ At(f, p).col = (p % WIDTH) + 1
    BY DEF At

LEMMA LastRow ==
    (CELLS - WIDTH) \div WIDTH = HEIGHT - 1 /\ (CELLS - WIDTH) % WIDTH = 0
<1>1. WIDTH \in Nat /\ WIDTH >= 1 /\ HEIGHT \in Nat /\ HEIGHT >= 1
    BY Positions
<1>2. HEIGHT - 1 \in Nat /\ 0 < WIDTH /\ 0 \in Nat
    BY <1>1
<1>3. (HEIGHT - 1) * WIDTH + 0 = CELLS - WIDTH
    BY <1>1 DEF CELLS
<1> QED
    BY <1>2, <1>3, DivisionUnique

LEMMA NextRowAfter ==
    ASSUME ScreenInv, NEW f \in Screens, NEW p \in Cells
    PROVE  T!NextRow(At(f, p)) = After(f, ((p \div WIDTH) + 1) * WIDTH)
<1> DEFINE d == p \div WIDTH
           t == At(f, p)
<1>1. d \in Nat /\ d + 1 \in 1 .. HEIGHT /\ HEIGHT \in Nat
    BY PlaceOf, Positions
<1>2. t = [rows |-> RowsOf(f), row |-> d + 1, col |-> (p % WIDTH) + 1]
    BY DEF At
<1>3. CASE d + 1 < HEIGHT
  <2>1. T!NextRow(t) = [rows |-> RowsOf(f), row |-> d + 2, col |-> 1]
    <3>1. t.row < HEIGHT /\ t.row + 1 = d + 2
      BY <1>1, <1>2, <1>3
    <3> HIDE DEF t, d
    <3>2. T!NextRow(t) = [t EXCEPT !.row = @ + 1, !.col = 1]
      BY <3>1 DEF T!NextRow
    <3> QED
      BY <1>2, <3>1, <3>2
  <2>2. (d + 1) * WIDTH \in Cells /\ ((d + 1) * WIDTH) \div WIDTH = d + 1 /\ ((d + 1) * WIDTH) % WIDTH = 0
    BY <1>3, NextPlace
  <2> DEFINE n == (d + 1) * WIDTH
  <2> HIDE DEF n
  <2>3. n \in Cells /\ n \div WIDTH = d + 1 /\ n % WIDTH = 0
    BY <2>2 DEF n
  <2>4. ~(n >= CELLS)
    BY <2>3, Positions
  <2>5. After(f, n) = [rows |-> RowsOf(f), row |-> (d + 1) + 1, col |-> 0 + 1]
    BY <2>3, <2>4 DEF After, At
  <2>6. (d + 1) + 1 = d + 2 /\ 0 + 1 = 1
    BY <1>1
  <2> QED
    BY <2>1, <2>5, <2>6 DEF n
<1>4. CASE ~(d + 1 < HEIGHT)
  <2>1. d + 1 = HEIGHT
    BY <1>1, <1>4
  <2>2. (d + 1) * WIDTH = CELLS
    BY <2>1, NextPlace
  <2>3. T!NextRow(t) = [rows |-> Append(Tail(RowsOf(f)), T!EmptyRow), row |-> HEIGHT, col |-> 1]
    <3>1. ~(t.row < HEIGHT) /\ t.row = HEIGHT
      BY <1>1, <1>2, <2>1
    <3> HIDE DEF t, d
    <3>2. T!NextRow(t) = [t EXCEPT !.rows = Append(Tail(@), T!EmptyRow), !.col = 1]
      BY <3>1 DEF T!NextRow
    <3> QED
      BY <1>2, <2>1, <3>1, <3>2
  <2>4. After(f, CELLS) = [rows |-> RowsOf(fb_scroll(f)), row |-> (HEIGHT - 1) + 1, col |-> 0 + 1]
    <3>1. CELLS >= CELLS
      BY Positions
    <3> QED
      BY <3>1, LastRow DEF After, At
  <2>5. (HEIGHT - 1) + 1 = HEIGHT /\ 0 + 1 = 1
    BY <1>1
  <2> QED
    BY <2>2, <2>3, <2>4, <2>5, RowsScroll
<1> QED
    BY <1>3, <1>4

LEMMA PutAfter ==
    ASSUME ScreenInv, NEW f \in Screens, NEW p \in Cells, NEW cell \in Values
    PROVE  T!Put(At(f, p), cell) = After([f EXCEPT ![p] = cell], p + 1)
<1> DEFINE d == p \div WIDTH
           e == p % WIDTH
           t == At(f, p)
           g == [f EXCEPT ![p] = cell]
           u == [t EXCEPT !.rows[t.row][t.col] = cell]
<1>1. d \in Nat /\ e \in Nat /\ d + 1 \in 1 .. HEIGHT /\ e + 1 \in 1 .. WIDTH /\ WIDTH \in Nat
    BY PlaceOf, Positions
<1>2. t = [rows |-> RowsOf(f), row |-> d + 1, col |-> e + 1]
    BY DEF At
<1>3. g \in Screens
    BY DEF Screens, Values
<1>4. [RowsOf(f) EXCEPT ![d + 1][e + 1] = cell] = RowsOf(g)
  <2>1. InRows(RowsOf(f), p, cell) = RowsOf(InCells(f, p, cell))
    BY RowsWrite
  <2> QED
    BY <2>1 DEF InRows, InCells
<1>5. u = At(g, p)
  <2> HIDE DEF g, d, e, t
  <2>1. u = [rows |-> [RowsOf(f) EXCEPT ![d + 1][e + 1] = cell], row |-> d + 1, col |-> e + 1]
    BY <1>2
  <2> QED
    BY <1>4, <2>1 DEF At, d, e
<1>6. T!Put(t, cell) = IF t.col < WIDTH THEN [u EXCEPT !.col = @ + 1] ELSE T!NextRow(u)
    BY DEF T!Put
<1>7. t.col = e + 1
    BY <1>2
<1>8. CASE e + 1 < WIDTH
  <2>1. p + 1 \in Cells /\ (p + 1) \div WIDTH = d /\ (p + 1) % WIDTH = e + 1
    BY <1>8, NextPlace
  <2>2. ~(p + 1 >= CELLS)
    BY <2>1, Positions
  <2>3. After(g, p + 1) = [rows |-> RowsOf(g), row |-> d + 1, col |-> (e + 1) + 1]
    BY <2>1, <2>2 DEF After, At
  <2>4. At(g, p) = [rows |-> RowsOf(g), row |-> d + 1, col |-> e + 1]
    BY DEF At
  <2> HIDE DEF t, u, g, d, e
  <2>5. T!Put(t, cell) = [At(g, p) EXCEPT !.col = @ + 1]
    BY <1>5, <1>6, <1>7, <1>8
  <2>6. T!Put(t, cell) = After(g, p + 1)
    BY <2>3, <2>4, <2>5
  <2> QED
    BY <2>6 DEF t, g
<1>9. CASE ~(e + 1 < WIDTH)
  <2>1. e + 1 = WIDTH
    BY <1>1, <1>9
  <2>2. p + 1 = (d + 1) * WIDTH
    BY <2>1, NextPlace
  <2>3. T!NextRow(At(g, p)) = After(g, (d + 1) * WIDTH)
    BY <1>3, NextRowAfter
  <2> HIDE DEF t, u, g, d, e
  <2>4. T!Put(t, cell) = T!NextRow(At(g, p))
    BY <1>5, <1>6, <1>7, <1>9
  <2> QED
    BY <2>2, <2>3, <2>4 DEF t, g
<1> QED
    BY <1>8, <1>9

LEMMA BackAfter ==
    ASSUME ScreenInv, NEW f \in Screens, NEW p \in Cells
    PROVE  T!Back(At(f, p)) = IF p = 0 THEN At(f, 0) ELSE At([f EXCEPT ![p - 1] = blank], p - 1)
<1> DEFINE d == p \div WIDTH
           e == p % WIDTH
           t == At(f, p)
           g == [f EXCEPT ![p - 1] = blank]
<1>1. /\ d \in Nat /\ e \in Nat /\ d + 1 \in 1 .. HEIGHT /\ e + 1 \in 1 .. WIDTH
      /\ d * WIDTH + e = p /\ d * WIDTH \in Nat
    BY PlaceOf, Positions, Division
<1>2. WIDTH \in Nat /\ WIDTH >= 1 /\ HEIGHT \in Nat /\ p \in Nat
    BY Positions
<1>3. t = [rows |-> RowsOf(f), row |-> d + 1, col |-> e + 1]
    BY DEF At
<1>4. T!Space = blank /\ blank \in Values
    BY BlankType DEF T!Space, blank, SPACE, Values
<1>5. ASSUME p # 0 PROVE p - 1 \in Cells
    BY <1>2, <1>5, Positions DEF Cells
<1>6. CASE e + 1 > 1
  <2>1. p # 0 /\ d * WIDTH + (e - 1) = p - 1 /\ e - 1 \in Nat /\ e - 1 < WIDTH
    BY <1>1, <1>2, <1>6
  <2>2. (p - 1) \div WIDTH = d /\ (p - 1) % WIDTH = e - 1
    BY <1>1, <2>1, DivisionUnique
  <2>3. [RowsOf(f) EXCEPT ![d + 1][(e - 1) + 1] = blank] = RowsOf(g)
    <3>1. [RowsOf(f) EXCEPT ![((p - 1) \div WIDTH) + 1][((p - 1) % WIDTH) + 1] = blank] = RowsOf(g)
      <4>1. InRows(RowsOf(f), p - 1, blank) = RowsOf(InCells(f, p - 1, blank))
        BY <1>4, <1>5, <2>1, RowsWrite
      <4> QED
        BY <4>1 DEF InRows, InCells
    <3> QED
      BY <2>2, <3>1, Zenon
  <2>4. At(g, p - 1) = [rows |-> RowsOf(g), row |-> d + 1, col |-> (e - 1) + 1]
    BY <2>2 DEF At
  <2>5. (e - 1) + 1 = e /\ (e + 1) - 1 = e
    BY <1>1
  <2> HIDE DEF t, d, e, g
  <2>6. T!Back(t) = [t EXCEPT !.rows[t.row][t.col - 1] = blank, !.col = @ - 1]
    BY <1>3, <1>4, <1>6 DEF T!Back
  <2>7. T!Back(t) = [rows |-> [RowsOf(f) EXCEPT ![d + 1][e] = blank], row |-> d + 1, col |-> e]
    BY <1>3, <2>5, <2>6
  <2> QED
    BY <2>1, <2>3, <2>4, <2>5, <2>7 DEF t, g
<1>7. CASE ~(e + 1 > 1) /\ d + 1 > 1
  <2>1. e = 0 /\ d - 1 \in Nat /\ WIDTH - 1 \in Nat /\ WIDTH - 1 < WIDTH
    BY <1>1, <1>2, <1>7
  <2>2. d * WIDTH = (d - 1) * WIDTH + WIDTH /\ (d - 1) * WIDTH \in Nat
    BY <1>1, <1>2, <2>1
  <2>3. p # 0 /\ (d - 1) * WIDTH + (WIDTH - 1) = p - 1
    BY <1>1, <1>2, <2>1, <2>2
  <2>4. (p - 1) \div WIDTH = d - 1 /\ (p - 1) % WIDTH = WIDTH - 1
    BY <2>1, <2>3, DivisionUnique
  <2>5. [RowsOf(f) EXCEPT ![(d - 1) + 1][(WIDTH - 1) + 1] = blank] = RowsOf(g)
    <3>1. [RowsOf(f) EXCEPT ![((p - 1) \div WIDTH) + 1][((p - 1) % WIDTH) + 1] = blank] = RowsOf(g)
      <4>1. InRows(RowsOf(f), p - 1, blank) = RowsOf(InCells(f, p - 1, blank))
        BY <1>4, <1>5, <2>3, RowsWrite
      <4> QED
        BY <4>1 DEF InRows, InCells
    <3> QED
      BY <2>4, <3>1, Zenon
  <2>6. At(g, p - 1) = [rows |-> RowsOf(g), row |-> (d - 1) + 1, col |-> (WIDTH - 1) + 1]
    BY <2>4 DEF At
  <2>7. (d - 1) + 1 = d /\ (d + 1) - 1 = d /\ (WIDTH - 1) + 1 = WIDTH
    BY <1>1, <1>2
  <2> HIDE DEF t, d, e, g
  <2>8. T!Back(t) = [t EXCEPT !.rows[t.row - 1][WIDTH] = blank, !.row = @ - 1, !.col = WIDTH]
    BY <1>3, <1>4, <1>7 DEF T!Back
  <2>9. T!Back(t) = [rows |-> [RowsOf(f) EXCEPT ![d][WIDTH] = blank], row |-> d, col |-> WIDTH]
    BY <1>3, <2>7, <2>8
  <2> QED
    BY <2>3, <2>5, <2>6, <2>7, <2>9 DEF t, g
<1>8. CASE ~(e + 1 > 1) /\ ~(d + 1 > 1)
  <2>1. d = 0 /\ e = 0
    BY <1>1, <1>8
  <2>2. p = 0
    BY <1>1, <1>2, <2>1
  <2> HIDE DEF t, d, e
  <2>3. T!Back(t) = t
    BY <1>3, <1>8 DEF T!Back
  <2> QED
    BY <2>2, <2>3 DEF t
<1> QED
    BY <1>6, <1>7, <1>8

(* A tab: the cells from p on, n of them, are blank.                       *)
Blanked(f, p, n) == [i \in Cells |-> IF i \in p .. p + n - 1 THEN blank ELSE f[i]]

LEMMA BlankedStep ==
    ASSUME ScreenInv, NEW f \in Screens, NEW p \in Cells, NEW n \in Nat, p + n < CELLS
    PROVE  /\ Blanked(f, p, n) \in Screens /\ p + n \in Cells
           /\ [Blanked(f, p, n) EXCEPT ![p + n] = blank] = Blanked(f, p, n + 1)
<1>1. p \in Nat /\ p + n \in Cells
    BY Positions DEF Cells
<1>2. Blanked(f, p, n) \in Screens
    BY BlankType DEF Blanked, Screens
<1>3. ASSUME NEW i \in Cells
      PROVE  i \in p .. p + (n + 1) - 1 <=> i = p + n \/ i \in p .. p + n - 1
    BY <1>1, Positions
<1>4. [Blanked(f, p, n) EXCEPT ![p + n] = blank] = Blanked(f, p, n + 1)
    BY <1>1, <1>3 DEF Blanked
<1> QED
    BY <1>1, <1>2, <1>4

LEMMA ToEndAt ==
    ASSUME NEW f, NEW p \in Cells
    PROVE  T!ToEnd(At(f, p)) = CELLS - p
<1> DEFINE d == p \div WIDTH
           e == p % WIDTH
<1>1. /\ d \in Nat /\ e \in Nat /\ d * WIDTH + e = p /\ d * WIDTH \in Nat /\ d + 1 \in 1 .. HEIGHT
      /\ WIDTH \in Nat /\ HEIGHT \in Nat
    BY PlaceOf, Positions, Division
<1>2. At(f, p).row = d + 1 /\ At(f, p).col = e + 1
    BY AtFields
<1>3. T!ToEnd(At(f, p)) = (HEIGHT - (d + 1)) * WIDTH + WIDTH - (e + 1) + 1
    BY <1>2 DEF T!ToEnd
<1> HIDE DEF d, e
<1>4. (HEIGHT - (d + 1)) * WIDTH = WIDTH * HEIGHT - d * WIDTH - WIDTH
    BY <1>1
<1>5. WIDTH * HEIGHT \in Nat
    BY <1>1
<1> QED
    BY <1>1, <1>3, <1>4, <1>5 DEF CELLS

LEMMA TabAfter ==
    ASSUME ScreenInv, NEW f \in Screens, NEW p \in Cells
    PROVE  T!Tabbed(At(f, p)) = After(Blanked(f, p, TAB), p + TAB)
<1> DEFINE t == At(f, p)
           n == T!Blanks(t)
           place(i) == After(Blanked(f, p, i), p + i)
           P(g) == g = [i \in 0 .. n |-> IF i = 0 THEN t ELSE T!Put(g[i - 1], T!Space)]
           h == CHOOSE g : P(g)
<1>1. T!Tabbed(t) = h[n]
    BY DEF T!Tabbed
<1>2. /\ p \in Nat /\ p < CELLS /\ CELLS \in Nat /\ TAB \in Nat /\ TAB >= 1
    BY Positions
<1>3. n = IF CELLS - p < TAB THEN CELLS - p ELSE TAB
    BY ToEndAt DEF T!Blanks
<1>4. n \in Nat /\ n >= 1 /\ p + n <= CELLS
    BY <1>2, <1>3
<1>5. T!Space = blank /\ blank \in Values
    BY BlankType DEF T!Space, blank, SPACE, Values
<1> HIDE DEF n, t
<1>6. place(0) = t
  <2>1. \A i \in Cells : ~(i \in p .. p + 0 - 1)
    BY <1>2, Positions
  <2>2. Blanked(f, p, 0) = f
    BY <2>1 DEF Blanked, Screens
  <2>3. p + 0 = p /\ ~(p >= CELLS)
    BY <1>2
  <2> QED
    BY <2>2, <2>3 DEF After, t
<1>7. ASSUME NEW i \in 1 .. n PROVE place(i) = T!Put(place(i - 1), T!Space)
  <2>1. PICK m : m = i - 1
    OBVIOUS
  <2>2. m \in Nat /\ p + m < CELLS /\ i = m + 1 /\ p + i = (p + m) + 1 /\ ~(p + m >= CELLS)
    BY <1>2, <1>4, <2>1
  <2>3. /\ Blanked(f, p, m) \in Screens /\ p + m \in Cells
        /\ [Blanked(f, p, m) EXCEPT ![p + m] = blank] = Blanked(f, p, m + 1)
    BY <2>2, BlankedStep
  <2>4. place(m) = At(Blanked(f, p, m), p + m)
    BY <2>2 DEF After
  <2> DEFINE B == Blanked(f, p, m)
  <2> HIDE DEF B
  <2>5. T!Put(At(B, p + m), blank) = After([B EXCEPT ![p + m] = blank], (p + m) + 1)
    BY <1>5, <2>3, PutAfter DEF B
  <2>6. T!Put(place(m), blank) = place(m + 1)
    BY <2>2, <2>3, <2>4, <2>5 DEF B
  <2> HIDE DEF place
  <2> QED
    BY <1>5, <2>1, <2>2, <2>6
<1> HIDE DEF place
<1>8. P([i \in 0 .. n |-> place(i)])
  <2> DEFINE w == [i \in 0 .. n |-> place(i)]
  <2>1. ASSUME NEW i \in 0 .. n
        PROVE  w[i] = IF i = 0 THEN t ELSE T!Put(w[i - 1], T!Space)
    <3>1. CASE i = 0
      BY <1>6, <3>1
    <3>2. CASE i # 0
      <4>1. i \in 1 .. n /\ i - 1 \in 0 .. n
        BY <1>4, <3>2
      <4>2. w[i] = place(i) /\ w[i - 1] = place(i - 1)
        BY <4>1
      <4> QED
        BY <1>7, <3>2, <4>1, <4>2
    <3> QED
      BY <3>1, <3>2
  <2>2. w = [i \in 0 .. n |-> w[i]]
    OBVIOUS
  <2> HIDE DEF w
  <2>3. w = [i \in 0 .. n |-> IF i = 0 THEN t ELSE T!Put(w[i - 1], T!Space)]
    BY <2>1, <2>2
  <2> QED
    BY <2>3 DEF w
<1>9. P(h)
  <2> HIDE DEF P
  <2> QED
    BY <1>8
<1> HIDE DEF h
<1>10. \A i \in 0 .. n : h[i] = IF i = 0 THEN t ELSE T!Put(h[i - 1], T!Space)
    BY <1>9
<1> DEFINE S == {i \in 0 .. n : h[i] = place(i)}
<1>11. \A i \in 0 .. n : i \in S
  <2>1. 0 .. n \in SUBSET Int /\ 1 \in Nat
    OBVIOUS
  <2>2. \A i \in 0 .. n : i < 1 => i \in S
    <3>1. \A i \in 0 .. n : i < 1 => i = 0
      BY <1>4
    <3> QED
      BY <1>6, <1>10, <3>1
  <2>3. ASSUME NEW i \in 0 .. n, i >= 1, \A m \in 0 .. n : m < i => m \in S PROVE i \in S
    <3>1. i \in 1 .. n /\ i - 1 \in 0 .. n /\ i - 1 < i /\ i # 0
      BY <1>4, <2>3
    <3>2. h[i - 1] = place(i - 1)
      BY <2>3, <3>1
    <3>3. h[i] = T!Put(h[i - 1], T!Space)
      BY <1>10, <3>1
    <3> QED
      BY <1>7, <3>1, <3>2, <3>3
  <2>4. \A i \in 0 .. n : i >= 1 /\ (\A m \in 0 .. n : m < i => m \in S) => i \in S
    BY <2>3
  <2> HIDE DEF S
  <2> QED
    BY <2>1, <2>2, <2>4, Induction, ZenonT(60)
<1>12. T!Tabbed(t) = place(n)
  <2>1. n \in 0 .. n
    BY <1>4
  <2> QED
    BY <1>1, <1>11, <2>1
<1>13. place(n) = place(TAB)
  <2>1. CASE ~(CELLS - p < TAB)
    BY <1>3, <2>1
  <2>2. CASE CELLS - p < TAB
    <3>1. p + n = CELLS /\ p + n >= CELLS /\ p + TAB >= CELLS
      BY <1>2, <1>3, <2>2
    <3>2. ASSUME NEW i \in Cells PROVE i \in p .. p + n - 1 <=> i \in p .. p + TAB - 1
      <4>1. i \in Nat /\ i < CELLS /\ i <= p + n - 1 /\ i <= p + TAB - 1
        BY <1>2, <1>4, <3>1, Positions
      <4> QED
        BY <1>2, <1>4, <4>1
    <3>3. Blanked(f, p, n) = Blanked(f, p, TAB)
      BY <3>2 DEF Blanked
    <3> QED
      BY <3>1, <3>3 DEF place, After
  <2> QED
    BY <2>1, <2>2
<1> QED
    BY <1>12, <1>13 DEF place, t

LEMMA TypeStep ==
    ASSUME ScreenInv, NEW c \in 0 .. 127, fb_write_char(c)
    PROVE  At(fb', cursor_pos') = T!Typed(At(fb, cursor_pos), c)
<1> DEFINE p == cursor_pos
           t == At(fb, p)
<1>1. fb \in Screens /\ p \in Cells /\ p \in Nat /\ p < CELLS /\ WIDTH \in Nat
    BY Positions DEF ScreenInv, Screens
<1> HIDE DEF p
<1>2. blank \in Values /\ <<c, current>> \in Values
    BY BlankType DEF Values
<1>3. CASE c = LF
  <2>1. newline
    BY <1>3 DEF fb_write_char, BS, CR, HT, LF
  <2>2. At(fb', cursor_pos') = After(fb, ((p + WIDTH) \div WIDTH) * WIDTH)
    BY <2>1, ScrolledAfter DEF newline, p
  <2>3. ((p + WIDTH) \div WIDTH) * WIDTH = ((p \div WIDTH) + 1) * WIDTH
    BY <1>1, NextPlace
  <2>4. T!Typed(t, c) = T!NextRow(t)
    BY <1>3 DEF T!Typed, LF
  <2> QED
    BY <1>1, <2>2, <2>3, <2>4, NextRowAfter DEF p
<1>4. CASE c = HT
  <2>1. tab
    BY <1>4 DEF fb_write_char, BS, CR, HT, LF
  <2>2. At(fb', cursor_pos') = After(Blanked(fb, p, TAB), p + TAB)
    BY <2>1, ScrolledAfter DEF tab, p, Blanked
  <2>3. T!Typed(t, c) = T!Tabbed(t)
    BY <1>4 DEF T!Typed, HT
  <2> QED
    BY <1>1, <2>2, <2>3, TabAfter DEF p
<1>5. CASE c = CR
  <2> DEFINE q == (p \div WIDTH) * WIDTH
             d == p \div WIDTH
  <2>1. return
    BY <1>5 DEF fb_write_char, BS, CR, HT, LF
  <2>2. At(fb', cursor_pos') = After(fb, q)
    BY <2>1, ScrolledAfter DEF return, p
  <2>3. d \in Nat /\ q + (p % WIDTH) = p /\ p % WIDTH \in Nat /\ 0 < WIDTH
    BY <1>1, PlaceOf, Positions
  <2>4. q \in Nat /\ ~(q >= CELLS) /\ q + 0 = q
    <3>1. q \in Nat
      BY <1>1, <2>3
    <3> HIDE DEF q
    <3> QED
      BY <1>1, <2>3, <3>1, Positions
  <2>5. q \div WIDTH = d /\ q % WIDTH = 0
    <3>1. 0 \in Nat
      OBVIOUS
    <3>2. (d * WIDTH + 0) \div WIDTH = d /\ (d * WIDTH + 0) % WIDTH = 0
      BY <2>3, <3>1, DivisionUnique
    <3> QED
      BY <2>4, <3>2
  <2> HIDE DEF q, d
  <2>6. After(fb, q) = [rows |-> RowsOf(fb), row |-> d + 1, col |-> 0 + 1]
    BY <2>4, <2>5 DEF After, At
  <2>7. T!Typed(t, c) = [t EXCEPT !.col = 1]
    BY <1>5 DEF T!Typed, CR
  <2>8. t = [rows |-> RowsOf(fb), row |-> d + 1, col |-> (p % WIDTH) + 1]
    BY DEF At, d
  <2>9. 0 + 1 = 1
    OBVIOUS
  <2> HIDE DEF t
  <2>10. T!Typed(t, c) = After(fb, q)
    BY <2>6, <2>7, <2>8, <2>9
  <2> QED
    BY <2>2, <2>10 DEF t, p
<1>6. CASE c = BS
  <2>1. backspace
    BY <1>6 DEF fb_write_char, BS, CR, HT, LF
  <2>2. T!Typed(t, c) = T!Back(t)
    BY <1>6 DEF T!Typed, BS
  <2>3. T!Back(t) = IF p = 0 THEN At(fb, 0) ELSE At([fb EXCEPT ![p - 1] = blank], p - 1)
    BY <1>1, BackAfter
  <2>4. CASE p = 0
    <3>1. scrolled(fb, 0)
      BY <2>1, <2>4 DEF backspace, p
    <3>2. ~(0 >= CELLS)
      BY <1>1, <2>4, Positions
    <3>3. At(fb', cursor_pos') = At(fb, 0)
      BY <3>1, <3>2, ScrolledAfter DEF After
    <3> QED
      BY <2>2, <2>3, <2>4, <3>3 DEF p
  <2>5. CASE p # 0
    <3>1. scrolled(fb_write_cell(fb, p - 1, blank), p - 1)
      BY <2>1, <2>5 DEF backspace, p
    <3>2. p - 1 < CELLS /\ ~(p - 1 >= CELLS)
      BY <1>1, Positions
    <3>3. scrolled([fb EXCEPT ![p - 1] = blank], p - 1)
      BY <3>1, <3>2 DEF fb_write_cell
    <3>4. At(fb', cursor_pos') = At([fb EXCEPT ![p - 1] = blank], p - 1)
      BY <3>2, <3>3, ScrolledAfter DEF After
    <3> QED
      BY <2>2, <2>3, <2>5, <3>4 DEF p
  <2> QED
    BY <2>4, <2>5
<1>7. CASE c \notin {LF, HT, CR, BS}
  <2> DEFINE cell == <<c, current>>
  <2>1. glyph(c)
    BY <1>7 DEF fb_write_char
  <2>2. scrolled(fb_write_cell(fb, p, cell), p + 1)
    BY <2>1 DEF glyph, p
  <2>3. scrolled([fb EXCEPT ![p] = cell], p + 1)
    BY <1>1, <2>2 DEF fb_write_cell
  <2>4. T!Typed(t, c) = T!Put(t, cell)
    BY <1>7 DEF T!Typed, LF, HT, CR, BS
  <2>5. cell \in Values
    BY <1>2
  <2> HIDE DEF cell
  <2>6. At(fb', cursor_pos') = After([fb EXCEPT ![p] = cell], p + 1)
    BY <2>3, ScrolledAfter
  <2>7. T!Put(At(fb, p), cell) = After([fb EXCEPT ![p] = cell], p + 1)
    BY <1>1, <2>5, PutAfter
  <2> QED
    BY <2>4, <2>6, <2>7 DEF p
<1> QED
    BY <1>3, <1>4, <1>5, <1>6, <1>7

LEMMA TerminalPlace ==
    /\ T!Place = At(fb, cursor_pos) /\ T!Place' = At(fb', cursor_pos')
    BY DEF T!Place, At, RowsOf

LEMMA TerminalVars ==
    ASSUME UNCHANGED screen
    PROVE  UNCHANGED T!vars
    BY DEF screen, T!vars

LEMMA TerminalClear ==
    ASSUME ScreenInv, fb_clear
    PROVE  T!Clear
<1>1. fb' = [i \in Cells |-> blank] /\ cursor_pos' = 0 /\ current' = current
    BY DEF fb_clear
<1>2. RowsOf(fb') = [r \in 1 .. HEIGHT |-> T!EmptyRow]
  <2>1. T!EmptyRow = [k \in 1 .. WIDTH |-> blank]
    BY DEF T!EmptyRow, T!Space, blank, SPACE
  <2>2. \A r \in 1 .. HEIGHT, k \in 1 .. WIDTH : fb'[(r - 1) * WIDTH + k - 1] = blank
    BY <1>1, CellOf
  <2> QED
    BY <2>1, <2>2 DEF RowsOf
<1>3. 0 \div WIDTH = 0 /\ 0 % WIDTH = 0
  <2>1. 0 * WIDTH + 0 = 0 /\ 0 \in Nat /\ 0 < WIDTH
    BY Positions
  <2> QED
    BY <2>1, DivisionUnique
<1>4. (cursor_pos' \div WIDTH) + 1 = 1 /\ (cursor_pos' % WIDTH) + 1 = 1
    BY <1>1, <1>3
<1> QED
    BY <1>1, <1>2, <1>4 DEF T!Clear, RowsOf

LEMMA TerminalOverwrite ==
    ASSUME ScreenInv, NEW p \in Cells, NEW cell, fb' = [fb EXCEPT ![p] = cell],
           cursor_pos' = cursor_pos, current' = current
    PROVE  T!Overwrite
<1> DEFINE r == (p \div WIDTH) + 1
           k == (p % WIDTH) + 1
           index(q, j) == (q - 1) * WIDTH + j - 1
<1>1. r \in 1 .. HEIGHT /\ k \in 1 .. WIDTH
    BY PlaceOf
<1>2. ASSUME NEW q \in 1 .. HEIGHT, NEW j \in 1 .. WIDTH, <<q, j>> # <<r, k>>
      PROVE  fb'[index(q, j)] = fb[index(q, j)]
  <2>1. index(q, j) \in Cells /\ index(q, j) \div WIDTH = q - 1 /\ index(q, j) % WIDTH = j - 1
    BY CellOf
  <2>2. index(q, j) = p => q = r /\ j = k
    BY <2>1
  <2> HIDE DEF r, k, index
  <2> QED
    BY <1>2, <2>1, <2>2 DEF ScreenInv
<1>3. ASSUME NEW q \in 1 .. HEIGHT, NEW j \in 1 .. WIDTH
      PROVE  RowsOf(fb)[q][j] = fb[index(q, j)] /\ RowsOf(fb')[q][j] = fb'[index(q, j)]
    BY DEF RowsOf
<1> HIDE DEF r, k, index
<1>4. \A q \in 1 .. HEIGHT, j \in 1 .. WIDTH : <<q, j>> # <<r, k>> => RowsOf(fb')[q][j] = RowsOf(fb)[q][j]
    BY <1>2, <1>3
<1>5. \E s \in 1 .. HEIGHT, l \in 1 .. WIDTH :
        \A q \in 1 .. HEIGHT, j \in 1 .. WIDTH : <<q, j>> # <<s, l>> => RowsOf(fb')[q][j] = RowsOf(fb)[q][j]
    BY <1>1, <1>4
<1> QED
    BY <1>5 DEF T!Overwrite, RowsOf

LEMMA TerminalStep ==
    ASSUME OutputInv, [Next]_vars
    PROVE  [T!Next]_T!vars
<1>1. ScreenInv
    BY DEF OutputInv
<1>2. CASE boot_early_console
    BY <1>1, <1>2, TerminalClear DEF boot_early_console, fb_init, T!Next
<1>3. CASE Decorate
  <2>1. PICK p \in Palette : \/ fb_set_color(p[1], p[2])
                             \/ \E i \in Cells, c \in Chars : fb_direct_write(i, c, p[1], p[2])
    BY <1>3 DEF Decorate
  <2>2. CASE fb_set_color(p[1], p[2])
    <3>1. current' \in Attributes /\ fb' = fb /\ cursor_pos' = cursor_pos
      BY <2>2 DEF fb_set_color, Attributes
    <3> QED
      BY <3>1 DEF T!Next, T!Recolour
  <2>3. ASSUME NEW i \in Cells, NEW c \in Chars, fb_direct_write(i, c, p[1], p[2]) PROVE T!Next
    <3> DEFINE cell == <<c, attribute(p[1], p[2])>>
    <3>1. fb' = fb_write_cell(fb, i, cell) /\ cursor_pos' = cursor_pos /\ current' = current
      BY <2>3 DEF fb_direct_write
    <3> HIDE DEF cell
    <3>2. fb' = [fb EXCEPT ![i] = cell]
      BY <3>1, Positions DEF fb_write_cell
    <3> QED
      BY <1>1, <3>1, <3>2, TerminalOverwrite DEF T!Next
  <2> QED
    BY <2>1, <2>2, <2>3
<1>4. CASE Show
  <2>1. CASE /\ then.texts # << >> /\ Head(then.texts) # << >>
             /\ fb_write_char(Head(Head(then.texts)))
    <3> DEFINE c == Head(Head(then.texts))
               Texts == Seq(Printable)
    <3>1. then.texts \in Seq(Texts) /\ then.texts # << >>
      BY <2>1 DEF OutputInv, KernelInv, Rests
    <3>2. Head(then.texts) \in Texts
      <4> HIDE DEF Texts
      <4> QED
        BY <3>1, SeqElements
    <3>3. c \in Printable
      BY <2>1, <3>2, SeqElements
    <3> HIDE DEF c
    <3>4. c \in 0 .. 127 /\ fb_write_char(c)
      BY <2>1, <3>3, PrintableChars DEF c
    <3>5. T!Place' = T!Typed(T!Place, c)
      BY <1>1, <3>4, TypeStep, TerminalPlace
    <3>6. current' = current
      BY <3>4 DEF fb_write_char
    <3>7. T!Type(c)
      BY <3>5, <3>6 DEF T!Type
    <3> QED
      BY <3>3, <3>7 DEF T!Next
  <2>2. CASE fb_write_end
    BY <2>2 DEF fb_write_end, T!vars
  <2>3. CASE fb_clear
    BY <1>1, <2>3, TerminalClear DEF T!Next
  <2> QED
    BY <1>4, <2>1, <2>2, <2>3 DEF Show
<1>5. CASE UNCHANGED screen
    BY <1>5, TerminalVars
<1>6. CASE MoveCursor \/ isr_common_stub
  <2>1. fb' = fb /\ cursor_pos' = cursor_pos /\ current' = current
    BY <1>6 DEF MoveCursor, outb_display, isr_common_stub, DisplayHit, screen
  <2> QED
    BY <2>1 DEF T!vars
<1>7. boot_early_console \/ Decorate \/ Show \/ MoveCursor \/ isr_common_stub \/ UNCHANGED screen
    BY DEF Next, Log, SYSCALL_PUTS, SYSCALL_WRITE, SYSCALL_PUTCHAR, SYSCALL_IOCTL, boot_idle_forever,
           Call, boot_interrupts_and_input, interrupt_handler, Writing, Line, vars
<1> QED
    BY <1>2, <1>3, <1>4, <1>5, <1>6, <1>7

(* The screen is a terminal, of any width and height and with tabs of any  *)
(* length: what fb_write does to the cells and the position, with its      *)
(* wrapping, scrolling, tabs, carriage returns and backspaces, is what the *)
(* terminal does to its rows, and everything else leaves them alone.       *)
THEOREM OutputImplementsTerminal == Spec => ImplementsTerminal
<1>1. Init => T!Init
  <2>1. 0 \div WIDTH = 0 /\ 0 % WIDTH = 0
    <3>1. 0 * WIDTH + 0 = 0 /\ 0 \in Nat /\ 0 < WIDTH
      BY Positions
    <3> QED
      BY <3>1, DivisionUnique
  <2> QED
    BY <2>1 DEF Init, T!Init, Attributes
<1>2. OutputInv /\ [Next]_vars => [T!Next]_T!vars
    BY TerminalStep
<1> QED
    BY <1>1, <1>2, OutputInductive, PTL DEF Spec, ImplementsTerminal, T!Spec

=============================================================================
