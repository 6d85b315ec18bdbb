------------------------- MODULE PagedAttention_proofs -------------------------
(***************************************************************************)
(* The addresses of the paged KV cache, for every shape of the cache, any  *)
(* number of threads and any arguments: the writers reshape_and_cache and  *)
(* reshape_and_cache_flash and the reader paged_attention agree on them,   *)
(* different elements have different ones, and all are inside the cache.   *)
(*                                                                         *)
(* An address is a numeral: its digits are the block, the head, the        *)
(* dimension and the offset in the block, in the order of the layout, and  *)
(* its radices the extents of the cache.  What the kernels' products and   *)
(* sums compute are these numerals, and a numeral determines its digits.   *)
(*                                                                         *)
(* Then the thread groups that read the cache, in the time between         *)
(* barriers, and last those of CopyBlocks, which copy whole blocks.        *)
(***************************************************************************)
EXTENDS PagedAttention, PagedAttentionKernel, CopyBlocks, TLAPS

Positive == Nat \ {0}

-----------------------------------------------------------------------------
(* Division and numerals *)

LEMMA DivMod ==
    ASSUME NEW n \in Positive, NEW a \in Int
    PROVE  /\ a \div n \in Int /\ a % n \in 0 .. n - 1
           /\ a = (a \div n) * n + (a % n)
BY DEF Positive

LEMMA ProductPositive ==
    ASSUME NEW m \in Positive, NEW n \in Positive
    PROVE  m * n \in Positive
<1>1. m >= 1 /\ n >= 1 /\ m \in Int /\ n \in Int
    BY DEF Positive
<1>2. m * n >= n
    BY <1>1
<1> QED BY <1>1, <1>2 DEF Positive

LEMMA FactorPositive ==
    ASSUME NEW m \in Positive, NEW n \in Int, m * n \in Positive
    PROVE  n \in Positive
<1>1. CASE n <= 0
    <2>1. m * n <= 0
        BY <1>1 DEF Positive
    <2> QED BY <2>1 DEF Positive
<1> QED BY <1>1 DEF Positive

\* A digit more in front.
LEMMA RadixBound ==
    ASSUME NEW m \in Positive, NEW n \in Positive,
           NEW x \in 0 .. m - 1, NEW i \in 0 .. n - 1
    PROVE  x * n + i \in 0 .. m * n - 1
<1>1. x + 1 <= m
    BY DEF Positive
<1>2. (x + 1) * n <= m * n
    BY <1>1 DEF Positive
<1>3. x * n >= 0
    BY DEF Positive
<1> QED BY <1>2, <1>3 DEF Positive

LEMMA RadixUnique ==
    ASSUME NEW n \in Positive, NEW x \in Int, NEW y \in Int,
           NEW i \in 0 .. n - 1, NEW j \in 0 .. n - 1, x * n + i = y * n + j
    PROVE  x = y /\ i = j
<1>1. (x - y) * n = j - i
    BY DEF Positive
<1>2. CASE x > y
    <2>1. (x - y) * n >= n
        BY <1>2 DEF Positive
    <2> QED BY <1>1, <2>1 DEF Positive
<1>3. CASE x < y
    <2>1. (y - x) * n >= n
        BY <1>3 DEF Positive
    <2> QED BY <1>1, <2>1 DEF Positive
<1> QED BY <1>1, <1>2, <1>3 DEF Positive

\* Division finds the digits.
LEMMA DivOfNumeral ==
    ASSUME NEW n \in Positive, NEW x \in Int, NEW i \in 0 .. n - 1
    PROVE  (x * n + i) \div n = x /\ (x * n + i) % n = i
<1> DEFINE a == x * n + i
           k == a \div n
           l == a % n
<1>1. a \in Int
    BY DEF Positive
<1> HIDE DEF a
<1>2. k \in Int /\ l \in 0 .. n - 1 /\ a = k * n + l
    BY <1>1, DivMod
<1> HIDE DEF k, l
<1>3. x * n + i = k * n + l
    BY <1>2 DEF a
<1>4. x = k /\ i = l
    BY <1>2, <1>3, RadixUnique
<1> QED BY <1>4 DEF k, l, a

LEMMA DivBound ==
    ASSUME NEW m \in Positive, NEW n \in Positive, NEW a \in 0 .. m * n - 1
    PROVE  a \div n \in 0 .. m - 1
<1> DEFINE k == a \div n
           l == a % n
<1>1. k \in Int /\ l \in 0 .. n - 1 /\ a = k * n + l
    BY DivMod
<1> HIDE DEF k, l
<1>2. k >= 0
    <2>1. CASE k <= -1
        <3>1. k * n <= (-1) * n
            BY <1>1, <2>1 DEF Positive
        <3> QED BY <1>1, <3>1 DEF Positive
    <2> QED BY <1>1, <2>1
<1>3. k < m
    <2>1. CASE k >= m
        <3>1. k * n >= m * n
            BY <1>1, <2>1 DEF Positive
        <3>2. m * n \in Int
            BY DEF Positive
        <3> QED BY <1>1, <3>1, <3>2 DEF Positive
    <2> QED BY <1>1, <2>1 DEF Positive
<1>4. k \in 0 .. m - 1
    BY <1>1, <1>2, <1>3 DEF Positive
<1> QED BY <1>4 DEF k

\* Four digits a, b, c, d, with radices k, l, m, n.
LEMMA FourDigits ==
    ASSUME NEW k \in Positive, NEW l \in Positive, NEW m \in Positive, NEW n \in Positive,
           NEW a \in 0 .. k - 1, NEW b \in 0 .. l - 1, NEW c \in 0 .. m - 1,
           NEW d \in 0 .. n - 1
    PROVE  ((a * l + b) * m + c) * n + d \in 0 .. k * l * m * n - 1
<1> DEFINE ab == a * l + b
           abc == ab * m + c
           kl == k * l
           klm == kl * m
<1>1. ab \in 0 .. kl - 1 /\ kl \in Positive
    BY RadixBound, ProductPositive
<1> HIDE DEF ab, kl
<1>2. abc \in 0 .. klm - 1 /\ klm \in Positive
    BY <1>1, RadixBound, ProductPositive
<1> HIDE DEF abc, klm
<1>3. abc * n + d \in 0 .. klm * n - 1
    BY <1>2, RadixBound
<1> QED BY <1>3 DEF abc, klm, ab, kl

LEMMA FourDigitsUnique ==
    ASSUME NEW l \in Positive, NEW m \in Positive, NEW n \in Positive,
           NEW a \in Int, NEW b \in 0 .. l - 1, NEW c \in 0 .. m - 1, NEW d \in 0 .. n - 1,
           NEW w \in Int, NEW x \in 0 .. l - 1, NEW y \in 0 .. m - 1, NEW z \in 0 .. n - 1,
           ((a * l + b) * m + c) * n + d = ((w * l + x) * m + y) * n + z
    PROVE  a = w /\ b = x /\ c = y /\ d = z
<1> DEFINE ab == a * l + b
           abc == ab * m + c
           wx == w * l + x
           wxy == wx * m + y
<1>1. ab \in Int /\ wx \in Int
    BY DEF Positive
<1> HIDE DEF ab, wx
<1>2. abc \in Int /\ wxy \in Int
    BY <1>1 DEF Positive
<1>3. abc * n + d = wxy * n + z
    BY DEF ab, wx
<1> HIDE DEF abc, wxy
<1>4. abc = wxy /\ d = z
    BY <1>2, <1>3, RadixUnique
<1>5. ab * m + c = wx * m + y
    BY <1>4 DEF abc, wxy
<1>6. ab = wx /\ c = y
    BY <1>1, <1>5, RadixUnique
<1>7. a * l + b = w * l + x
    BY <1>6 DEF ab, wx
<1>8. a = w /\ b = x
    BY <1>7, RadixUnique
<1> QED BY <1>4, <1>6, <1>8

-----------------------------------------------------------------------------
(* The cells of the cache *)

LEMMA Shape ==
    ASSUME call \in Calls
    PROVE  /\ NumBlocks \in Positive /\ NumHeads \in Positive /\ HeadSize \in Positive
           /\ BlockSize \in Positive /\ X \in Positive /\ call.threads \in Positive
           /\ HeadSize \div X \in Positive /\ HeadSize = X * (HeadSize \div X)
           /\ RowSize \in Positive
           /\ \A t \in Token : SlotOf(t) \in Int /\ SlotOf(t) < NumBlocks * BlockSize
           /\ call.layout \in {"paged", "flash"}
<1>1. /\ NumBlocks \in Positive /\ NumHeads \in Positive /\ HeadSize \in Positive
      /\ BlockSize \in Positive /\ X \in Positive /\ call.threads \in Positive
      /\ HeadSize = X * (HeadSize \div X) /\ call.layout \in {"paged", "flash"}
    BY CallsAssumption DEF Positive, NumBlocks, NumHeads, HeadSize, BlockSize, X
<1>2. HeadSize \div X \in Positive
    <2>1. HeadSize \div X \in Int
        BY <1>1, DivMod DEF Positive
    <2> QED BY <1>1, <2>1, FactorPositive
<1>3. \A t \in Token : SlotOf(t) \in Int /\ SlotOf(t) < NumBlocks * BlockSize
    BY CallsAssumption DEF SlotOf, NumBlocks, BlockSize
<1>4. RowSize \in Positive
    BY <1>1, ProductPositive DEF RowSize
<1> QED BY <1>1, <1>2, <1>3, <1>4

\* The digits of a slot and of a dimension.
LEMMA SlotDigits ==
    ASSUME call \in Calls, NEW s \in Slot
    PROVE  /\ s \div BlockSize \in 0 .. NumBlocks - 1 /\ s % BlockSize \in 0 .. BlockSize - 1
           /\ s = (s \div BlockSize) * BlockSize + (s % BlockSize)
<1>1. NumBlocks \in Positive /\ BlockSize \in Positive
    BY Shape
<1>2. s \in 0 .. NumBlocks * BlockSize - 1 /\ s \in Int
    BY DEF Slot
<1> QED BY <1>1, <1>2, DivMod, DivBound

LEMMA DimDigits ==
    ASSUME call \in Calls, NEW d \in Dim
    PROVE  /\ d \div X \in 0 .. (HeadSize \div X) - 1 /\ d % X \in 0 .. X - 1
           /\ d = (d \div X) * X + (d % X)
<1>1. /\ X \in Positive /\ HeadSize \div X \in Positive
      /\ HeadSize = X * (HeadSize \div X) /\ d \in 0 .. HeadSize - 1
    BY Shape DEF Dim
<1> DEFINE g == HeadSize \div X
<1>2. g \in Positive /\ HeadSize = X * g
    BY <1>1
<1> HIDE DEF g
<1>3. X * g = g * X
    BY <1>1, <1>2 DEF Positive
<1>4. d \in 0 .. g * X - 1 /\ d \in Int
    BY <1>1, <1>2, <1>3
<1>5. d \div X \in 0 .. g - 1 /\ d % X \in 0 .. X - 1 /\ d = (d \div X) * X + (d % X)
    BY <1>1, <1>2, <1>4, DivMod, DivBound
<1> QED BY <1>5 DEF g

\* The numerals, for block b, offset o in it, head h, and dimension d or its
\* digits g and r.
PagedKeyCell(b, o, h, g, r) ==
    (((b * NumHeads + h) * (HeadSize \div X) + g) * BlockSize + o) * X + r
PagedValueCell(b, o, h, d) == ((b * NumHeads + h) * HeadSize + d) * BlockSize + o
FlashCell(b, o, h, d) == ((b * BlockSize + o) * NumHeads + h) * HeadSize + d

\* What the paged kernels compute are these numerals.
LEMMA PagedKeyIsNumeral ==
    ASSUME call \in Calls, NEW b \in Int, NEW o \in Int, NEW h \in Int, NEW g \in Int,
           NEW r \in Int
    PROVE  b * BlockStride + h * HeadStride + g * BlockSize * X + o * X + r
              = PagedKeyCell(b, o, h, g, r)
<1> DEFINE N == NumHeads
           G == HeadSize \div X
           B == BlockSize
           x == X
<1>1. N \in Int /\ G \in Int /\ B \in Int /\ x \in Int
    BY Shape DEF Positive
<1>2. BlockStride = N * G * B * x /\ HeadStride = G * B * x
    BY DEF BlockStride, HeadStride
<1> HIDE DEF N, G, B, x
<1>3. b * (N * G * B * x) + h * (G * B * x) + g * B * x + o * x + r
        = (((b * N + h) * G + g) * B + o) * x + r
    BY <1>1
<1>4. b * BlockStride + h * HeadStride + g * B * x + o * x + r
        = (((b * N + h) * G + g) * B + o) * x + r
    BY <1>2, <1>3
<1> QED BY <1>4 DEF PagedKeyCell, N, G, B, x

LEMMA PagedValueIsNumeral ==
    ASSUME call \in Calls, NEW b \in Int, NEW o \in Int, NEW h \in Int, NEW d \in Int
    PROVE  /\ b * BlockStride + h * HeadStride + d * BlockSize + o
                = PagedValueCell(b, o, h, d)
           /\ b * (NumHeads * HeadSize * BlockSize) + h * (HeadSize * BlockSize)
                  + d * BlockSize + o
                = PagedValueCell(b, o, h, d)
<1> DEFINE N == NumHeads
           G == HeadSize \div X
           B == BlockSize
           x == X
           S == HeadSize
<1>1. N \in Int /\ G \in Int /\ B \in Int /\ x \in Int /\ S \in Int /\ S = x * G
    BY Shape DEF Positive
<1>2. BlockStride = N * G * B * x /\ HeadStride = G * B * x
    BY DEF BlockStride, HeadStride
<1> HIDE DEF N, G, B, x, S
<1>3. /\ b * (N * G * B * x) + h * (G * B * x) + d * B + o
            = ((b * N + h) * (x * G) + d) * B + o
      /\ b * (N * S * B) + h * (S * B) + d * B + o = ((b * N + h) * S + d) * B + o
    BY <1>1
<1>4. b * BlockStride + h * HeadStride + d * B + o = ((b * N + h) * S + d) * B + o
    BY <1>1, <1>2, <1>3
<1> QED BY <1>3, <1>4 DEF PagedValueCell, N, B, S

LEMMA FlashIsNumeral ==
    ASSUME call \in Calls, NEW b \in Int, NEW o \in Int, NEW h \in Int, NEW d \in Int
    PROVE  b * BlockSize * NumHeads * HeadSize + o * NumHeads * HeadSize + (h * HeadSize + d)
              = FlashCell(b, o, h, d)
<1> DEFINE N == NumHeads
           B == BlockSize
           S == HeadSize
<1>1. N \in Int /\ B \in Int /\ S \in Int
    BY Shape DEF Positive
<1> HIDE DEF N, B, S
<1>2. b * B * N * S + o * N * S + (h * S + d) = ((b * B + o) * N + h) * S + d
    BY <1>1
<1> QED BY <1>2 DEF FlashCell, N, B, S

\* Every cell is inside the cache.
LEMMA CellsInCache ==
    ASSUME call \in Calls, NEW b \in 0 .. NumBlocks - 1, NEW o \in 0 .. BlockSize - 1,
           NEW h \in KvHead
    PROVE  /\ \A g \in 0 .. (HeadSize \div X) - 1, r \in 0 .. X - 1 :
                PagedKeyCell(b, o, h, g, r) \in Address
           /\ \A d \in Dim : /\ PagedValueCell(b, o, h, d) \in Address
                             /\ FlashCell(b, o, h, d) \in Address
<1> DEFINE K == NumBlocks
           N == NumHeads
           G == HeadSize \div X
           B == BlockSize
           x == X
           S == HeadSize
<1>1. /\ K \in Positive /\ N \in Positive /\ G \in Positive /\ B \in Positive
      /\ x \in Positive /\ S \in Positive /\ S = x * G
    BY Shape
<1>2. Address = 0 .. K * B * (N * S) - 1
    BY DEF Address, RowSize
<1>3. b \in 0 .. K - 1 /\ o \in 0 .. B - 1 /\ h \in 0 .. N - 1
    BY DEF KvHead
<1> HIDE DEF K, N, G, B, x, S
<1>4. /\ K * N * S * B = K * B * (N * S) /\ K * B * N * S = K * B * (N * S)
      /\ (K * N * G * B) * x = K * B * (N * (x * G))
    BY <1>1 DEF Positive
<1>5. ASSUME NEW d \in Dim
      PROVE  PagedValueCell(b, o, h, d) \in Address /\ FlashCell(b, o, h, d) \in Address
    <2>1. d \in 0 .. S - 1
        BY DEF Dim, S
    <2>2. /\ ((b * N + h) * S + d) * B + o \in 0 .. K * N * S * B - 1
          /\ ((b * B + o) * N + h) * S + d \in 0 .. K * B * N * S - 1
        BY <1>1, <1>3, <2>1, FourDigits
    <2>3. /\ ((b * N + h) * S + d) * B + o \in Address
          /\ ((b * B + o) * N + h) * S + d \in Address
        BY <1>2, <1>4, <2>2
    <2> QED BY <2>3 DEF PagedValueCell, FlashCell, N, S, B
<1>6. ASSUME NEW g \in 0 .. G - 1, NEW r \in 0 .. x - 1
      PROVE  PagedKeyCell(b, o, h, g, r) \in Address
    <2> DEFINE a == ((b * N + h) * G + g) * B + o
               m == K * N * G * B
    <2>1. a \in 0 .. m - 1
        BY <1>1, <1>3, <1>6, FourDigits
    <2>2. m \in Positive
        <3>1. K * N \in Positive
            BY <1>1, ProductPositive
        <3>2. (K * N) * G \in Positive
            BY <1>1, <3>1, ProductPositive
        <3> QED BY <1>1, <3>2, ProductPositive
    <2> HIDE DEF a, m
    <2>3. a * x + r \in 0 .. m * x - 1
        BY <1>1, <1>6, <2>1, <2>2, RadixBound
    <2>4. m * x = K * B * (N * S)
        BY <1>1, <1>4 DEF m
    <2>5. a * x + r \in Address
        BY <1>2, <2>3, <2>4
    <2> QED BY <2>5 DEF PagedKeyCell, a, N, G, B, x
<1> QED BY <1>5, <1>6 DEF G, x

-----------------------------------------------------------------------------
(* Readers and writers *)

\* Where a reader looks.
LEMMA ReadIsNumeral ==
    ASSUME call \in Calls, NEW s \in Slot, NEW h \in KvHead, NEW d \in Dim
    PROVE  LET b == s \div BlockSize
               o == s % BlockSize
           IN  /\ call.layout = "flash" =>
                    /\ KeyRead(s, h, d) = FlashCell(b, o, h, d)
                    /\ ValueRead(s, h, d) = FlashCell(b, o, h, d)
               /\ call.layout = "paged" =>
                    /\ KeyRead(s, h, d) = PagedKeyCell(b, o, h, d \div X, d % X)
                    /\ ValueRead(s, h, d) = PagedValueCell(b, o, h, d)
<1> DEFINE b == s \div BlockSize
           o == s % BlockSize
           g == d \div X
           r == d % X
<1>1. b \in Int /\ o \in Int /\ g \in Int /\ r \in Int /\ h \in Int /\ d \in Int
    <2>1. h \in Int /\ d \in Int
        BY DEF KvHead, Dim
    <2> QED BY <2>1, SlotDigits, DimDigits
<1>2. CASE call.layout = "flash"
    BY <1>2 DEF KeyRead, ValueRead, RowMajor, FlashCell
<1>3. CASE call.layout = "paged"
    <2>1. /\ KeyRead(s, h, d) = b * BlockStride + h * HeadStride + g * BlockSize * X + o * X + r
          /\ ValueRead(s, h, d) = b * BlockStride + h * HeadStride + d * BlockSize + o
        BY <1>3 DEF KeyRead, ValueRead
    <2> HIDE DEF b, o, g, r
    <2>2. /\ KeyRead(s, h, d) = PagedKeyCell(b, o, h, g, r)
          /\ ValueRead(s, h, d) = PagedValueCell(b, o, h, d)
        BY <1>1, <2>1, PagedKeyIsNumeral, PagedValueIsNumeral
    <2> QED BY <1>3, <2>2 DEF b, o, g, r
<1> QED BY <1>2, <1>3

LEMMA ReadInCache ==
    ASSUME call \in Calls, NEW s \in Slot, NEW h \in KvHead, NEW d \in Dim
    PROVE  KeyRead(s, h, d) \in Address /\ ValueRead(s, h, d) \in Address
<1> DEFINE b == s \div BlockSize
           o == s % BlockSize
           g == d \div X
           r == d % X
<1>1. /\ b \in 0 .. NumBlocks - 1 /\ o \in 0 .. BlockSize - 1
      /\ g \in 0 .. (HeadSize \div X) - 1 /\ r \in 0 .. X - 1
    BY SlotDigits, DimDigits
<1>2. /\ call.layout = "flash" =>
            KeyRead(s, h, d) = FlashCell(b, o, h, d) /\ ValueRead(s, h, d) = FlashCell(b, o, h, d)
      /\ call.layout = "paged" =>
            KeyRead(s, h, d) = PagedKeyCell(b, o, h, g, r)
            /\ ValueRead(s, h, d) = PagedValueCell(b, o, h, d)
    BY ReadIsNumeral
<1> HIDE DEF b, o, g, r
<1>3. /\ PagedKeyCell(b, o, h, g, r) \in Address /\ PagedValueCell(b, o, h, d) \in Address
      /\ FlashCell(b, o, h, d) \in Address
    BY <1>1, CellsInCache
<1>4. call.layout \in {"paged", "flash"}
    BY Shape
<1> QED BY <1>2, <1>3, <1>4

\* Two elements are never at one address.
LEMMA ReadUnique ==
    ASSUME call \in Calls, NEW s \in Slot, NEW h \in KvHead, NEW d \in Dim,
           NEW t \in Slot, NEW i \in KvHead, NEW e \in Dim
    PROVE  /\ KeyRead(s, h, d) = KeyRead(t, i, e) => s = t /\ h = i /\ d = e
           /\ ValueRead(s, h, d) = ValueRead(t, i, e) => s = t /\ h = i /\ d = e
<1> DEFINE K == NumBlocks
           N == NumHeads
           G == HeadSize \div X
           B == BlockSize
           x == X
           S == HeadSize
           b == s \div B
           o == s % B
           c == t \div B
           p == t % B
           g == d \div x
           r == d % x
           f == e \div x
           q == e % x
<1>1. /\ N \in Positive /\ G \in Positive /\ B \in Positive /\ x \in Positive /\ S \in Positive
      /\ call.layout \in {"paged", "flash"}
    BY Shape
<1>2. /\ b \in Int /\ o \in 0 .. B - 1 /\ s = b * B + o
      /\ c \in Int /\ p \in 0 .. B - 1 /\ t = c * B + p
    BY SlotDigits
<1>3. /\ g \in 0 .. G - 1 /\ r \in 0 .. x - 1 /\ d = g * x + r
      /\ f \in 0 .. G - 1 /\ q \in 0 .. x - 1 /\ e = f * x + q
    BY DimDigits
<1>4. h \in 0 .. N - 1 /\ i \in 0 .. N - 1 /\ d \in 0 .. S - 1 /\ e \in 0 .. S - 1
    BY DEF KvHead, Dim
<1>5. /\ call.layout = "flash" =>
            /\ KeyRead(s, h, d) = FlashCell(b, o, h, d)
            /\ ValueRead(s, h, d) = FlashCell(b, o, h, d)
            /\ KeyRead(t, i, e) = FlashCell(c, p, i, e)
            /\ ValueRead(t, i, e) = FlashCell(c, p, i, e)
      /\ call.layout = "paged" =>
            /\ KeyRead(s, h, d) = PagedKeyCell(b, o, h, g, r)
            /\ ValueRead(s, h, d) = PagedValueCell(b, o, h, d)
            /\ KeyRead(t, i, e) = PagedKeyCell(c, p, i, f, q)
            /\ ValueRead(t, i, e) = PagedValueCell(c, p, i, e)
    BY ReadIsNumeral
<1>6. /\ FlashCell(b, o, h, d) = ((b * B + o) * N + h) * S + d
      /\ FlashCell(c, p, i, e) = ((c * B + p) * N + i) * S + e
      /\ PagedValueCell(b, o, h, d) = ((b * N + h) * S + d) * B + o
      /\ PagedValueCell(c, p, i, e) = ((c * N + i) * S + e) * B + p
      /\ PagedKeyCell(b, o, h, g, r) = (((b * N + h) * G + g) * B + o) * x + r
      /\ PagedKeyCell(c, p, i, f, q) = (((c * N + i) * G + f) * B + p) * x + q
    BY DEF FlashCell, PagedValueCell, PagedKeyCell
<1> HIDE DEF K, N, G, B, x, S, b, o, c, p, g, r, f, q
<1>7. ((b * B + o) * N + h) * S + d = ((c * B + p) * N + i) * S + e
        => s = t /\ h = i /\ d = e
    BY <1>1, <1>2, <1>4, FourDigitsUnique
<1>8. ((b * N + h) * S + d) * B + o = ((c * N + i) * S + e) * B + p
        => s = t /\ h = i /\ d = e
    BY <1>1, <1>2, <1>4, FourDigitsUnique
<1>9. ASSUME (((b * N + h) * G + g) * B + o) * x + r = (((c * N + i) * G + f) * B + p) * x + q
      PROVE  s = t /\ h = i /\ d = e
    <2> DEFINE y == ((b * N + h) * G + g) * B + o
               z == ((c * N + i) * G + f) * B + p
    <2>1. y \in Int /\ z \in Int
        BY <1>1, <1>2, <1>3, <1>4 DEF Positive
    <2>2. y * x + r = z * x + q
        BY <1>9
    <2> HIDE DEF y, z
    <2>3. y = z /\ r = q
        BY <1>1, <1>3, <2>1, <2>2, RadixUnique
    <2>4. ((b * N + h) * G + g) * B + o = ((c * N + i) * G + f) * B + p
        BY <2>3 DEF y, z
    <2>5. /\ N \in Positive /\ G \in Positive /\ B \in Positive /\ b \in Int /\ c \in Int
          /\ h \in 0 .. N - 1 /\ i \in 0 .. N - 1 /\ g \in 0 .. G - 1 /\ f \in 0 .. G - 1
          /\ o \in 0 .. B - 1 /\ p \in 0 .. B - 1
        BY <1>1, <1>2, <1>3, <1>4
    <2>6. b = c /\ h = i /\ g = f /\ o = p
        BY <2>4, <2>5, FourDigitsUnique
    <2> QED BY <1>2, <1>3, <2>3, <2>6
<1> QED BY <1>1, <1>5, <1>6, <1>7, <1>8, <1>9

\* The elements of a token: element i is dimension HeadOffset(i) of head
\* HeadIdx(i), and is stored where that is read.
LEMMA ElementDigits ==
    ASSUME call \in Calls
    PROVE  /\ \A i \in 0 .. RowSize - 1 :
                /\ HeadIdx(i) \in KvHead /\ HeadOffset(i) \in Dim
                /\ i = HeadIdx(i) * HeadSize + HeadOffset(i)
           /\ \A h \in KvHead, d \in Dim :
                LET i == h * HeadSize + d
                IN  i \in 0 .. RowSize - 1 /\ HeadIdx(i) = h /\ HeadOffset(i) = d
<1> DEFINE N == NumHeads
           S == HeadSize
<1>1. N \in Positive /\ S \in Positive
    BY Shape
<1>2. RowSize = N * S /\ KvHead = 0 .. N - 1 /\ Dim = 0 .. S - 1
    BY DEF RowSize, KvHead, Dim
<1>3. \A i : HeadIdx(i) = i \div S /\ HeadOffset(i) = i % S
    BY DEF HeadIdx, HeadOffset
<1> HIDE DEF N, S
<1>4. ASSUME NEW i \in 0 .. N * S - 1
      PROVE  /\ i \div S \in 0 .. N - 1 /\ i % S \in 0 .. S - 1
             /\ i = (i \div S) * S + (i % S)
    BY <1>1, DivMod, DivBound
<1>5. ASSUME NEW h \in 0 .. N - 1, NEW d \in 0 .. S - 1
      PROVE  /\ h * S + d \in 0 .. N * S - 1
             /\ (h * S + d) \div S = h /\ (h * S + d) % S = d
    BY <1>1, RadixBound, DivOfNumeral
<1> QED BY <1>2, <1>3, <1>4, <1>5 DEF S

LEMMA StoredWhereRead ==
    ASSUME call \in Calls, NEW s \in Slot, NEW i \in 0 .. RowSize - 1
    PROVE  /\ KeyIdx(s, i) = KeyRead(s, HeadIdx(i), HeadOffset(i))
           /\ ValueIdx(s, i) = ValueRead(s, HeadIdx(i), HeadOffset(i))
<1> DEFINE h == HeadIdx(i)
           d == HeadOffset(i)
           b == s \div BlockSize
           o == s % BlockSize
           g == d \div X
           r == d % X
<1>1. h \in KvHead /\ d \in Dim /\ i = h * HeadSize + d /\ call.layout \in {"paged", "flash"}
    BY ElementDigits, Shape
<1>2. b \in Int /\ o \in Int /\ h \in Int /\ d \in Int
    <2>1. h \in Int /\ d \in Int
        BY <1>1 DEF KvHead, Dim
    <2> QED BY <2>1, SlotDigits
<1>3. /\ call.layout = "flash" =>
            /\ KeyRead(s, h, d) = FlashCell(b, o, h, d)
            /\ ValueRead(s, h, d) = FlashCell(b, o, h, d)
      /\ call.layout = "paged" =>
            /\ KeyRead(s, h, d) = PagedKeyCell(b, o, h, g, r)
            /\ ValueRead(s, h, d) = PagedValueCell(b, o, h, d)
    BY <1>1, ReadIsNumeral
<1>4. CASE call.layout = "flash"
    <2>1. KeyIdx(s, i) = FlashIdx(s, i) /\ ValueIdx(s, i) = FlashIdx(s, i)
        BY <1>4 DEF KeyIdx, ValueIdx
    <2>2. FlashIdx(s, i) = b * BlockSize * NumHeads * HeadSize + o * NumHeads * HeadSize + i
        BY DEF FlashIdx
    <2> HIDE DEF h, d, b, o, g, r
    <2>3. FlashIdx(s, i) = b * BlockSize * NumHeads * HeadSize + o * NumHeads * HeadSize
                              + (h * HeadSize + d)
        BY <1>1, <2>2
    <2>4. FlashIdx(s, i) = FlashCell(b, o, h, d)
        BY <1>2, <2>3, FlashIsNumeral
    <2>5. KeyIdx(s, i) = KeyRead(s, h, d) /\ ValueIdx(s, i) = ValueRead(s, h, d)
        BY <1>3, <1>4, <2>1, <2>4
    <2> QED BY <2>5 DEF h, d
<1>5. CASE call.layout = "paged"
    <2>1. g \in Int /\ r \in Int
        BY <1>1, DimDigits
    <2>2. /\ KeyIdx(s, i) = b * BlockStride + h * HeadStride + g * (BlockSize * X) + o * X + r
          /\ ValueIdx(s, i) = b * (NumHeads * HeadSize * BlockSize) + h * (HeadSize * BlockSize)
                                + d * BlockSize + o
        BY <1>5 DEF KeyIdx, ValueIdx, PagedKeyIdx, PagedValueIdx, BlockStride, HeadStride
    <2> HIDE DEF h, d, b, o, g, r
    <2>3. g * (BlockSize * X) = g * BlockSize * X
        BY <2>1, Shape DEF Positive
    <2>4. KeyIdx(s, i) = PagedKeyCell(b, o, h, g, r)
          /\ ValueIdx(s, i) = PagedValueCell(b, o, h, d)
        BY <1>2, <2>1, <2>2, <2>3, PagedKeyIsNumeral, PagedValueIsNumeral
    <2>5. KeyIdx(s, i) = KeyRead(s, h, d) /\ ValueIdx(s, i) = ValueRead(s, h, d)
        BY <1>3, <1>5, <2>4
    <2> QED BY <2>5 DEF h, d
<1> QED BY <1>1, <1>4, <1>5

-----------------------------------------------------------------------------
(* The writers *)

\* The k-th element that thread th of a group stores.
ElementOf(th, k) == th + k * call.threads

\* The invariant of the writers.
WriterInv ==
    /\ call \in Calls
    /\ stored \in [Token -> [Thread -> Nat]]
    /\ \A t \in Token, th \in Thread : stored[t][th] <= 2 * Iterations(t, th)
    /\ key_cache = [a \in Address |-> key_cache[a]]
    /\ value_cache = [a \in Address |-> value_cache[a]]
    /\ SlotsHoldTheirTokens

\* Where things are depends on the call alone.
LEMMA CallKept ==
    ASSUME call' = call
    PROVE  /\ Slot' = Slot /\ KvHead' = KvHead /\ Dim' = Dim /\ Thread' = Thread
           /\ Address' = Address /\ HeadSize' = HeadSize
           /\ \A s, h, d : /\ KeyRead(s, h, d)' = KeyRead(s, h, d)
                           /\ ValueRead(s, h, d)' = ValueRead(s, h, d)
           /\ \A t : SlotOf(t)' = SlotOf(t)
           /\ \A t, th : Iterations(t, th)' = Iterations(t, th)
<1>1. /\ NumBlocks' = NumBlocks /\ NumHeads' = NumHeads /\ HeadSize' = HeadSize
      /\ BlockSize' = BlockSize /\ X' = X
    BY DEF NumBlocks, NumHeads, HeadSize, BlockSize, X
<1>2. /\ Slot' = Slot /\ KvHead' = KvHead /\ Dim' = Dim /\ Thread' = Thread
      /\ RowSize' = RowSize /\ Address' = Address
    BY <1>1 DEF Slot, KvHead, Dim, Thread, RowSize, Address
<1>3. \A t : SlotOf(t)' = SlotOf(t)
    BY DEF SlotOf
<1>4. \A s, h, d : KeyRead(s, h, d)' = KeyRead(s, h, d) /\ ValueRead(s, h, d)' = ValueRead(s, h, d)
    BY <1>1 DEF KeyRead, ValueRead, RowMajor, BlockStride, HeadStride
<1>5. \A t, th : Iterations(t, th)' = Iterations(t, th)
    BY <1>2, <1>3 DEF Iterations
<1> QED BY <1>1, <1>2, <1>3, <1>4, <1>5

\* The loop of a thread stays in the token and in its slot, and the loops of
\* all threads together take every element.
LEMMA LoopInToken ==
    ASSUME call \in Calls, NEW t \in Token, NEW th \in Thread
    PROVE  /\ Iterations(t, th) \in Nat
           /\ \A k \in Nat : k < Iterations(t, th) =>
                SlotOf(t) \in Slot /\ ElementOf(th, k) \in 0 .. RowSize - 1
<1> DEFINE T == call.threads
           a == RowSize - th + T - 1
           n == a \div T
           l == a % T
<1>1. T \in Positive /\ RowSize \in Positive /\ SlotOf(t) \in Int
      /\ SlotOf(t) < NumBlocks * BlockSize /\ th \in 0 .. T - 1
    BY Shape DEF Thread
<1>2. a \in Nat
    BY <1>1 DEF Positive
<1>3. n \in Int /\ l \in 0 .. T - 1 /\ a = n * T + l
    <2> HIDE DEF a
    <2> QED BY <1>1, <1>2, DivMod
<1>4. Iterations(t, th) = IF SlotOf(t) < 0 THEN 0 ELSE n
    BY DEF Iterations
<1> HIDE DEF n, l, T
<1>5. n >= 0
    <2>1. CASE n <= -1
        <3>1. n * T <= (-1) * T
            BY <1>1, <1>3, <2>1 DEF Positive
        <3>2. a < 0
            BY <1>1, <1>3, <3>1 DEF Positive
        <3> QED BY <1>2, <3>2
    <2> QED BY <1>3, <2>1
<1>6. ASSUME NEW k \in Nat, k < n PROVE th + k * T \in 0 .. RowSize - 1
    <2>1. (k + 1) * T <= n * T
        BY <1>1, <1>3, <1>6 DEF Positive
    <2>2. k * T >= 0
        BY <1>1 DEF Positive
    <2>3. k * T + T <= RowSize - th + T - 1
        BY <1>1, <1>2, <1>3, <2>1 DEF Positive
    <2> QED BY <1>1, <2>2, <2>3 DEF Positive
<1>7. ASSUME SlotOf(t) >= 0 PROVE SlotOf(t) \in Slot
    <2>1. NumBlocks * BlockSize \in Int
        BY Shape DEF Positive
    <2> QED BY <1>1, <1>7, <2>1 DEF Slot
<1> QED BY <1>1, <1>3, <1>4, <1>5, <1>6, <1>7 DEF ElementOf, T

\* The thread that takes an element, and its iteration.
LEMMA TakerOfElement ==
    ASSUME call \in Calls, NEW i \in 0 .. RowSize - 1
    PROVE  /\ i % call.threads \in Thread /\ i \div call.threads \in Nat
           /\ i = ElementOf(i % call.threads, i \div call.threads)
<1> DEFINE T == call.threads
           th == i % T
           k == i \div T
<1>1. T \in Positive /\ RowSize \in Positive /\ i \in Int
    BY Shape DEF Positive
<1>2. k \in Int /\ th \in 0 .. T - 1 /\ i = k * T + th
    BY <1>1, DivMod
<1> HIDE DEF th, k, T
<1>3. k >= 0
    <2>1. CASE k <= -1
        <3>1. k * T <= (-1) * T
            BY <1>1, <1>2, <2>1 DEF Positive
        <3>2. i < 0
            BY <1>1, <1>2, <3>1 DEF Positive
        <3> QED BY <3>2
    <2> QED BY <1>2, <2>1
<1>4. i = th + k * T
    BY <1>1, <1>2 DEF Positive
<1>5. th \in Thread /\ k \in Nat /\ i = ElementOf(th, k)
    BY <1>2, <1>3, <1>4 DEF Thread, ElementOf, T
<1> QED BY <1>5 DEF th, k, T

LEMMA LoopsTakeAll ==
    ASSUME call \in Calls, NEW t \in Token, SlotOf(t) >= 0, NEW i \in 0 .. RowSize - 1
    PROVE  i \div call.threads < Iterations(t, i % call.threads)
<1> DEFINE T == call.threads
           th == i % T
           k == i \div T
           a == RowSize - th + T - 1
           n == a \div T
           l == a % T
<1>1. T \in Positive /\ RowSize \in Positive /\ i \in Int
    BY Shape DEF Positive
<1>2. k \in Nat /\ th \in 0 .. T - 1 /\ i = th + k * T
    BY TakerOfElement DEF Thread, ElementOf
<1> HIDE DEF th, k
<1>3. a \in Int
    BY <1>1, <1>2 DEF Positive
<1>4. n \in Int /\ l \in 0 .. T - 1 /\ a = n * T + l
    <2> HIDE DEF a
    <2> QED BY <1>1, <1>3, DivMod
<1>5. Iterations(t, th) = n
    <2>1. SlotOf(t) \in Int
        BY Shape
    <2> QED BY <2>1 DEF Iterations
<1> HIDE DEF n, l, T
<1>6. k < n
    <2>1. CASE n <= k
        <3>1. n * T <= k * T
            BY <1>1, <1>2, <1>4, <2>1 DEF Positive
        <3>2. a <= i - th + T - 1
            BY <1>1, <1>2, <1>4, <3>1 DEF Positive
        <3> QED BY <1>1, <1>2, <3>2 DEF Positive
    <2> QED BY <1>2, <1>4, <2>1
<1> QED BY <1>5, <1>6 DEF th, k, T

\* Element h * HeadSize + d has been stored if and only if its thread has come
\* so far.
LEMMA StoredByThread ==
    ASSUME call \in Calls, NEW h \in KvHead, NEW d \in Dim
    PROVE  \E i \in 0 .. RowSize - 1, th \in Thread, k \in Nat :
              /\ HeadIdx(i) = h /\ HeadOffset(i) = d /\ i = ElementOf(th, k)
              /\ th = i % call.threads /\ k = i \div call.threads
              /\ \A t, n : IsStored(t, h, d, n) <=> stored[t][th] > 2 * k + n
<1> DEFINE i == h * HeadSize + d
<1>1. i \in 0 .. RowSize - 1 /\ HeadIdx(i) = h /\ HeadOffset(i) = d
    BY ElementDigits
<1>2. \A t, n : IsStored(t, h, d, n)
                  <=> stored[t][i % call.threads] > 2 * (i \div call.threads) + n
    BY DEF IsStored
<1> HIDE DEF i
<1> QED BY <1>1, <1>2, TakerOfElement

LEMMA InitWriter == Init => WriterInv
<1> SUFFICES ASSUME Init PROVE WriterInv
    OBVIOUS
<1>1. call \in Calls /\ stored = [t \in Token |-> [th \in Thread |-> 0]]
      /\ key_cache = [a \in Address |-> Old] /\ value_cache = [a \in Address |-> Old]
    BY DEF Init
<1>2. \A t \in Token, th \in Thread : stored[t][th] = 0 /\ Iterations(t, th) \in Nat
    BY <1>1, LoopInToken
<1>3. ASSUME NEW s \in Slot, NEW h \in KvHead, NEW d \in Dim
      PROVE  StoredBy(s, h, d, 0) = {} /\ StoredBy(s, h, d, 1) = {}
    <2>1. PICK i \in 0 .. RowSize - 1, th \in Thread, k \in Nat :
            \A t, n : IsStored(t, h, d, n) <=> stored[t][th] > 2 * k + n
        BY <1>1, StoredByThread
    <2>2. \A t \in Token : ~IsStored(t, h, d, 0) /\ ~IsStored(t, h, d, 1)
        BY <1>2, <2>1
    <2> QED BY <2>2 DEF StoredBy
<1>4. SlotsHoldTheirTokens
    BY <1>1, <1>3, ReadInCache DEF SlotsHoldTheirTokens, OneOf
<1> QED BY <1>1, <1>2, <1>4 DEF WriterInv

\* The element that a step stores, and its cells.
LEMMA StoredElement ==
    ASSUME WriterInv, NEW t \in Token, NEW th \in Thread,
           stored[t][th] < 2 * Iterations(t, th)
    PROVE  LET k == stored[t][th] \div 2
               i == Next_i(t, th)
           IN  /\ k \in Nat /\ k < Iterations(t, th) /\ i = ElementOf(th, k)
               /\ stored[t][th] = 2 * k + (stored[t][th] % 2)
               /\ SlotOf(t) \in Slot /\ i \in 0 .. RowSize - 1
               /\ HeadIdx(i) \in KvHead /\ HeadOffset(i) \in Dim
               /\ KeyIdx(SlotOf(t), i) = KeyRead(SlotOf(t), HeadIdx(i), HeadOffset(i))
               /\ ValueIdx(SlotOf(t), i) = ValueRead(SlotOf(t), HeadIdx(i), HeadOffset(i))
               /\ KeyIdx(SlotOf(t), i) \in Address /\ ValueIdx(SlotOf(t), i) \in Address
<1> DEFINE k == stored[t][th] \div 2
           i == Next_i(t, th)
<1>1. call \in Calls /\ stored[t][th] \in Nat /\ Iterations(t, th) \in Nat
    BY LoopInToken DEF WriterInv
<1>2. k \in Nat /\ stored[t][th] = 2 * k + (stored[t][th] % 2) /\ k < Iterations(t, th)
    BY <1>1
<1>3. i = ElementOf(th, k)
    BY DEF Next_i, ElementOf
<1> HIDE DEF k, i
<1>4. SlotOf(t) \in Slot /\ i \in 0 .. RowSize - 1
    BY <1>1, <1>2, <1>3, LoopInToken
<1>5. /\ HeadIdx(i) \in KvHead /\ HeadOffset(i) \in Dim
      /\ KeyIdx(SlotOf(t), i) = KeyRead(SlotOf(t), HeadIdx(i), HeadOffset(i))
      /\ ValueIdx(SlotOf(t), i) = ValueRead(SlotOf(t), HeadIdx(i), HeadOffset(i))
    BY <1>1, <1>4, ElementDigits, StoredWhereRead
<1>6. KeyIdx(SlotOf(t), i) \in Address /\ ValueIdx(SlotOf(t), i) \in Address
    BY <1>1, <1>4, <1>5, ReadInCache
<1> QED BY <1>2, <1>3, <1>4, <1>5, <1>6 DEF k, i

LEMMA NextStoreInCache == WriterInv => StoresStayInCache
<1> SUFFICES ASSUME WriterInv, NEW t \in Token, NEW th \in Thread,
                    stored[t][th] < 2 * Iterations(t, th)
             PROVE  LET i == Next_i(t, th)
                    IN  KeyIdx(SlotOf(t), i) \in Address /\ ValueIdx(SlotOf(t), i) \in Address
    BY DEF StoresStayInCache
<1> QED BY StoredElement

\* Thread th of token t stores a key (n = 0) or a value (n = 1).
Stores(t, th, n) == IF n = 0 THEN StoreKey(t, th) ELSE StoreValue(t, th)

\* A thread that counts one store more has stored one element more, the one it
\* was to store, and nothing else.
LEMMA OneStoreMore ==
    ASSUME WriterInv, NEW t \in Token, NEW th \in Thread, NEW n \in {0, 1},
           Stores(t, th, n),
           NEW s \in Slot, NEW h \in KvHead, NEW d \in Dim, NEW m \in {0, 1}
    PROVE  LET i == Next_i(t, th)
           IN  StoredBy(s, h, d, m)' =
                  IF s = SlotOf(t) /\ h = HeadIdx(i) /\ d = HeadOffset(i) /\ m = n
                  THEN StoredBy(s, h, d, m) \union {t}
                  ELSE StoredBy(s, h, d, m)
<1> DEFINE k == stored[t][th] \div 2
           i == Next_i(t, th)
           T == call.threads
<1>0. /\ stored[t][th] < 2 * Iterations(t, th) /\ stored[t][th] % 2 = n
      /\ stored' = [stored EXCEPT ![t][th] = @ + 1] /\ call' = call
    BY DEF Stores, StoreKey, StoreValue
<1>1. /\ call \in Calls /\ stored \in [Token -> [Thread -> Nat]]
      /\ T \in Positive /\ th \in 0 .. T - 1 /\ \A u : SlotOf(u)' = SlotOf(u)
    BY <1>0, Shape, CallKept DEF WriterInv, Thread
<1>2. /\ k \in Nat /\ i = th + k * T /\ stored[t][th] = 2 * k + n
      /\ i = HeadIdx(i) * HeadSize + HeadOffset(i)
    BY <1>0, <1>1, StoredElement, ElementDigits DEF ElementOf
<1>3. PICK e \in 0 .. RowSize - 1, x \in Thread, j \in Nat :
            /\ HeadIdx(e) = h /\ HeadOffset(e) = d /\ e = ElementOf(x, j)
            /\ x = e % T /\ j = e \div T
            /\ \A u, o : IsStored(u, h, d, o) <=> stored[u][x] > 2 * j + o
    BY <1>1, StoredByThread
<1>4. e = h * HeadSize + d
    BY <1>1, <1>3, ElementDigits
<1>5. \A u, o : IsStored(u, h, d, o)' <=> stored'[u][x] > 2 * j + o
    <2>1. HeadSize' = HeadSize /\ call' = call
        BY <1>0 DEF HeadSize
    <2> QED BY <1>3, <1>4, <2>1 DEF IsStored
<1>6. (h = HeadIdx(i) /\ d = HeadOffset(i)) <=> (x = th /\ j = k)
    <2>1. e = x + j * T /\ x \in 0 .. T - 1
        BY <1>3 DEF ElementOf, Thread
    <2>2. (h = HeadIdx(i) /\ d = HeadOffset(i)) <=> e = i
        BY <1>2, <1>3, <1>4
    <2> HIDE DEF i, k, T
    <2>3. e = i <=> j * T + x = k * T + th
        BY <1>1, <1>2, <2>1 DEF Positive
    <2>4. j * T + x = k * T + th => j = k /\ x = th
        BY <1>1, <1>2, <2>1, RadixUnique
    <2> QED BY <2>2, <2>3, <2>4
<1> HIDE DEF i, k, T
<1>7. \A u \in Token, y \in Thread :
          stored'[u][y] = IF u = t /\ y = th THEN stored[u][y] + 1 ELSE stored[u][y]
    BY <1>0, <1>1
<1>8. ASSUME NEW u \in Token
      PROVE  IsStored(u, h, d, m)'
                <=> IsStored(u, h, d, m) \/ (u = t /\ x = th /\ j = k /\ m = n)
    <2>1. CASE u = t /\ x = th
        <3>1. stored[u][x] = 2 * k + n /\ stored'[u][x] = 2 * k + n + 1
            BY <1>2, <1>7, <2>1
        <3>2. 2 * k + n + 1 > 2 * j + m <=> 2 * k + n > 2 * j + m \/ (j = k /\ m = n)
            BY <1>2
        <3> QED BY <1>3, <1>5, <2>1, <3>1, <3>2
    <2>2. CASE ~(u = t /\ x = th)
        <3>1. stored'[u][x] = stored[u][x]
            BY <1>7, <2>2
        <3> QED BY <1>3, <1>5, <2>2, <3>1
    <2> QED BY <2>1, <2>2
<1>9. StoredBy(s, h, d, m)' = {u \in Token : SlotOf(u) = s /\ IsStored(u, h, d, m)'}
    BY <1>1 DEF StoredBy
<1>10. StoredBy(s, h, d, m)' =
          IF s = SlotOf(t) /\ x = th /\ j = k /\ m = n
          THEN StoredBy(s, h, d, m) \union {t} ELSE StoredBy(s, h, d, m)
    BY <1>8, <1>9 DEF StoredBy
<1> QED BY <1>6, <1>10 DEF i

LEMMA CountStaysInLoop ==
    ASSUME WriterInv, NEW t \in Token, NEW th \in Thread,
           stored[t][th] < 2 * Iterations(t, th), stored' = [stored EXCEPT ![t][th] = @ + 1]
    PROVE  /\ stored' \in [Token -> [Thread -> Nat]]
           /\ \A u \in Token, x \in Thread : stored'[u][x] <= 2 * Iterations(u, x)
<1>1. /\ stored \in [Token -> [Thread -> Nat]] /\ Iterations(t, th) \in Nat
      /\ \A u \in Token, x \in Thread : stored[u][x] <= 2 * Iterations(u, x)
    BY LoopInToken DEF WriterInv
<1>2. \A u \in Token, y \in Thread :
          stored'[u][y] = IF u = t /\ y = th THEN stored[u][y] + 1 ELSE stored[u][y]
    BY <1>1
<1>3. stored[t][th] + 1 <= 2 * Iterations(t, th)
    BY <1>1
<1>4. stored' \in [Token -> [Thread -> Nat]]
    BY <1>1
<1> QED BY <1>1, <1>2, <1>3, <1>4

\* A store puts the element into the one cell where readers look for it.
LEMMA StoreKeyStep ==
    ASSUME WriterInv, NEW t \in Token, NEW th \in Thread, StoreKey(t, th)
    PROVE  WriterInv'
<1> DEFINE s == SlotOf(t)
           i == Next_i(t, th)
           cell == KeyIdx(s, i)
<1>1. /\ s \in Slot /\ HeadIdx(i) \in KvHead /\ HeadOffset(i) \in Dim
      /\ cell = KeyRead(s, HeadIdx(i), HeadOffset(i)) /\ cell \in Address
    BY StoredElement DEF StoreKey
<1>2. /\ stored[t][th] < 2 * Iterations(t, th) /\ stored[t][th] % 2 = 0
      /\ key_cache' = [key_cache EXCEPT ![cell] = Element(t, i)]
      /\ stored' = [stored EXCEPT ![t][th] = @ + 1]
      /\ call' = call /\ value_cache' = value_cache
    BY DEF StoreKey
<1>3. ASSUME NEW p \in Slot, NEW h \in KvHead, NEW d \in Dim
      PROVE  /\ StoredBy(p, h, d, 0)' =
                    IF p = s /\ h = HeadIdx(i) /\ d = HeadOffset(i)
                    THEN StoredBy(p, h, d, 0) \union {t} ELSE StoredBy(p, h, d, 0)
             /\ StoredBy(p, h, d, 1)' = StoredBy(p, h, d, 1)
    <2>1. 0 \in {0, 1} /\ 1 \in {0, 1} /\ 0 # 1 /\ Stores(t, th, 0)
        BY DEF Stores
    <2>2. StoredBy(p, h, d, 0)' =
                IF p = s /\ h = HeadIdx(i) /\ d = HeadOffset(i) /\ 0 = 0
                THEN StoredBy(p, h, d, 0) \union {t} ELSE StoredBy(p, h, d, 0)
        BY <2>1, OneStoreMore
    <2>3. StoredBy(p, h, d, 1)' =
                IF p = s /\ h = HeadIdx(i) /\ d = HeadOffset(i) /\ 1 = 0
                THEN StoredBy(p, h, d, 1) \union {t} ELSE StoredBy(p, h, d, 1)
        BY <2>1, OneStoreMore
    <2> QED BY <2>1, <2>2, <2>3
<1>4. Element(t, i) = <<t, HeadIdx(i), HeadOffset(i)>>
    BY DEF Element
<1> HIDE DEF s, i, cell
<1>5. /\ call \in Calls /\ SlotsHoldTheirTokens
      /\ key_cache = [a \in Address |-> key_cache[a]]
      /\ value_cache = [a \in Address |-> value_cache[a]]
    BY DEF WriterInv
<1>6. \A a \in Address : key_cache'[a] = IF a = cell THEN Element(t, i) ELSE key_cache[a]
    BY <1>2, <1>5
<1>7. ASSUME NEW p \in Slot, NEW h \in KvHead, NEW d \in Dim
      PROVE  /\ KeyRead(p, h, d) \in Address /\ ValueRead(p, h, d) \in Address
             /\ key_cache'[KeyRead(p, h, d)] \in OneOf(StoredBy(p, h, d, 0)', h, d)
             /\ value_cache[ValueRead(p, h, d)] \in OneOf(StoredBy(p, h, d, 1)', h, d)
    <2>1. /\ KeyRead(p, h, d) \in Address /\ ValueRead(p, h, d) \in Address
          /\ key_cache[KeyRead(p, h, d)] \in OneOf(StoredBy(p, h, d, 0), h, d)
          /\ value_cache[ValueRead(p, h, d)] \in OneOf(StoredBy(p, h, d, 1), h, d)
        BY <1>5 DEF SlotsHoldTheirTokens
    <2>2. CASE p = s /\ h = HeadIdx(i) /\ d = HeadOffset(i)
        <3>1. t \in StoredBy(p, h, d, 0)'
            BY <1>3, <2>2
        <3>2. <<t, h, d>> \in OneOf(StoredBy(p, h, d, 0)', h, d)
            BY <3>1 DEF OneOf
        <3>3. key_cache'[KeyRead(p, h, d)] = <<t, h, d>>
            BY <1>1, <1>4, <1>6, <2>2
        <3> QED BY <1>3, <2>1, <3>2, <3>3
    <2>3. CASE ~(p = s /\ h = HeadIdx(i) /\ d = HeadOffset(i))
        <3>1. KeyRead(p, h, d) # cell
            BY <1>1, <1>5, <2>3, ReadUnique
        <3> QED BY <1>3, <1>6, <2>1, <2>3, <3>1
    <2> QED BY <2>2, <2>3
<1>8. /\ Slot' = Slot /\ KvHead' = KvHead /\ Dim' = Dim /\ Thread' = Thread
      /\ Address' = Address
      /\ \A p, h, d : /\ KeyRead(p, h, d)' = KeyRead(p, h, d)
                      /\ ValueRead(p, h, d)' = ValueRead(p, h, d)
      /\ \A u, x : Iterations(u, x)' = Iterations(u, x)
    BY <1>2, CallKept
<1>9. SlotsHoldTheirTokens'
    BY <1>2, <1>7, <1>8 DEF SlotsHoldTheirTokens
<1>10. /\ stored' \in [Token -> [Thread -> Nat]]
       /\ \A u \in Token, x \in Thread : stored'[u][x] <= 2 * Iterations(u, x)
    BY <1>2, CountStaysInLoop
<1>11. key_cache' = [a \in Address |-> key_cache'[a]]
    BY <1>2, <1>5
<1> QED BY <1>2, <1>5, <1>8, <1>9, <1>10, <1>11 DEF WriterInv

LEMMA StoreValueStep ==
    ASSUME WriterInv, NEW t \in Token, NEW th \in Thread, StoreValue(t, th)
    PROVE  WriterInv'
<1> DEFINE s == SlotOf(t)
           i == Next_i(t, th)
           cell == ValueIdx(s, i)
<1>1. /\ s \in Slot /\ HeadIdx(i) \in KvHead /\ HeadOffset(i) \in Dim
      /\ cell = ValueRead(s, HeadIdx(i), HeadOffset(i)) /\ cell \in Address
    BY StoredElement DEF StoreValue
<1>2. /\ stored[t][th] < 2 * Iterations(t, th) /\ stored[t][th] % 2 = 1
      /\ value_cache' = [value_cache EXCEPT ![cell] = Element(t, i)]
      /\ stored' = [stored EXCEPT ![t][th] = @ + 1]
      /\ call' = call /\ key_cache' = key_cache
    BY DEF StoreValue
<1>3. ASSUME NEW p \in Slot, NEW h \in KvHead, NEW d \in Dim
      PROVE  /\ StoredBy(p, h, d, 1)' =
                    IF p = s /\ h = HeadIdx(i) /\ d = HeadOffset(i)
                    THEN StoredBy(p, h, d, 1) \union {t} ELSE StoredBy(p, h, d, 1)
             /\ StoredBy(p, h, d, 0)' = StoredBy(p, h, d, 0)
    <2>1. 0 \in {0, 1} /\ 1 \in {0, 1} /\ 0 # 1 /\ Stores(t, th, 1)
        BY DEF Stores
    <2>2. StoredBy(p, h, d, 1)' =
                IF p = s /\ h = HeadIdx(i) /\ d = HeadOffset(i) /\ 1 = 1
                THEN StoredBy(p, h, d, 1) \union {t} ELSE StoredBy(p, h, d, 1)
        BY <2>1, OneStoreMore
    <2>3. StoredBy(p, h, d, 0)' =
                IF p = s /\ h = HeadIdx(i) /\ d = HeadOffset(i) /\ 0 = 1
                THEN StoredBy(p, h, d, 0) \union {t} ELSE StoredBy(p, h, d, 0)
        BY <2>1, OneStoreMore
    <2> QED BY <2>1, <2>2, <2>3
<1>4. Element(t, i) = <<t, HeadIdx(i), HeadOffset(i)>>
    BY DEF Element
<1> HIDE DEF s, i, cell
<1>5. /\ call \in Calls /\ SlotsHoldTheirTokens
      /\ key_cache = [a \in Address |-> key_cache[a]]
      /\ value_cache = [a \in Address |-> value_cache[a]]
    BY DEF WriterInv
<1>6. \A a \in Address : value_cache'[a] = IF a = cell THEN Element(t, i) ELSE value_cache[a]
    BY <1>2, <1>5
<1>7. ASSUME NEW p \in Slot, NEW h \in KvHead, NEW d \in Dim
      PROVE  /\ KeyRead(p, h, d) \in Address /\ ValueRead(p, h, d) \in Address
             /\ value_cache'[ValueRead(p, h, d)] \in OneOf(StoredBy(p, h, d, 1)', h, d)
             /\ key_cache[KeyRead(p, h, d)] \in OneOf(StoredBy(p, h, d, 0)', h, d)
    <2>1. /\ KeyRead(p, h, d) \in Address /\ ValueRead(p, h, d) \in Address
          /\ key_cache[KeyRead(p, h, d)] \in OneOf(StoredBy(p, h, d, 0), h, d)
          /\ value_cache[ValueRead(p, h, d)] \in OneOf(StoredBy(p, h, d, 1), h, d)
        BY <1>5 DEF SlotsHoldTheirTokens
    <2>2. CASE p = s /\ h = HeadIdx(i) /\ d = HeadOffset(i)
        <3>1. t \in StoredBy(p, h, d, 1)'
            BY <1>3, <2>2
        <3>2. <<t, h, d>> \in OneOf(StoredBy(p, h, d, 1)', h, d)
            BY <3>1 DEF OneOf
        <3>3. value_cache'[ValueRead(p, h, d)] = <<t, h, d>>
            BY <1>1, <1>4, <1>6, <2>2
        <3> QED BY <1>3, <2>1, <3>2, <3>3
    <2>3. CASE ~(p = s /\ h = HeadIdx(i) /\ d = HeadOffset(i))
        <3>1. ValueRead(p, h, d) # cell
            BY <1>1, <1>5, <2>3, ReadUnique
        <3> QED BY <1>3, <1>6, <2>1, <2>3, <3>1
    <2> QED BY <2>2, <2>3
<1>8. /\ Slot' = Slot /\ KvHead' = KvHead /\ Dim' = Dim /\ Thread' = Thread
      /\ Address' = Address
      /\ \A p, h, d : /\ KeyRead(p, h, d)' = KeyRead(p, h, d)
                      /\ ValueRead(p, h, d)' = ValueRead(p, h, d)
      /\ \A u, x : Iterations(u, x)' = Iterations(u, x)
    BY <1>2, CallKept
<1>9. SlotsHoldTheirTokens'
    BY <1>2, <1>7, <1>8 DEF SlotsHoldTheirTokens
<1>10. /\ stored' \in [Token -> [Thread -> Nat]]
       /\ \A u \in Token, x \in Thread : stored'[u][x] <= 2 * Iterations(u, x)
    BY <1>2, CountStaysInLoop
<1>11. value_cache' = [a \in Address |-> value_cache'[a]]
    BY <1>2, <1>5
<1> QED BY <1>2, <1>5, <1>8, <1>9, <1>10, <1>11 DEF WriterInv

\* Steps of the reader, and steps that change nothing.
LEMMA WriterRests ==
    ASSUME WriterInv, UNCHANGED vars
    PROVE  WriterInv'
<1>1. /\ call' = call /\ stored' = stored /\ key_cache' = key_cache
      /\ value_cache' = value_cache
    BY DEF vars
<1>2. /\ Slot' = Slot /\ KvHead' = KvHead /\ Dim' = Dim /\ Thread' = Thread
      /\ Address' = Address /\ HeadSize' = HeadSize
      /\ \A p, h, d : /\ KeyRead(p, h, d)' = KeyRead(p, h, d)
                      /\ ValueRead(p, h, d)' = ValueRead(p, h, d)
      /\ \A u : SlotOf(u)' = SlotOf(u)
      /\ \A u, x : Iterations(u, x)' = Iterations(u, x)
    BY <1>1, CallKept
<1>3. \A p, h, d, n : StoredBy(p, h, d, n)' = StoredBy(p, h, d, n)
    BY <1>1, <1>2 DEF StoredBy, IsStored
<1>4. SlotsHoldTheirTokens'
    BY <1>1, <1>2, <1>3 DEF WriterInv, SlotsHoldTheirTokens
<1> QED BY <1>1, <1>2, <1>4 DEF WriterInv

LEMMA NextWriter == WriterInv /\ [Next]_vars => WriterInv'
BY StoreKeyStep, StoreValueStep, WriterRests DEF Next

\* Once all threads are done, all tokens of a slot have been stored in it.
LEMMA DoneMeansStored ==
    ASSUME WriterInv, Done, NEW s \in Slot, NEW h \in KvHead, NEW d \in Dim,
           NEW n \in {0, 1}
    PROVE  StoredBy(s, h, d, n) = {t \in Token : SlotOf(t) = s}
<1>1. call \in Calls
    BY DEF WriterInv
<1>2. PICK i \in 0 .. RowSize - 1, th \in Thread, k \in Nat :
            /\ th = i % call.threads /\ k = i \div call.threads
            /\ \A t, m : IsStored(t, h, d, m) <=> stored[t][th] > 2 * k + m
    BY <1>1, StoredByThread
<1>3. ASSUME NEW t \in Token, SlotOf(t) = s PROVE IsStored(t, h, d, n)
    <2>1. SlotOf(t) >= 0
        BY <1>3 DEF Slot
    <2>2. k < Iterations(t, th)
        BY <1>1, <1>2, <2>1, LoopsTakeAll
    <2>3. stored[t][th] = 2 * Iterations(t, th) /\ Iterations(t, th) \in Nat
        BY <1>1, LoopInToken DEF Done
    <2>4. stored[t][th] > 2 * k + n
        BY <2>2, <2>3
    <2> QED BY <1>2, <2>4
<1> QED BY <1>3 DEF StoredBy

LEMMA SlotWhenDone ==
    ASSUME WriterInv, Done, NEW s \in Slot, NEW h \in KvHead, NEW d \in Dim
    PROVE  LET may == OneOf({t \in Token : SlotOf(t) = s}, h, d)
           IN  /\ key_cache[KeyRead(s, h, d)] \in may
               /\ value_cache[ValueRead(s, h, d)] \in may
<1>1. /\ key_cache[KeyRead(s, h, d)] \in OneOf(StoredBy(s, h, d, 0), h, d)
      /\ value_cache[ValueRead(s, h, d)] \in OneOf(StoredBy(s, h, d, 1), h, d)
    BY DEF WriterInv, SlotsHoldTheirTokens
<1>2. /\ StoredBy(s, h, d, 0) = {t \in Token : SlotOf(t) = s}
      /\ StoredBy(s, h, d, 1) = {t \in Token : SlotOf(t) = s}
    BY DoneMeansStored
<1> QED BY <1>1, <1>2

LEMMA TokensAreRead == WriterInv => StoredTokensAreRead
<1> SUFFICES ASSUME WriterInv, Done, NEW t \in Token, SlotOf(t) >= 0,
                    \A u \in Token \ {t} : SlotOf(u) # SlotOf(t),
                    NEW h \in KvHead, NEW d \in Dim
             PROVE  /\ key_cache[KeyRead(SlotOf(t), h, d)] = <<t, h, d>>
                    /\ value_cache[ValueRead(SlotOf(t), h, d)] = <<t, h, d>>
    BY DEF StoredTokensAreRead
<1> DEFINE s == SlotOf(t)
<1>1. s \in Slot
    <2>1. /\ SlotOf(t) \in Int /\ SlotOf(t) < NumBlocks * BlockSize
          /\ NumBlocks \in Positive /\ BlockSize \in Positive
        BY Shape DEF WriterInv
    <2>2. NumBlocks * BlockSize \in Int
        BY <2>1 DEF Positive
    <2> QED BY <2>1, <2>2 DEF Slot
<1>2. {u \in Token : SlotOf(u) = s} = {t}
    OBVIOUS
<1> HIDE DEF s
<1>3. OneOf({u \in Token : SlotOf(u) = s}, h, d) = {<<t, h, d>>}
    BY <1>2 DEF OneOf
<1>4. key_cache[KeyRead(s, h, d)] = <<t, h, d>> /\ value_cache[ValueRead(s, h, d)] = <<t, h, d>>
    BY <1>1, <1>3, SlotWhenDone
<1> QED BY <1>4 DEF s

-----------------------------------------------------------------------------
(* The reader *)

\* A launch that runs was accepted, after the writers were done, and what a
\* thread group has gathered is what it would gather still: a launch waits
\* for the writers, and nothing writes after them.
ReaderInv ==
    /\ WriterInv
    /\ \/ launch = NotYet \/ launch = Refused
       \/ Running /\ launch.args \in Launches /\ Accepted(launch.args)
    /\ launch # NotYet => Done
    /\ \A g \in DOMAIN gathered :
          Running /\ g \in ThreadGroups(launch.args)
          /\ gathered[g] = Gather(launch.args, g[1], g[2])

LEMMA NothingWritten ==
    ASSUME UNCHANGED vars
    PROVE  /\ Done' <=> Done
           /\ \A q : Accepted(q)' <=> Accepted(q)
           /\ \A q, seq, head : Gather(q, seq, head)' = Gather(q, seq, head)
<1>1. /\ call' = call /\ stored' = stored /\ key_cache' = key_cache
      /\ value_cache' = value_cache
    BY DEF vars
<1>2. /\ Thread' = Thread /\ Address' = Address
      /\ \A t, th : Iterations(t, th)' = Iterations(t, th)
    BY <1>1, CallKept
<1>3. /\ NumBlocks' = NumBlocks /\ NumHeads' = NumHeads /\ HeadSize' = HeadSize
      /\ BlockSize' = BlockSize /\ X' = X
    BY <1>1 DEF NumBlocks, NumHeads, HeadSize, BlockSize, X
<1>4. Done' <=> Done
    BY <1>1, <1>2 DEF Done
<1>5. \A q : Accepted(q)' <=> Accepted(q)
    BY <1>1, <1>3 DEF Accepted, ShapesFit
<1>6. \A q, seq, b : PhysicalBlock(q, seq, b)' = PhysicalBlock(q, seq, b)
    BY <1>3 DEF PhysicalBlock
<1>7. \A q, b, h, t, d : /\ KeyAddress(q, b, h, t, d)' = KeyAddress(q, b, h, t, d)
                         /\ ValueAddress(q, b, h, t, d)' = ValueAddress(q, b, h, t, d)
    BY <1>3 DEF KeyAddress, ValueAddress, BlockStride, HeadStride
<1>8. \A q, seq, head, i, d : GatherOne(q, seq, head, i, d)' = GatherOne(q, seq, head, i, d)
    BY <1>1, <1>2, <1>6, <1>7 DEF GatherOne, Load
<1>9. ASSUME NEW q, NEW seq, NEW head PROVE Gather(q, seq, head)' = Gather(q, seq, head)
    <2>1. \A i, d : GatherOne(q, seq, head, i, d)' = GatherOne(q, seq, head, i, d)
        BY <1>8
    <2> QED BY <2>1 DEF Gather
<1> QED BY <1>4, <1>5, <1>9

LEMMA InitReader == PInit => ReaderInv
<1> SUFFICES ASSUME PInit PROVE ReaderInv
    OBVIOUS
<1>1. WriterInv /\ launch = NotYet /\ gathered = <<>>
    BY InitWriter DEF PInit
<1>2. DOMAIN gathered = {}
    BY <1>1
<1> QED BY <1>1, <1>2 DEF ReaderInv

LEMMA NextReader == ReaderInv /\ [PNext]_pvars => ReaderInv'
<1> SUFFICES ASSUME ReaderInv, [PNext]_pvars PROVE ReaderInv'
    OBVIOUS
<1>1. CASE Next /\ UNCHANGED <<launch, gathered>>
    <2>1. WriterInv'
        BY <1>1, NextWriter DEF ReaderInv
    <2>2. ~Done
        <3>1. PICK t \in Token, th \in Thread : StoreKey(t, th) \/ StoreValue(t, th)
            BY <1>1 DEF Next
        <3>2. stored[t][th] < 2 * Iterations(t, th)
            BY <3>1 DEF StoreKey, StoreValue
        <3>3. stored[t][th] \in Nat /\ Iterations(t, th) \in Nat
            BY LoopInToken DEF ReaderInv, WriterInv
        <3> QED BY <3>2, <3>3 DEF Done
    <2>3. launch = NotYet /\ launch' = NotYet /\ gathered' = gathered
        BY <1>1, <2>2 DEF ReaderInv
    <2>4. DOMAIN gathered = {}
        BY <2>3 DEF ReaderInv, Running, NotYet
    <2> QED BY <2>1, <2>3, <2>4 DEF ReaderInv
<1>2. CASE UNCHANGED vars
    <2>1. WriterInv'
        BY <1>2, WriterRests DEF ReaderInv
    <2>2. /\ Done' <=> Done
          /\ \A q : Accepted(q)' <=> Accepted(q)
          /\ \A q, seq, head : Gather(q, seq, head)' = Gather(q, seq, head)
        BY <1>2, NothingWritten
    <2>3. CASE UNCHANGED <<launch, gathered>>
        BY <2>1, <2>2, <2>3 DEF ReaderInv, Running
    <2>4. ASSUME NEW q \in Launches, Launch(q) PROVE ReaderInv'
        <3>1. Done /\ launch = NotYet /\ gathered' = gathered
            BY <2>4 DEF Launch
        <3>2. DOMAIN gathered = {}
            BY <3>1 DEF ReaderInv, Running, NotYet
        <3>3. CASE Accepted(q)
            <4>1. launch' = [status |-> "running", args |-> q]
                BY <2>4, <3>3 DEF Launch
            <4>2. Running' /\ launch'.args = q
                BY <4>1 DEF Running
            <4> QED BY <2>1, <2>2, <3>1, <3>2, <3>3, <4>2 DEF ReaderInv
        <3>4. CASE ~Accepted(q)
            <4>1. launch' = Refused
                BY <2>4, <3>4 DEF Launch
            <4> QED BY <2>1, <2>2, <3>1, <3>2, <4>1 DEF ReaderInv
        <3> QED BY <3>3, <3>4
    <2>5. ASSUME NEW g \in ThreadGroups(launch.args), RunThreadGroup(g) PROVE ReaderInv'
        <3>1. /\ Running /\ launch' = launch
              /\ gathered' = [o \in DOMAIN gathered \union {g} |->
                    IF o = g THEN Gather(launch.args, g[1], g[2]) ELSE gathered[o]]
            BY <2>5 DEF RunThreadGroup
        <3>2. \A o \in DOMAIN gathered' :
                o \in ThreadGroups(launch.args) /\ gathered'[o] = Gather(launch.args, o[1], o[2])
            BY <3>1 DEF ReaderInv
        <3> QED BY <2>1, <2>2, <3>1, <3>2 DEF ReaderInv, Running
    <2>6. UNCHANGED <<launch, gathered>>
          \/ (\E q \in Launches : Launch(q))
          \/ (\E g \in ThreadGroups(launch.args) : RunThreadGroup(g))
          \/ (Next /\ UNCHANGED <<launch, gathered>>)
        BY DEF PNext, pvars
    <2> QED BY <1>1, <2>3, <2>4, <2>5, <2>6
<1>3. ASSUME NEW q \in Launches, Launch(q) PROVE UNCHANGED vars
    BY <1>3 DEF Launch
<1>4. ASSUME NEW g \in ThreadGroups(launch.args), RunThreadGroup(g) PROVE UNCHANGED vars
    BY <1>4 DEF RunThreadGroup
<1> QED BY <1>1, <1>2, <1>3, <1>4 DEF PNext, pvars

LEMMA ReaderInvariance == PSpec => []ReaderInv
BY InitReader, NextReader, PTL DEF PSpec

\* Under any schedule of any number of threads and for every shape of the
\* cache, paged or flash, a reader finds in a slot what has been stored for it
\* so far, of the head and dimension it asks for: the element of one of the
\* tokens whose threads have come to it, or what was there before if there is
\* none.
THEOREM SlotsAreNotMixedUp == PSpec => []SlotsHoldTheirTokens
<1>1. ReaderInv => SlotsHoldTheirTokens
    BY DEF ReaderInv, WriterInv
<1> QED BY <1>1, ReaderInvariance, PTL

\* And no store reaches outside the caches, with slots missing or not: what a
\* thread stores next is always inside.
THEOREM StoresNeverStray == PSpec => []StoresStayInCache
<1>1. ReaderInv => StoresStayInCache
    BY NextStoreInCache DEF ReaderInv
<1> QED BY <1>1, ReaderInvariance, PTL

\* Once all threads are done, every token with a slot of its own is there
\* whole: the strided loops of the threads leave no element out.
THEOREM TokensAreStoredWhole == PSpec => []StoredTokensAreRead
<1>1. ReaderInv => StoredTokensAreRead
    BY TokensAreRead DEF ReaderInv
<1> QED BY <1>1, ReaderInvariance, PTL

-----------------------------------------------------------------------------
(* The addresses of the reader *)

\* What the launcher has checked.
LEMMA AcceptedShape ==
    ASSUME call \in Calls, NEW q \in Launches, Accepted(q)
    PROVE  /\ call.layout = "paged"
           /\ q.head_size = HeadSize /\ q.block_size = BlockSize /\ q.num_kv_heads = NumHeads
           /\ q.num_seqs = Len(q.block_tables)
           /\ q.x \in Positive /\ HeadSize = (HeadSize \div q.x) * q.x
           /\ HeadSize \div q.x \in Positive
           /\ q.max_seq_len \in Nat /\ q.table_width \in Nat
           /\ q.max_seq_len <= q.table_width * BlockSize
           /\ q.num_heads \in Nat /\ q.num_heads = NumHeads * (q.num_heads \div NumHeads)
           /\ q.block_tables \in Seq([1 .. q.table_width -> Nat])
           /\ q.context_lens \in Seq(Nat) /\ q.num_seqs = Len(q.context_lens)
<1>1. /\ q.num_heads \in Nat /\ q.x \in Positive
      /\ q.head_size \in HeadSizes => q.head_size % q.x = 0
      /\ q.max_seq_len \in Int /\ q.table_width \in Nat
      /\ q.block_tables \in Seq([1 .. q.table_width -> Nat]) /\ q.context_lens \in Seq(Nat)
    BY LaunchesAssumption DEF Positive
<1>2. /\ call.layout = "paged" /\ q.num_seqs = Len(q.block_tables)
      /\ q.num_seqs = Len(q.context_lens)
      /\ q.num_heads % q.num_kv_heads = 0 /\ NumHeads = q.num_kv_heads
      /\ HeadSize = q.head_size /\ BlockSize = q.block_size
      /\ q.max_seq_len > 0 /\ q.max_seq_len <= q.table_width * q.block_size
      /\ q.head_size \in HeadSizes
    BY DEF Accepted, ShapesFit
<1>3. HeadSize \in Positive /\ NumHeads \in Positive
    BY Shape
<1>4. HeadSize % q.x = 0 /\ q.num_heads % NumHeads = 0
    BY <1>1, <1>2
<1>5. HeadSize = (HeadSize \div q.x) * q.x /\ HeadSize \div q.x \in Int
    <2>1. HeadSize \in Int
        BY <1>3 DEF Positive
    <2>2. /\ HeadSize \div q.x \in Int
          /\ HeadSize = (HeadSize \div q.x) * q.x + (HeadSize % q.x)
        BY <1>1, <2>1, DivMod
    <2> DEFINE m == HeadSize \div q.x
    <2>3. m \in Int /\ HeadSize = m * q.x + 0
        BY <1>4, <2>2
    <2> HIDE DEF m
    <2>4. m * q.x + 0 = m * q.x
        BY <1>1, <2>3 DEF Positive
    <2>5. m \in Int /\ HeadSize = m * q.x
        BY <2>3, <2>4
    <2> QED BY <2>5 DEF m
<1>6. HeadSize \div q.x \in Positive
    <2> DEFINE m == HeadSize \div q.x
    <2>1. m \in Int /\ m * q.x \in Positive
        BY <1>3, <1>5
    <2> HIDE DEF m
    <2>2. q.x * m = m * q.x
        BY <1>1, <2>1 DEF Positive
    <2>3. m \in Positive
        BY <1>1, <2>1, <2>2, FactorPositive
    <2> QED BY <2>3 DEF m
<1>7. q.num_heads = NumHeads * (q.num_heads \div NumHeads)
    <2> DEFINE m == q.num_heads \div NumHeads
    <2>1. q.num_heads \in Int
        BY <1>1
    <2>2. m \in Int /\ q.num_heads = m * NumHeads + (q.num_heads % NumHeads)
        BY <1>3, <2>1, DivMod
    <2> HIDE DEF m
    <2>3. q.num_heads = m * NumHeads + 0
        BY <1>4, <2>2
    <2>4. q.num_heads = NumHeads * m
        BY <1>3, <2>2, <2>3 DEF Positive
    <2> QED BY <2>4 DEF m
<1>8. q.max_seq_len \in Nat /\ q.max_seq_len <= q.table_width * BlockSize
    BY <1>1, <1>2
<1> QED BY <1>1, <1>2, <1>5, <1>6, <1>7, <1>8

\* The query heads of a launch are shared out evenly among the KV heads.
LEMMA KvHeadOfHead ==
    ASSUME call \in Calls, NEW q \in Launches, Accepted(q),
           NEW head \in 0 .. q.num_heads - 1
    PROVE  LET group == q.num_heads \div NumHeads
           IN  /\ KvHeadIdx(q, head) \in KvHead
               /\ KvHeadIdx(q, head) =
                    CHOOSE k \in KvHead : head \in k * group .. (k + 1) * group - 1
<1> DEFINE N == NumHeads
           n == q.num_heads \div N
           h == head \div n
           r == head % n
<1>1. q.num_heads \in Nat /\ q.num_heads = N * n /\ q.num_kv_heads = N
    BY AcceptedShape
<1>2. N \in Positive /\ n \in Int
    <2>1. N \in Positive /\ q.num_heads \in Int
        BY <1>1, Shape
    <2> HIDE DEF N
    <2> QED BY <2>1, DivMod
<1>3. KvHeadIdx(q, head) = h /\ KvHead = 0 .. N - 1
    BY <1>1 DEF KvHeadIdx, KvHead
<1> HIDE DEF N, n
<1>4. n \in Positive /\ head \in 0 .. N * n - 1 /\ head \in Int
    <2>1. N * n \in Positive
        BY <1>1 DEF Positive
    <2> QED BY <1>1, <1>2, <2>1, FactorPositive
<1>5. h \in 0 .. N - 1 /\ r \in 0 .. n - 1 /\ head = h * n + r
    BY <1>2, <1>4, DivMod, DivBound
<1> HIDE DEF h, r
<1>6. head \in h * n .. (h + 1) * n - 1
    <2>1. (h + 1) * n = h * n + n /\ h * n \in Int
        BY <1>4, <1>5 DEF Positive
    <2> QED BY <1>4, <1>5, <2>1 DEF Positive
<1>7. ASSUME NEW k \in 0 .. N - 1, head \in k * n .. (k + 1) * n - 1
      PROVE  k = h
    <2>1. (k + 1) * n = k * n + n /\ k * n \in Int
        BY <1>4, <1>7 DEF Positive
    <2> DEFINE j == head - k * n
    <2>2. j \in 0 .. n - 1 /\ head = k * n + j
        BY <1>4, <1>7, <2>1 DEF Positive
    <2> HIDE DEF j
    <2>3. k * n + j = h * n + r
        BY <1>5, <2>2
    <2> QED BY <1>4, <1>5, <2>2, <2>3, RadixUnique
<1>8. h = CHOOSE k \in 0 .. N - 1 : head \in k * n .. (k + 1) * n - 1
    BY <1>5, <1>6, <1>7
<1> QED BY <1>3, <1>5, <1>8 DEF N, n

\* Token i of a context that is not too long: its block is in the sequence's
\* row of block_tables.
LEMMA BlockOfToken ==
    ASSUME call \in Calls, NEW q \in Launches, Accepted(q), BlocksExist(q),
           NEW seq \in 0 .. q.num_seqs - 1, ~EmptyOrTooLong(q, seq),
           NEW i \in 0 .. ContextLen(q, seq) - 1
    PROVE  LET row == i \div BlockSize
               block == PhysicalBlock(q, seq, row)
           IN  /\ row \in 0 .. q.table_width - 1 /\ i % BlockSize \in 0 .. BlockSize - 1
               /\ block = q.block_tables[seq + 1][row + 1]
               /\ block \in 0 .. NumBlocks - 1
<1> DEFINE B == BlockSize
           w == q.table_width
           n == Len(q.block_tables)
           row == i \div B
           cell == seq * w + row
<1>1. /\ q.num_seqs = n /\ q.num_seqs = Len(q.context_lens)
      /\ q.max_seq_len \in Nat /\ w \in Nat /\ q.max_seq_len <= w * B
      /\ q.block_tables \in Seq([1 .. w -> Nat]) /\ q.context_lens \in Seq(Nat)
    BY AcceptedShape
<1>2. B \in Positive
    BY Shape
<1>3. seq + 1 \in 1 .. n /\ n \in Positive
    <2>1. n \in Nat
        BY <1>1
    <2> QED BY <1>1, <2>1 DEF Positive
<1>4. ContextLen(q, seq) \in Nat /\ ContextLen(q, seq) <= q.max_seq_len
    <2>1. ContextLen(q, seq) \in Nat
        BY <1>1, <1>3 DEF ContextLen
    <2> QED BY <1>1, <2>1 DEF EmptyOrTooLong
<1> HIDE DEF B, w, n
<1>5. i \in 0 .. w * B - 1 /\ w \in Positive
    <2>1. w * B \in Int
        BY <1>1, <1>2 DEF Positive
    <2>2. i < w * B /\ i >= 0 /\ i \in Int
        BY <1>1, <1>4, <2>1
    <2>3. w # 0
        <3>1. CASE w = 0
            <4>1. w * B = 0
                BY <1>2, <3>1 DEF Positive
            <4> QED BY <2>2, <4>1
        <3> QED BY <3>1
    <2> QED BY <1>1, <2>1, <2>2, <2>3 DEF Positive
<1>6. row \in 0 .. w - 1 /\ i % B \in 0 .. B - 1
    BY <1>2, <1>5, DivMod, DivBound
<1> HIDE DEF row
<1>7. cell \in 0 .. n * w - 1 /\ cell \div w = seq /\ cell % w = row
    <2>1. seq \in 0 .. n - 1 /\ seq \in Int
        BY <1>1
    <2> QED BY <1>3, <1>5, <1>6, <2>1, RadixBound, DivOfNumeral
<1> HIDE DEF cell
<1>8. cell < n * w
    <2>1. n * w \in Int
        BY <1>3, <1>5 DEF Positive
    <2> QED BY <1>7, <2>1
<1>9. PhysicalBlock(q, seq, row) = q.block_tables[seq + 1][row + 1]
    BY <1>7, <1>8 DEF PhysicalBlock, cell, n, w
<1>10. row + 1 \in 1 .. w
    BY <1>5, <1>6 DEF Positive
<1>11. q.block_tables[seq + 1][row + 1] \in Nat
    <2> DEFINE S == [1 .. w -> Nat]
               table == q.block_tables
    <2>1. table \in Seq(S) /\ seq + 1 \in 1 .. Len(table)
        BY <1>1, <1>3 DEF n
    <2> HIDE DEF S, table
    <2>2. table[seq + 1] \in S
        BY <2>1
    <2>3. q.block_tables[seq + 1] \in [1 .. w -> Nat]
        BY <2>2 DEF S, table
    <2> QED BY <1>10, <2>3
<1>12. q.block_tables[seq + 1][row + 1] < NumBlocks
    <2>1. row * B < ContextLen(q, seq)
        <3>1. i \in Int /\ i < ContextLen(q, seq)
            BY <1>4
        <3>2. row * B + (i % B) = i
            BY <1>2, <3>1, DivMod DEF row
        <3>3. row * B \in Int
            BY <1>2, <1>5, <1>6 DEF Positive
        <3> QED BY <1>2, <1>4, <1>6, <3>1, <3>2, <3>3 DEF Positive
    <2>2. row \in 0 .. w - 1 /\ seq \in 0 .. n - 1
        BY <1>1, <1>6
    <2>3. q.block_size = B
        BY AcceptedShape DEF B
    <2> QED BY <2>1, <2>2, <2>3 DEF BlocksExist, n, w
<1>13. q.block_tables[seq + 1][row + 1] \in 0 .. NumBlocks - 1
    <2>1. NumBlocks \in Int
        BY Shape DEF Positive
    <2> QED BY <1>11, <1>12, <2>1
<1> QED BY <1>6, <1>9, <1>13 DEF B, row, w

LEMMA AddressesInCache ==
    ASSUME call \in Calls, NEW q \in Launches, Accepted(q),
           NEW b \in 0 .. NumBlocks - 1, NEW h \in KvHead, NEW t \in 0 .. BlockSize - 1,
           NEW d \in Dim
    PROVE  KeyAddress(q, b, h, t, d) \in Address /\ ValueAddress(q, b, h, t, d) \in Address
<1> DEFINE K == NumBlocks
           N == NumHeads
           G == HeadSize \div X
           J == HeadSize \div q.x
           B == BlockSize
           x == X
           y == q.x
           S == HeadSize
           g == d \div y
           r == d % y
<1>1. /\ K \in Positive /\ N \in Positive /\ G \in Positive /\ B \in Positive
      /\ x \in Positive /\ S \in Positive /\ S = x * G
    BY Shape
<1>2. y \in Positive /\ J \in Positive /\ S = J * y /\ q.block_size = B
    BY AcceptedShape
<1>3. b \in 0 .. K - 1 /\ t \in 0 .. B - 1 /\ h \in 0 .. N - 1 /\ d \in 0 .. S - 1
    BY DEF KvHead, Dim
<1>4. Address = 0 .. K * B * (N * S) - 1
    BY DEF Address, RowSize
<1>5. /\ BlockStride = N * G * B * x /\ HeadStride = G * B * x
      /\ KeyAddress(q, b, h, t, d) = b * BlockStride + h * HeadStride + g * B * y + t * y + r
    BY <1>2 DEF BlockStride, HeadStride, KeyAddress
<1> HIDE DEF K, N, G, J, B, x, y, S
<1>6. g \in 0 .. J - 1 /\ r \in 0 .. y - 1
    <2>1. d \in 0 .. J * y - 1 /\ d \in Int
        BY <1>2, <1>3
    <2> QED BY <1>2, <2>1, DivMod, DivBound
<1> HIDE DEF g, r
<1> DEFINE a == ((b * N + h) * J + g) * B + t
           m == K * N * J * B
<1>7. a \in 0 .. m - 1
    BY <1>1, <1>2, <1>3, <1>6, FourDigits
<1>8. m \in Positive
    <2>1. K * N \in Positive
        BY <1>1, ProductPositive
    <2>2. (K * N) * J \in Positive
        BY <1>2, <2>1, ProductPositive
    <2> QED BY <1>1, <2>2, ProductPositive
<1>9. a * y + r \in 0 .. m * y - 1
    <2> HIDE DEF a, m
    <2> QED BY <1>2, <1>6, <1>7, <1>8, RadixBound
<1>10. m * y = K * B * (N * S)
    <2>1. (K * N * J * B) * y = K * B * (N * (J * y))
        BY <1>1, <1>2 DEF Positive
    <2> QED BY <1>2, <2>1
<1>11. KeyAddress(q, b, h, t, d) = a * y + r
    <2>1. N * (x * G) * B = N * G * B * x /\ (x * G) * B = G * B * x
        BY <1>1 DEF Positive
    <2>2. BlockStride = N * (J * y) * B /\ HeadStride = (J * y) * B
        BY <1>1, <1>2, <1>5, <2>1
    <2>3. b * (N * (J * y) * B) + h * ((J * y) * B) + g * B * y + t * y + r
            = (((b * N + h) * J + g) * B + t) * y + r
        BY <1>1, <1>2, <1>3, <1>6 DEF Positive
    <2> QED BY <1>5, <2>2, <2>3
<1>12. KeyAddress(q, b, h, t, d) \in Address
    <2> HIDE DEF a, m
    <2> QED BY <1>4, <1>9, <1>10, <1>11
<1>13. ValueAddress(q, b, h, t, d) = PagedValueCell(b, t, h, d)
    <2>1. /\ ValueAddress(q, b, h, t, d) = b * BlockStride + h * HeadStride + d * BlockSize + t
          /\ b \in Int /\ h \in Int /\ t \in Int /\ d \in Int
        BY <1>2, <1>3 DEF ValueAddress, B
    <2> QED BY <2>1, PagedValueIsNumeral
<1>14. ValueAddress(q, b, h, t, d) \in Address
    BY <1>13, CellsInCache
<1> QED BY <1>12, <1>14

\* For every shape, context and table with block numbers that exist: a launch
\* that paged_attention_v1 accepts stays in its rows and in the caches.  It
\* takes that every head size isValidConfig knows is a multiple of x.
THEOREM LaunchesStayInBounds == PSpec => []AcceptedLaunchesStayInBounds
<1>1. ReaderInv => AcceptedLaunchesStayInBounds
    <2> SUFFICES ASSUME ReaderInv, Running, BlocksExist(launch.args)
                 PROVE  AcceptedLaunchesStayInBounds
        BY DEF AcceptedLaunchesStayInBounds
    <2> DEFINE q == launch.args
    <2>1. call \in Calls /\ q \in Launches /\ Accepted(q) /\ BlocksExist(q)
        <3>1. NotYet.status # "running" /\ Refused.status # "running"
            BY DEF NotYet, Refused
        <3>2. launch # NotYet /\ launch # Refused
            BY <3>1 DEF Running
        <3> QED BY <3>2 DEF ReaderInv, WriterInv
    <2> HIDE DEF q
    <2>2. q.block_size = BlockSize /\ q.head_size = HeadSize
        BY <2>1, AcceptedShape
    <2>3. ASSUME NEW g \in ThreadGroups(q), ~EmptyOrTooLong(q, g[1]),
                 NEW i \in 0 .. ContextLen(q, g[1]) - 1, NEW d \in Dim
          PROVE  LET block == PhysicalBlock(q, g[1], i \div BlockSize)
                     h == KvHeadIdx(q, g[2])
                     t == i % BlockSize
                 IN  /\ i \div BlockSize < q.table_width
                     /\ KeyAddress(q, block, h, t, d) \in Address
                     /\ ValueAddress(q, block, h, t, d) \in Address
        <3>1. g[1] \in 0 .. q.num_seqs - 1 /\ g[2] \in 0 .. q.num_heads - 1
            BY <2>3 DEF ThreadGroups
        <3>2. /\ i \div BlockSize \in 0 .. q.table_width - 1
              /\ i % BlockSize \in 0 .. BlockSize - 1
              /\ PhysicalBlock(q, g[1], i \div BlockSize) \in 0 .. NumBlocks - 1
            BY <2>1, <2>3, <3>1, BlockOfToken
        <3>3. KvHeadIdx(q, g[2]) \in KvHead
            BY <2>1, <3>1, KvHeadOfHead
        <3>4. i \div BlockSize < q.table_width
            <4>1. q.table_width \in Nat
                BY <2>1, AcceptedShape
            <4> QED BY <3>2, <4>1
        <3> QED BY <2>1, <2>3, <3>2, <3>3, <3>4, AddressesInCache
    <2> QED BY <2>2, <2>3 DEF AcceptedLaunchesStayInBounds, Dim, q
<1> QED BY <1>1, ReaderInvariance, PTL

\* With keys packed by x = 16 / sizeof(CACHE_T), the reader looks for token i
\* in the slot that block_tables names, where the writers' readers do.
LEMMA GatherReadsSlot ==
    ASSUME WriterInv, NEW q \in Launches, Accepted(q), BlocksExist(q), q.x = X,
           NEW seq \in 0 .. q.num_seqs - 1, ~EmptyOrTooLong(q, seq),
           NEW head \in 0 .. q.num_heads - 1,
           NEW i \in 0 .. ContextLen(q, seq) - 1, NEW d \in Dim
    PROVE  LET s == SlotOfToken(q, seq, i)
               h == KvHeadIdx(q, head)
           IN  /\ s \in Slot
               /\ GatherOne(q, seq, head, i, d)
                    = <<key_cache[KeyRead(s, h, d)], value_cache[ValueRead(s, h, d)]>>
<1> DEFINE row == i \div BlockSize
           t == i % BlockSize
           b == PhysicalBlock(q, seq, row)
           s == SlotOfToken(q, seq, i)
           h == KvHeadIdx(q, head)
<1>1. call \in Calls
    BY DEF WriterInv
<1>2. /\ row \in 0 .. q.table_width - 1 /\ t \in 0 .. BlockSize - 1
      /\ b = q.block_tables[seq + 1][row + 1] /\ b \in 0 .. NumBlocks - 1
    BY <1>1, BlockOfToken
<1>3. s = b * BlockSize + t
    BY <1>2 DEF SlotOfToken
<1>4. h \in KvHead
    BY <1>1, KvHeadOfHead
<1>5. q.block_size = BlockSize /\ call.layout = "paged"
    BY <1>1, AcceptedShape
<1>6. GatherOne(q, seq, head, i, d)
        = <<Load(key_cache, KeyAddress(q, b, h, t, d)),
            Load(value_cache, ValueAddress(q, b, h, t, d))>>
    BY <1>5 DEF GatherOne
<1> HIDE DEF row, t, b, s, h
<1>7. NumBlocks \in Positive /\ BlockSize \in Positive
    BY <1>1, Shape
<1>8. s \in Slot
    BY <1>2, <1>3, <1>7, RadixBound DEF Slot
<1>9. s \div BlockSize = b /\ s % BlockSize = t
    <2>1. b \in Int
        BY <1>2
    <2> QED BY <1>2, <1>3, <1>7, <2>1, DivOfNumeral
<1>10. /\ KeyAddress(q, b, h, t, d) = KeyRead(s, h, d)
       /\ ValueAddress(q, b, h, t, d) = ValueRead(s, h, d)
    BY <1>5, <1>9 DEF KeyAddress, ValueAddress, KeyRead, ValueRead
<1>11. KeyRead(s, h, d) \in Address /\ ValueRead(s, h, d) \in Address
    BY <1>1, <1>4, <1>8, ReadInCache
<1> QED BY <1>6, <1>8, <1>10, <1>11 DEF Load, s, h

\* Writers, block tables and the kernel together, for every shape: each query
\* head gets, in order, the keys and values that were stored for its context.
THEOREM HeadsReadWhatWasStored == PSpec => []HeadsGatherTheirContext
<1>1. ReaderInv => HeadsGatherTheirContext
    <2> SUFFICES ASSUME ReaderInv, NEW g \in DOMAIN gathered, launch.args.x = X,
                        BlocksExist(launch.args)
                 PROVE  LET q == launch.args
                            group == q.num_heads \div NumHeads
                            h == CHOOSE k \in KvHead : g[2] \in k * group .. (k + 1) * group - 1
                        IN  IF ContextLen(q, g[1]) \notin 1 .. q.max_seq_len
                            THEN gathered[g] = Zeros
                            ELSE \A i \in 0 .. ContextLen(q, g[1]) - 1, d \in Dim :
                                    LET s == SlotOfToken(q, g[1], i)
                                        may == OneOf({t \in Token : SlotOf(t) = s}, h, d)
                                    IN  gathered[g][i][d][1] \in may
                                        /\ gathered[g][i][d][2] \in may
        BY DEF HeadsGatherTheirContext
    <2> DEFINE q == launch.args
               seq == g[1]
               head == g[2]
               h == KvHeadIdx(q, head)
    <2>1. /\ Running /\ g \in ThreadGroups(q)
          /\ gathered[g] = Gather(q, seq, head) /\ WriterInv
        BY DEF ReaderInv
    <2>2. q \in Launches /\ Accepted(q) /\ Done /\ BlocksExist(q) /\ q.x = X
        <3>1. NotYet.status # "running" /\ Refused.status # "running"
            BY DEF NotYet, Refused
        <3>2. launch # NotYet /\ launch # Refused
            BY <2>1, <3>1 DEF Running
        <3> QED BY <3>2 DEF ReaderInv
    <2>3. call \in Calls
        BY <2>1 DEF WriterInv
    <2>4. seq \in 0 .. q.num_seqs - 1 /\ head \in 0 .. q.num_heads - 1
        BY <2>1 DEF ThreadGroups
    <2> HIDE DEF q, seq, head
    <2>5. /\ h \in KvHead
          /\ h = CHOOSE k \in KvHead : head \in k * (q.num_heads \div NumHeads)
                                          .. (k + 1) * (q.num_heads \div NumHeads) - 1
        BY <2>2, <2>3, <2>4, KvHeadOfHead
    <2> HIDE DEF h
    <2>6. q.max_seq_len \in Nat /\ q.head_size = HeadSize /\ ContextLen(q, seq) \in Nat
        <3>1. q.num_seqs = Len(q.context_lens) /\ q.context_lens \in Seq(Nat)
            BY <2>2, <2>3, AcceptedShape
        <3>2. seq + 1 \in 1 .. Len(q.context_lens)
            BY <2>4, <3>1
        <3>3. ContextLen(q, seq) \in Nat
            BY <3>1, <3>2 DEF ContextLen
        <3> QED BY <2>2, <2>3, <3>3, AcceptedShape
    <2>7. EmptyOrTooLong(q, seq) <=> ContextLen(q, seq) \notin 1 .. q.max_seq_len
        BY <2>6 DEF EmptyOrTooLong
    <2>8. CASE ContextLen(q, seq) \notin 1 .. q.max_seq_len
        <3>1. gathered[g] = Zeros
            BY <2>1, <2>7, <2>8 DEF Gather
        <3> QED BY <2>8, <3>1 DEF q, seq
    <2>9. CASE ContextLen(q, seq) \in 1 .. q.max_seq_len
        <3>1. ASSUME NEW i \in 0 .. ContextLen(q, seq) - 1, NEW d \in Dim
              PROVE  LET s == SlotOfToken(q, seq, i)
                         may == OneOf({t \in Token : SlotOf(t) = s}, h, d)
                     IN  gathered[g][i][d][1] \in may /\ gathered[g][i][d][2] \in may
            <4> DEFINE s == SlotOfToken(q, seq, i)
                       may == OneOf({t \in Token : SlotOf(t) = s}, h, d)
            <4>1. /\ s \in Slot
                  /\ GatherOne(q, seq, head, i, d)
                        = <<key_cache[KeyRead(s, h, d)], value_cache[ValueRead(s, h, d)]>>
                BY <2>1, <2>2, <2>4, <2>7, <2>9, <3>1, GatherReadsSlot DEF h
            <4> HIDE DEF s
            <4>2. gathered[g][i][d] = GatherOne(q, seq, head, i, d)
                BY <2>1, <2>6, <2>7, <2>9, <3>1 DEF Gather, Dim
            <4>3. /\ gathered[g][i][d][1] = key_cache[KeyRead(s, h, d)]
                  /\ gathered[g][i][d][2] = value_cache[ValueRead(s, h, d)]
                BY <4>1, <4>2
            <4>4. key_cache[KeyRead(s, h, d)] \in may /\ value_cache[ValueRead(s, h, d)] \in may
                BY <2>1, <2>2, <2>5, <3>1, <4>1, SlotWhenDone
            <4> QED BY <4>3, <4>4 DEF s
        <3> QED BY <2>5, <2>9, <3>1 DEF q, seq, head
    <2> QED BY <2>8, <2>9
<1> QED BY <1>1, ReaderInvariance, PTL

-----------------------------------------------------------------------------
(***************************************************************************)
(* The thread groups of the launch, each a run of PagedAttentionKernel.    *)
(* For any number of warps and lanes, any block, head and context size:    *)
(* the warps of a thread group race for no cell of shared memory, and stay *)
(* inside it.                                                              *)
(*                                                                         *)
(* The barriers cut the program into intervals.  The invariant is that all *)
(* warps are in the same interval, unless they all return early; within an *)
(* interval every cell that is written has one warp that uses it.          *)
(***************************************************************************)

\* How many barriers a warp has passed.
Interval ==
    [init |-> 0, barrier1 |-> 0, score |-> 1, publish_max |-> 1, barrier2 |-> 1,
     reduce_max |-> 2, barrier3 |-> 2, exp |-> 3, publish_sum |-> 3, barrier4 |-> 3,
     reduce_sum |-> 4, barrier5 |-> 4, values |-> 5, barrier6 |-> 5,
     output |-> 6, done |-> 6]

Labels ==
    {"init", "barrier1", "score", "publish_max", "barrier2", "reduce_max", "barrier3",
     "exp", "publish_sum", "barrier4", "reduce_sum", "barrier5", "values", "barrier6",
     "output", "done"}

KernelInv ==
    /\ context_len \in Nat
    /\ pc \in [Warp -> Labels]
    /\ EmptyOrOverlong => \A w \in Warp : pc[w] \in {"init", "done"}
    /\ ~EmptyOrOverlong => \A v, w \in Warp : Interval[pc[v]] = Interval[pc[w]]

-----------------------------------------------------------------------------
(* Who uses which cell *)

\* Rows of n elements do not overlap.
LEMMA RowsApart ==
    ASSUME NEW v \in Nat, NEW w \in Nat, NEW n \in Nat, v < w
    PROVE  v * n + n <= w * n
<1>1. (w - (v + 1)) \in Nat
  OBVIOUS
<1>2. (w - (v + 1)) * n >= 0
  BY <1>1
<1>3. (w - (v + 1)) * n = w * n - (v * n + n)
  OBVIOUS
<1>4. v * n \in Int /\ w * n \in Int
  OBVIOUS
<1> QED
  BY <1>2, <1>3, <1>4

LEMMA SameRow ==
    ASSUME NEW v \in Nat, NEW w \in Nat, NEW n \in Nat,
           NEW i \in 0 .. n - 1, NEW j \in 0 .. n - 1, v * n + i = w * n + j
    PROVE  v = w
<1>1. v * n \in Int /\ w * n \in Int
  OBVIOUS
<1>2. ~ (v < w)
  BY <1>1, RowsApart
<1>3. ~ (w < v)
  BY <1>1, RowsApart
<1> QED
  BY <1>2, <1>3

LEMMA LoopInRange ==
    ASSUME NEW w, NEW n
    PROVE  WarpLoop(w, n) \subseteq 0 .. n - 1
  BY DEF WarpLoop, ThreadLoop

\* A strided loop gives every index to one thread, and so to one warp.
LEMMA LoopsDisjoint ==
    ASSUME NEW v \in Warp, NEW w \in Warp, NEW n, NEW i,
           i \in WarpLoop(v, n), i \in WarpLoop(w, n)
    PROVE  v = w
<1>1. PICK l \in Lane : i \in ThreadLoop(v, l, n)
  BY DEF WarpLoop
<1>2. PICK m \in Lane : i \in ThreadLoop(w, m, n)
  BY DEF WarpLoop
<1>3. v * NumLanes + l = w * NumLanes + m
  BY <1>1, <1>2 DEF ThreadLoop
<1>4. v \in Nat /\ w \in Nat /\ NumLanes \in Nat
  BY WarpsAssumption, LanesAssumption DEF Warp
<1> QED
  BY <1>3, <1>4, SameRow DEF Lane

\* Blocks are dealt to the warps in turn, so a token is in one warp's blocks.
LEMMA BlocksDisjoint ==
    ASSUME NEW v \in Warp, NEW w \in Warp, NEW t,
           context_len \in Nat, t \in BlockTokens(v), t \in BlockTokens(w)
    PROVE  v = w
<1>1. PICK b \in Blocks(v), i \in 0 .. BLOCK_SIZE - 1 : t = b * BLOCK_SIZE + i
  BY DEF BlockTokens
<1>2. PICK c \in Blocks(w), j \in 0 .. BLOCK_SIZE - 1 : t = c * BLOCK_SIZE + j
  BY DEF BlockTokens
<1>3. b \in Nat /\ c \in Nat /\ BLOCK_SIZE \in Nat
  BY SizesAssumption DEF Blocks
<1>4. b = c
  BY <1>1, <1>2, <1>3, SameRow
<1> QED
  BY <1>4 DEF Blocks

LEMMA BlockTokensInRange ==
    ASSUME NEW w, context_len \in Nat, ~EmptyOrOverlong
    PROVE  BlockTokens(w) \subseteq 0 .. MaxSeqLen - 1
<1> SUFFICES ASSUME NEW t \in BlockTokens(w) PROVE t \in 0 .. MaxSeqLen - 1
  OBVIOUS
<1>1. PICK b \in Blocks(w), i \in 0 .. BLOCK_SIZE - 1 : t = b * BLOCK_SIZE + i
  BY DEF BlockTokens
<1>2. b \in Nat /\ BLOCK_SIZE \in Nat /\ i \in Nat
  BY SizesAssumption DEF Blocks
<1>3. b * BLOCK_SIZE \in Nat
  BY <1>2
<1>4. t \in Nat /\ t < context_len
  BY <1>1, <1>2, <1>3 DEF BlockTokens
<1> QED
  BY <1>4, SizesAssumption DEF EmptyOrOverlong

\* The rows of out_smem lie above the other cells, inside it, and apart.
LEMMA RowCells ==
    ASSUME NEW w \in Warp, NEW d \in HeadDim
    PROVE  /\ OutSmem(w, d) \in Int
           /\ OutSmem(w, d) >= MaxSeqLen + RedSize
           /\ OutSmem(w, d) < SmemCells
<1>1. w \in Nat /\ NumWarps \in Nat /\ HEAD_SIZE \in Nat /\ w < NumWarps
  BY WarpsAssumption, SizesAssumption DEF Warp
<1>2. w * HEAD_SIZE + HEAD_SIZE <= NumWarps * HEAD_SIZE
  BY <1>1, RowsApart
<1>3. w * HEAD_SIZE \in Nat /\ NumWarps * HEAD_SIZE \in Nat
  BY <1>1
<1> QED
  BY <1>1, <1>2, <1>3, SizesAssumption DEF OutSmem, SmemCells, HeadDim

LEMMA RowsDisjoint ==
    ASSUME NEW v \in Warp, NEW w \in Warp, NEW a, a \in Row(v), a \in Row(w)
    PROVE  v = w
<1>1. PICK d \in HeadDim : a = OutSmem(v, d)
  BY DEF Row
<1>2. PICK e \in HeadDim : a = OutSmem(w, e)
  BY DEF Row
<1>3. v \in Nat /\ w \in Nat /\ HEAD_SIZE \in Nat
  BY WarpsAssumption, SizesAssumption DEF Warp
<1>4. v * HEAD_SIZE \in Int /\ w * HEAD_SIZE \in Int
  BY <1>3
<1>5. v * HEAD_SIZE + d = w * HEAD_SIZE + e
  BY <1>1, <1>2, <1>3, <1>4, SizesAssumption DEF OutSmem, HeadDim
<1> QED
  BY <1>3, <1>5, SameRow DEF HeadDim

-----------------------------------------------------------------------------
(* The invariant *)

LEMMA InitKernelInv == KInit => KernelInv
<1> SUFFICES ASSUME KInit PROVE KernelInv
  OBVIOUS
<1>1. context_len \in Nat
  BY ContextLensAssumption DEF KInit
<1> QED
  BY <1>1 DEF KInit, KernelInv, Labels

\* A step that stays in its interval, and goes where After says, keeps KernelInv.
LEMMA AdvanceStep ==
    ASSUME KernelInv, NEW w \in Warp, ~EmptyOrOverlong, pc[w] \notin Barriers, pc[w] # "done",
           Advance(w), UNCHANGED context_len
    PROVE  KernelInv'
<1>1. After[pc[w]] \in Labels /\ Interval[After[pc[w]]] = Interval[pc[w]]
  BY DEF KernelInv, Labels, After, Interval, Barriers
<1>2. pc' \in [Warp -> Labels]
  BY <1>1 DEF KernelInv, Advance
<1>3. \A v \in Warp : Interval[pc'[v]] = Interval[pc[v]]
  BY <1>1 DEF KernelInv, Advance
<1> QED
  BY <1>2, <1>3 DEF KernelInv, EmptyOrOverlong

LEMMA WarpStepKernelInv ==
    ASSUME KernelInv, NEW w \in Warp, WarpStep(w)
    PROVE  KernelInv'
<1>1. CASE ReturnZeros(w)
  <2>1. pc' \in [Warp -> Labels] /\ UNCHANGED context_len
    BY <1>1 DEF ReturnZeros, KernelInv, Labels
  <2>2. \A v \in Warp : pc'[v] \in {"init", "done"}
    BY <1>1 DEF ReturnZeros, KernelInv
  <2> QED
    BY <1>1, <2>1, <2>2 DEF ReturnZeros, KernelInv, EmptyOrOverlong
<1>2. CASE ~ReturnZeros(w)
  <2>1. /\ Advance(w) /\ UNCHANGED context_len
        /\ pc[w] \notin Barriers /\ pc[w] # "done"
        /\ pc[w] = "init" => ~EmptyOrOverlong
    BY <1>2 DEF WarpStep, Initialise, Score, PublishMax, ReduceMax, Exponentiate,
                PublishSum, ReduceSum, WeighValues, WriteOutput, At, Barriers
  <2>2. ~EmptyOrOverlong
    BY <2>1 DEF KernelInv
  <2> QED
    BY <2>1, <2>2, AdvanceStep
<1> QED
  BY <1>1, <1>2

LEMMA PassKernelInv ==
    ASSUME KernelInv, NEW b \in Barriers, Pass(b)
    PROVE  KernelInv'
<1>1. After[b] \in Labels
  BY DEF Barriers, After, Labels
<1>2. 0 \in Warp
  BY WarpsAssumption DEF Warp
<1>3. ~EmptyOrOverlong
  BY <1>2 DEF KernelInv, Pass, At, Barriers
<1> QED
  BY <1>1, <1>3 DEF KernelInv, Pass, EmptyOrOverlong

LEMMA NextKernelInv == KernelInv /\ [KNext]_kvars => KernelInv'
<1> SUFFICES ASSUME KernelInv, [KNext]_kvars PROVE KernelInv'
  OBVIOUS
<1>1. CASE \E w \in Warp : WarpStep(w)
  BY <1>1, WarpStepKernelInv
<1>2. CASE \E b \in Barriers : Pass(b)
  BY <1>2, PassKernelInv
<1>3. CASE UNCHANGED kvars
  BY <1>3 DEF KernelInv, kvars, EmptyOrOverlong
<1> QED
  BY <1>1, <1>2, <1>3 DEF KNext

LEMMA Invariance == KSpec => []KernelInv
  BY InitKernelInv, NextKernelInv, PTL DEF KSpec

-----------------------------------------------------------------------------
(* What follows from it *)

\* Whatever a warp does, a cell below red_smem belongs to a loop or a block of
\* its own, and a cell above it to its row.
LEMMA NoConflict ==
    ASSUME KernelInv, NEW v \in Warp, NEW w \in Warp, v # w, NEW a,
           a \in Writes(v), a \in Reads(w) \union Writes(w)
    PROVE  FALSE
<1> USE DEF At
<1>1. /\ v \in Nat /\ w \in Nat /\ v < NumWarps /\ w < NumWarps
      /\ NumWarps \in Nat /\ RedSize \in Nat /\ MaxSeqLen \in Nat
      /\ NumWarps + 2 <= RedSize
  BY WarpsAssumption, SizesAssumption DEF Warp
<1>2. pc[v] \in Labels /\ pc[w] \in Labels
  BY DEF KernelInv
<1>3. CASE pc[v] = "init"
  <2>1. Reads(w) = {} /\ (Writes(w) = {} \/ pc[w] = "init")
    BY <1>2, <1>3 DEF KernelInv, Interval, Labels, Reads, Writes
  <2>2. \/ a \in WarpLoop(v, MaxSeqLen)
        \/ \E i \in WarpLoop(v, NumWarps * HEAD_SIZE) : a = MaxSeqLen + RedSize + i
    BY <1>1, <1>3, SizesAssumption DEF Writes, Logit, OutSmem
  <2>3. \/ a \in WarpLoop(w, MaxSeqLen)
        \/ \E i \in WarpLoop(w, NumWarps * HEAD_SIZE) : a = MaxSeqLen + RedSize + i
    BY <1>1, <2>1, SizesAssumption DEF Writes, Logit, OutSmem
  <2>4. a \notin WarpLoop(v, MaxSeqLen) \/ a \notin WarpLoop(w, MaxSeqLen)
    BY LoopsDisjoint
  <2>5. WarpLoop(v, MaxSeqLen) \subseteq 0 .. MaxSeqLen - 1
        /\ WarpLoop(w, MaxSeqLen) \subseteq 0 .. MaxSeqLen - 1
        /\ WarpLoop(v, NumWarps * HEAD_SIZE) \subseteq Nat
        /\ WarpLoop(w, NumWarps * HEAD_SIZE) \subseteq Nat
    BY DEF WarpLoop, ThreadLoop
  <2>6. PICK i \in WarpLoop(v, NumWarps * HEAD_SIZE) : a = MaxSeqLen + RedSize + i
    BY <1>1, <2>2, <2>3, <2>4, <2>5
  <2>7. PICK j \in WarpLoop(w, NumWarps * HEAD_SIZE) : a = MaxSeqLen + RedSize + j
    BY <1>1, <2>3, <2>5, <2>6
  <2>8. i = j
    BY <1>1, <2>5, <2>6, <2>7
  <2> QED
    BY <2>8, LoopsDisjoint
<1>4. CASE pc[v] # "init"
  <2>1. ~EmptyOrOverlong \/ Writes(v) = {}
    BY <1>4 DEF KernelInv, Writes
  <2>2. Interval[pc[v]] = Interval[pc[w]] /\ ~EmptyOrOverlong
    BY <2>1 DEF KernelInv
  <2>3. BlockTokens(v) \subseteq 0 .. MaxSeqLen - 1 /\ BlockTokens(w) \subseteq 0 .. MaxSeqLen - 1
    BY <2>2, BlockTokensInRange DEF KernelInv
  <2>4. WarpLoop(v, context_len) \subseteq 0 .. MaxSeqLen - 1
        /\ WarpLoop(w, context_len) \subseteq 0 .. MaxSeqLen - 1
    BY <1>1, <2>2, LoopInRange DEF KernelInv, EmptyOrOverlong
  <2>5. CASE pc[v] \in {"score", "publish_max"}
    <3>1. pc[w] \in {"score", "publish_max", "barrier2"}
      BY <1>2, <2>2, <2>5 DEF Interval, Labels
    <3>2. a \in BlockTokens(v) \/ a = MaxSeqLen + v
      BY <2>5 DEF Writes, Logit, Red
    <3>3. a \in BlockTokens(w) \/ a = MaxSeqLen + w
      BY <3>1 DEF Writes, Reads, Logit, Red
    <3> QED
      BY <1>1, <2>3, <3>2, <3>3, BlocksDisjoint DEF KernelInv
  <2>6. CASE pc[v] = "reduce_max"
    <3>1. v = 0 /\ pc[w] \in {"reduce_max", "barrier3"}
      BY <1>2, <2>2, <2>6 DEF Interval, Labels, Writes
    <3> QED
      BY <3>1 DEF Writes, Reads
  <2>7. CASE pc[v] \in {"exp", "publish_sum"}
    <3>1. pc[w] \in {"exp", "publish_sum", "barrier4"}
      BY <1>2, <2>2, <2>7 DEF Interval, Labels
    <3>2. a \in WarpLoop(v, context_len) \/ a = MaxSeqLen + v
      BY <2>7 DEF Writes, Logit, Red
    <3>3. a \in WarpLoop(w, context_len) \/ a = MaxSeqLen + w \/ a = MaxSeqLen + RedSize - 1
      BY <1>1, <3>1 DEF Writes, Reads, Logit, Red, RedMax
    <3> QED
      BY <1>1, <2>4, <3>2, <3>3, LoopsDisjoint
  <2>8. CASE pc[v] = "reduce_sum"
    <3>1. v = 0 /\ pc[w] \in {"reduce_sum", "barrier5"}
      BY <1>2, <2>2, <2>8 DEF Interval, Labels, Writes
    <3> QED
      BY <3>1 DEF Writes, Reads
  <2>9. CASE pc[v] = "values"
    <3>1. pc[w] \in {"values", "barrier6"}
      BY <1>2, <2>2, <2>9 DEF Interval, Labels
    <3>2. a \in Row(v)
      BY <2>9 DEF Writes
    <3>3. a >= MaxSeqLen + RedSize
      BY <3>2, RowCells DEF Row
    <3>4. a \in Row(w) \/ a = MaxSeqLen + (RedSize - 2) \/ a \in BlockTokens(w)
      BY <3>1 DEF Writes, Reads, RedSum, Red, Logit
    <3> QED
      BY <1>1, <2>3, <3>2, <3>3, <3>4, RowsDisjoint
  <2> QED
    BY <1>2, <1>4, <2>5, <2>6, <2>7, <2>8, <2>9 DEF Labels, Writes
<1> QED
  BY <1>3, <1>4

\* Whatever the numbers of warps, lanes, blocks and tokens, and however the
\* warps of a thread group are scheduled, no two of them race for a cell.
THEOREM WarpsNeverRace == KSpec => []RaceFree
<1>1. KernelInv => RaceFree
  BY NoConflict DEF RaceFree
<1> QED
  BY <1>1, Invariance, PTL

LEMMA AccessInBounds ==
    ASSUME KernelInv, NEW w \in Warp
    PROVE  Reads(w) \union Writes(w) \subseteq SmemAddress
<1> SUFFICES ASSUME NEW a \in Reads(w) \union Writes(w) PROVE a \in SmemAddress
  OBVIOUS
<1> USE DEF At, SmemAddress
<1>1. /\ w \in Nat /\ w < NumWarps
      /\ NumWarps \in Nat /\ RedSize \in Nat /\ MaxSeqLen \in Nat /\ HEAD_SIZE \in Nat
      /\ NumWarps + 2 <= RedSize
  BY WarpsAssumption, SizesAssumption DEF Warp
<1>2. pc[w] \in Labels
  BY DEF KernelInv
<1>3. NumWarps * HEAD_SIZE \in Nat /\ SmemCells = MaxSeqLen + RedSize + NumWarps * HEAD_SIZE
  BY <1>1 DEF SmemCells
<1>4. CASE a \in 0 .. MaxSeqLen - 1
  BY <1>1, <1>3, <1>4
<1>5. CASE \E i \in 0 .. RedSize - 1 : a = MaxSeqLen + i
  BY <1>1, <1>3, <1>5
<1>6. CASE \E v \in Warp : a \in Row(v)
  <2>1. PICK v \in Warp, d \in HeadDim : a = OutSmem(v, d)
    BY <1>6 DEF Row
  <2> QED
    BY <1>1, <1>3, <2>1, RowCells
<1>7. CASE pc[w] = "init"
  <2>1. Reads(w) = {}
    BY <1>7 DEF Reads
  <2>2. \/ a \in WarpLoop(w, MaxSeqLen)
        \/ \E i \in WarpLoop(w, NumWarps * HEAD_SIZE) : a = MaxSeqLen + RedSize + i
    BY <1>1, <1>7, <2>1 DEF Writes, Logit, OutSmem
  <2> QED
    BY <1>1, <1>3, <1>4, <2>2, LoopInRange
<1>8. CASE pc[w] \notin {"init", "done"}
  <2>1. ~EmptyOrOverlong
    BY <1>8 DEF KernelInv
  <2>2. BlockTokens(w) \subseteq 0 .. MaxSeqLen - 1
    BY <2>1, BlockTokensInRange DEF KernelInv
  <2>3. WarpLoop(w, context_len) \subseteq 0 .. MaxSeqLen - 1
    BY <1>1, <2>1, LoopInRange DEF KernelInv, EmptyOrOverlong
  <2>4. WarpLoop(w, HEAD_SIZE) \subseteq HeadDim
    BY LoopInRange DEF HeadDim
  <2>5. \/ a \in BlockTokens(w) \/ a \in WarpLoop(w, context_len)
        \/ \E v \in Warp : a = Red(v)
        \/ a = RedMax \/ a = RedSum
        \/ \E v \in Warp : a \in Row(v)
    <3>1. a \in Writes(w) \/ a \in Reads(w)
      OBVIOUS
    <3>2. CASE a \in Writes(w)
      BY <1>2, <1>8, <3>2 DEF Labels, Writes, Logit
    <3>3. CASE a \in Reads(w)
      <4>1. CASE pc[w] = "output"
        BY <2>4, <3>3, <4>1 DEF Reads, Row
      <4>2. CASE pc[w] # "output"
        BY <1>2, <1>8, <3>3, <4>2 DEF Labels, Reads, Logit
      <4> QED
        BY <4>1, <4>2
    <3> QED
      BY <3>1, <3>2, <3>3
  <2>6. \A v \in Warp : Red(v) = MaxSeqLen + v /\ v \in 0 .. RedSize - 1
    BY <1>1 DEF Red, Warp
  <2>7. /\ RedMax = MaxSeqLen + (RedSize - 1) /\ RedSize - 1 \in 0 .. RedSize - 1
        /\ RedSum = MaxSeqLen + (RedSize - 2) /\ RedSize - 2 \in 0 .. RedSize - 1
    BY <1>1 DEF RedMax, RedSum, Red
  <2> QED
    BY <1>4, <1>5, <1>6, <2>2, <2>3, <2>5, <2>6, <2>7
<1>9. CASE pc[w] = "done"
  BY <1>9 DEF Writes, Reads
<1> QED
  BY <1>7, <1>8, <1>9

\* The memory the launcher asks for holds every cell the kernel touches.
THEOREM AccessesStayInBounds == KSpec => []InBounds
<1>1. KernelInv => InBounds
  BY AccessInBounds DEF InBounds
<1> QED
  BY <1>1, Invariance, PTL

-----------------------------------------------------------------------------
(* Copying blocks: the invariants *)

\* What cells hold, named by where it was before the call.
Contents == {"dst", "src"} \X CopyAddress

\* Threads hold contents only between the load and the store of an iteration.
CopyTyped ==
    /\ copy_call \in CopyCalls
    /\ memory \in [Cache -> [CopyAddress -> Contents]]
    /\ copied \in [Pair -> [GroupThread -> Nat]]
    /\ loaded \in [Pair -> [GroupThread -> Contents \union {Nothing}]]
    /\ \A p \in Pair, th \in GroupThread : loaded[p][th] # Nothing => Busy(p, th)

\* What may be in element i of block b, and be brought there by pair p.
Holdable(b, i) ==
    IF InPlace THEN {Before(Cell(s, i)) : s \in Upstream(b)}
    ELSE {Before(Cell(b, i))} \union
            {Foreign(Cell(s, i)) : s \in {Src(p) : p \in {q \in Pair : Dst(q) = b}}}

Bringable(p, i) ==
    IF InPlace THEN {Before(Cell(s, i)) : s \in Upstream(Src(p))}
    ELSE {Foreign(Cell(Src(p), i))}

\* For any pairs.
FollowInv ==
    /\ CopyTyped
    /\ \A c \in Cache, b \in Block, i \in BlockElement :
            memory[c][Cell(b, i)] \in Holdable(b, i)
    /\ \A p \in Pair, th \in GroupThread :
            loaded[p][th] # Nothing => loaded[p][th] \in Bringable(p, AtElement(p, th))

\* What pair p is to bring to element i, and whether its thread has stored it.
Due(p, i) == IF InPlace THEN Before(Cell(Src(p), i)) ELSE Foreign(Cell(Src(p), i))

HasStored(c, p, i) ==
    LET th == i % NumThreads
    IN  copied[p][th] > c * CopyIterations(th) + i \div NumThreads

\* For independent ones.
Untouched ==
    \A c \in Cache, b \in Block, i \in BlockElement :
        (\A p \in Pair : Dst(p) # b) => memory[c][Cell(b, i)] = Before(Cell(b, i))

Delivered ==
    \A c \in Cache, p \in Pair, i \in BlockElement :
        /\ memory[c][Cell(Dst(p), i)] \in {Before(Cell(Dst(p), i)), Due(p, i)}
        /\ HasStored(c, p, i) => memory[c][Cell(Dst(p), i)] = Due(p, i)

LoadedDue ==
    \A p \in Pair, th \in GroupThread :
        loaded[p][th] # Nothing => loaded[p][th] = Due(p, AtElement(p, th))

AtOnceInv == CopyTyped /\ (Independent => Untouched /\ Delivered /\ LoadedDue)

-----------------------------------------------------------------------------
(* Blocks and the threads' shares of them *)

LEMMA CopySizes ==
    /\ NumCacheBlocks \in Positive /\ NumelPerBlock \in Positive
    /\ NumThreads \in Positive /\ NumThreads <= NumelPerBlock
BY BlockSizesAssumption DEF Positive

LEMMA CellInCache ==
    ASSUME NEW b \in Block, NEW i \in BlockElement
    PROVE  Cell(b, i) \in CopyAddress
BY CopySizes, RadixBound DEF Cell, Block, BlockElement, CopyAddress

LEMMA CellUnique ==
    ASSUME NEW b \in Block, NEW d \in Block, NEW i \in BlockElement, NEW j \in BlockElement,
           Cell(b, i) = Cell(d, j)
    PROVE  b = d /\ i = j
<1>1. b \in Int /\ d \in Int
    BY CopySizes DEF Block, Positive
<1> QED BY <1>1, CopySizes, RadixUnique DEF Cell, BlockElement

\* The elements of a thread are the NumThreads-ary numerals that end in it:
\* it has at least one, and its last one is inside the block.
LEMMA IterationsBound ==
    ASSUME NEW th \in GroupThread
    PROVE  /\ CopyIterations(th) \in Positive
           /\ \A k \in Nat : k < CopyIterations(th) <=> k * NumThreads + th < NumelPerBlock
<1> DEFINE N == NumelPerBlock
           T == NumThreads
           a == N - th + T - 1
           I == a \div T
<1>1. T \in Positive /\ N \in Positive /\ th \in 0 .. T - 1 /\ T <= N
    BY CopySizes DEF GroupThread
<1>2. a \in Int /\ a >= T
    BY <1>1 DEF Positive
<1> HIDE DEF a, N, T
<1>3. I \in Int /\ a % T \in 0 .. T - 1 /\ a = I * T + (a % T)
    BY <1>1, <1>2, DivMod
<1> HIDE DEF I
<1> DEFINE r == a % T
<1>4. r \in Int /\ 0 <= r /\ r < T
    BY <1>1, <1>3 DEF Positive
<1> HIDE DEF r
<1>5. a = I * T + r
    BY <1>3 DEF r
<1>6. T \in Nat /\ T > 0 /\ I * T \in Int
    BY <1>1, <1>3 DEF Positive
<1>7. I >= 1
    <2>1. CASE I <= 0
        <3>1. I * T <= 0
            BY <2>1, <1>3, <1>6
        <3> QED BY <3>1, <1>2, <1>4, <1>5, <1>6
    <2> QED BY <2>1, <1>3
<1>8. ASSUME NEW k \in Nat
      PROVE  k < I <=> k * T + th < N
    <2>0. k * T \in Int
        BY <1>6
    <2>1. ASSUME k < I PROVE k * T + th < N
        <3>1. (k + 1) * T <= I * T
            BY <2>1, <1>3, <1>6
        <3>2. (k + 1) * T = k * T + T
            BY <1>6
        <3>3. a = N - th + T - 1 /\ N \in Int /\ th \in Int
            BY <1>1 DEF a, N, T, Positive
        <3> QED BY <2>0, <3>1, <3>2, <3>3, <1>4, <1>5, <1>6
    <2>2. ASSUME k * T + th < N PROVE k < I
        <3>1. CASE k >= I
            <4>1. k * T >= I * T
                BY <3>1, <1>3, <1>6
            <4>2. a = N - th + T - 1 /\ N \in Int /\ th \in Int
                BY <1>1 DEF a, N, T, Positive
            <4> QED BY <2>0, <2>2, <4>1, <4>2, <1>4, <1>5, <1>6
        <3> QED BY <3>1, <1>3
    <2> QED BY <2>1, <2>2
<1>9. CopyIterations(th) = I
    BY DEF CopyIterations, I, a, N, T
<1>10. I \in Positive
    BY <1>3, <1>7 DEF Positive
<1> QED BY <1>8, <1>9, <1>10 DEF N, T

\* The thread that copies an element, and in which iteration.
LEMMA ElementsThread ==
    ASSUME NEW i \in BlockElement
    PROVE  /\ i % NumThreads \in GroupThread
           /\ i \div NumThreads \in 0 .. CopyIterations(i % NumThreads) - 1
           /\ i = (i \div NumThreads) * NumThreads + (i % NumThreads)
<1> DEFINE th == i % NumThreads
           k == i \div NumThreads
<1>1. NumThreads \in Positive /\ i \in Int /\ 0 <= i /\ i < NumelPerBlock
    BY CopySizes DEF BlockElement, Positive
<1>2. k \in Int /\ th \in 0 .. NumThreads - 1 /\ i = k * NumThreads + th
    BY <1>1, DivMod
<1>3. th \in GroupThread
    BY <1>2 DEF GroupThread
<1> HIDE DEF th, k
<1>4. k >= 0
    <2>1. CASE k <= -1
        <3>1. k * NumThreads <= (-1) * NumThreads
            BY <1>1, <1>2, <2>1 DEF Positive
        <3>2. k * NumThreads \in Int
            BY <1>1, <1>2 DEF Positive
        <3> QED BY <1>1, <1>2, <3>1, <3>2 DEF Positive
    <2> QED BY <2>1, <1>2
<1>5. k \in Nat /\ k * NumThreads + th < NumelPerBlock
    BY <1>1, <1>2, <1>4
<1>6. CopyIterations(th) \in Positive /\ k < CopyIterations(th)
    BY <1>3, <1>5, IterationsBound
<1>7. k \in 0 .. CopyIterations(th) - 1
    BY <1>5, <1>6 DEF Positive
<1> QED BY <1>2, <1>3, <1>7 DEF th, k

\* What a thread is at, in the numbers of its iteration.
LEMMA AtNumeral ==
    ASSUME CopyTyped, NEW p \in Pair, NEW th \in GroupThread
    PROVE  /\ AtCache(p, th) \in Nat
           /\ AtElement(p, th) \in BlockElement
           /\ AtElement(p, th) % NumThreads = th
           /\ AtElement(p, th) \div NumThreads \in 0 .. CopyIterations(th) - 1
           /\ copied[p][th] = AtCache(p, th) * CopyIterations(th)
                                + AtElement(p, th) \div NumThreads
<1> DEFINE n == copied[p][th]
           I == CopyIterations(th)
           T == NumThreads
           q == n \div I
           k == n % I
           e == th + k * T
<1>1. n \in Nat
    BY DEF CopyTyped
<1>2. I \in Positive /\ T \in Positive /\ th \in 0 .. T - 1
    BY CopySizes, IterationsBound DEF GroupThread
<1>3. \A j \in Nat : j < I <=> j * T + th < NumelPerBlock
    BY IterationsBound
<1>4. AtCache(p, th) = q /\ AtElement(p, th) = e
    BY DEF AtCache, AtElement
<1> HIDE DEF n, I, T
<1>5. q \in Int /\ k \in 0 .. I - 1 /\ n = q * I + k
    BY <1>1, <1>2, DivMod
<1> HIDE DEF q, k
<1>6. q >= 0
    <2>1. CASE q <= -1
        <3>1. q * I <= (-1) * I
            BY <1>2, <1>5, <2>1 DEF Positive
        <3>2. q * I \in Int
            BY <1>2, <1>5 DEF Positive
        <3> QED BY <1>1, <1>2, <1>5, <3>1, <3>2 DEF Positive
    <2> QED BY <2>1, <1>5
<1>7. k \in Nat /\ k < I
    BY <1>2, <1>5 DEF Positive
<1>8. k * T \in Nat /\ e = k * T + th /\ e \in Nat
    BY <1>2, <1>7 DEF Positive
<1>9. e < NumelPerBlock
    BY <1>3, <1>7, <1>8
<1>10. e \in BlockElement
    BY <1>8, <1>9, CopySizes DEF BlockElement, Positive
<1>11. e \div T = k /\ e % T = th
    BY <1>2, <1>7, <1>8, DivOfNumeral
<1> HIDE DEF e
<1> QED BY <1>4, <1>5, <1>6, <1>10, <1>11 DEF n, I, T

LEMMA PairBlocks ==
    ASSUME copy_call \in CopyCalls, NEW p \in Pair
    PROVE  Src(p) \in Block /\ Dst(p) \in Block
BY CopyCallsAssumption DEF Pair, Src, Dst

\* The cells a thread loads from and stores to are in the caches.
LEMMA AtCells ==
    ASSUME CopyTyped, NEW p \in Pair, NEW th \in GroupThread
    PROVE  /\ BlockOffset(Src(p)) + AtElement(p, th) = Cell(Src(p), AtElement(p, th))
           /\ BlockOffset(Dst(p)) + AtElement(p, th) = Cell(Dst(p), AtElement(p, th))
           /\ Cell(Src(p), AtElement(p, th)) \in CopyAddress
           /\ Cell(Dst(p), AtElement(p, th)) \in CopyAddress
<1>1. AtElement(p, th) \in BlockElement
    BY AtNumeral
<1>2. Src(p) \in Block /\ Dst(p) \in Block
    BY PairBlocks DEF CopyTyped
<1> QED BY <1>1, <1>2, CellInCache DEF BlockOffset, Cell

-----------------------------------------------------------------------------
(* What the steps do *)

\* A call never changes, and with it neither do the pairs and their blocks.
LEMMA PairsKept ==
    ASSUME copy_call' = copy_call
    PROVE  /\ Pair' = Pair /\ InPlace' = InPlace /\ Cache' = Cache
           /\ Independent' = Independent
           /\ \A p : Src(p)' = Src(p) /\ Dst(p)' = Dst(p)
           /\ \A p, i : Due(p, i)' = Due(p, i) /\ Bringable(p, i)' = Bringable(p, i)
           /\ \A b, i : Holdable(b, i)' = Holdable(b, i)
BY DEF Pair, InPlace, Cache, Independent, Src, Dst, Due, Bringable, Holdable, Upstream

\* What a thread that has not stored meanwhile is at, and is to bring there.
LEMMA ThreadKept ==
    ASSUME copy_call' = copy_call, NEW q, NEW u, copied'[q][u] = copied[q][u]
    PROVE  /\ AtCache(q, u)' = AtCache(q, u) /\ AtElement(q, u)' = AtElement(q, u)
           /\ Bringable(q, AtElement(q, u))' = Bringable(q, AtElement(q, u))
           /\ Due(q, AtElement(q, u))' = Due(q, AtElement(q, u))
<1>1. AtCache(q, u)' = AtCache(q, u) /\ AtElement(q, u)' = AtElement(q, u)
    BY DEF AtCache, AtElement
<1>2. Bringable(q, AtElement(q, u))' = Bringable(q, AtElement(q, u))
    BY <1>1 DEF Bringable, Upstream, InPlace, Src, Dst, Pair
<1>3. Due(q, AtElement(q, u))' = Due(q, AtElement(q, u))
    BY <1>1 DEF Due, InPlace, Src
<1> QED BY <1>1, <1>2, <1>3

LEMMA BeforeAndForeign ==
    ASSUME NEW a \in CopyAddress
    PROVE  /\ Before(a) \in Contents /\ Foreign(a) \in Contents
           /\ Before(a) # Nothing /\ Foreign(a) # Nothing
BY DEF Before, Foreign, Contents, Nothing

\* A load puts into the thread's register what is in the cell of its source.
LEMMA LoadStep ==
    ASSUME CopyTyped, NEW p \in Pair, NEW th \in GroupThread, LoadElement(p, th)
    PROVE  /\ CopyTyped'
           /\ memory' = memory /\ copied' = copied /\ copy_call' = copy_call
           /\ AtCache(p, th) \in Cache
           /\ loaded'[p][th] = IF InPlace
                               THEN memory[AtCache(p, th)][Cell(Src(p), AtElement(p, th))]
                               ELSE Foreign(Cell(Src(p), AtElement(p, th)))
           /\ \A q \in Pair, u \in GroupThread :
                q # p \/ u # th => loaded'[q][u] = loaded[q][u]
<1> DEFINE c == AtCache(p, th)
           a == Cell(Src(p), AtElement(p, th))
           v == IF InPlace THEN memory[c][a] ELSE Foreign(a)
<1>1. a = BlockOffset(Src(p)) + AtElement(p, th) /\ a \in CopyAddress
    BY AtCells
<1>2. c \in Cache
    BY DEF LoadElement, Busy
<1>3. /\ loaded' = [loaded EXCEPT ![p][th] = v]
      /\ memory' = memory /\ copied' = copied /\ copy_call' = copy_call
    BY <1>1 DEF LoadElement
<1>4. v \in Contents
    <2>1. memory[c][a] \in Contents
        BY <1>1, <1>2 DEF CopyTyped
    <2>2. Foreign(a) \in Contents
        BY <1>1, BeforeAndForeign
    <2> QED BY <2>1, <2>2
<1> HIDE DEF v
<1>5. loaded \in [Pair -> [GroupThread -> Contents \union {Nothing}]]
    BY DEF CopyTyped
<1>6. /\ loaded' \in [Pair -> [GroupThread -> Contents \union {Nothing}]]
      /\ loaded'[p][th] = v
      /\ \A q \in Pair, u \in GroupThread :
            q # p \/ u # th => loaded'[q][u] = loaded[q][u]
    BY <1>3, <1>4, <1>5
<1>7. \A q \in Pair, u \in GroupThread : loaded'[q][u] # Nothing => Busy(q, u)'
    <2>1. \A q \in Pair, u \in GroupThread : Busy(q, u)' = Busy(q, u)
        BY <1>3, PairsKept DEF Busy, AtCache
    <2>2. Busy(p, th)
        BY DEF LoadElement
    <2>3. \A q \in Pair, u \in GroupThread : loaded[q][u] # Nothing => Busy(q, u)
        BY DEF CopyTyped
    <2> QED BY <1>6, <2>1, <2>2, <2>3
<1>8. Pair' = Pair /\ Cache' = Cache
    BY <1>3, PairsKept
<1>9. CopyTyped'
    BY <1>3, <1>6, <1>7, <1>8 DEF CopyTyped
<1> QED BY <1>2, <1>3, <1>6, <1>9 DEF v

\* A store puts what the thread has loaded into the cell of its destination.
LEMMA StoreStep ==
    ASSUME CopyTyped, NEW p \in Pair, NEW th \in GroupThread, StoreElement(p, th)
    PROVE  /\ CopyTyped'
           /\ copy_call' = copy_call
           /\ loaded[p][th] # Nothing /\ loaded'[p][th] = Nothing
           /\ \A q \in Pair, u \in GroupThread : q # p \/ u # th =>
                loaded'[q][u] = loaded[q][u] /\ copied'[q][u] = copied[q][u]
           /\ copied'[p][th] = copied[p][th] + 1
           /\ AtCache(p, th) \in Cache
           /\ memory'[AtCache(p, th)][Cell(Dst(p), AtElement(p, th))] = loaded[p][th]
           /\ \A c \in Cache, b \in Block, i \in BlockElement :
                c # AtCache(p, th) \/ b # Dst(p) \/ i # AtElement(p, th) =>
                    memory'[c][Cell(b, i)] = memory[c][Cell(b, i)]
<1> DEFINE d == AtCache(p, th)
           e == AtElement(p, th)
           a == Cell(Dst(p), e)
           v == loaded[p][th]
<1>1. a = BlockOffset(Dst(p)) + e /\ a \in CopyAddress /\ e \in BlockElement
    BY AtCells, AtNumeral
<1>2. v # Nothing /\ d \in Cache
    BY DEF StoreElement, CopyTyped, Busy
<1>3. /\ memory' = [memory EXCEPT ![d][a] = v]
      /\ copied' = [copied EXCEPT ![p][th] = @ + 1]
      /\ loaded' = [loaded EXCEPT ![p][th] = Nothing]
      /\ copy_call' = copy_call
    BY <1>1 DEF StoreElement
<1>4. /\ memory \in [Cache -> [CopyAddress -> Contents]]
      /\ copied \in [Pair -> [GroupThread -> Nat]]
      /\ loaded \in [Pair -> [GroupThread -> Contents \union {Nothing}]]
      /\ copy_call \in CopyCalls
    BY DEF CopyTyped
<1>5. v \in Contents
    BY <1>2, <1>4
<1>6. Dst(p) \in Block
    BY <1>4, PairBlocks
<1> HIDE DEF v, d
<1>7. /\ memory' \in [Cache -> [CopyAddress -> Contents]]
      /\ memory'[d][a] = v
      /\ \A c \in Cache, x \in CopyAddress :
            c # d \/ x # a => memory'[c][x] = memory[c][x]
    BY <1>1, <1>2, <1>3, <1>4, <1>5
<1>8. /\ copied' \in [Pair -> [GroupThread -> Nat]]
      /\ copied'[p][th] = copied[p][th] + 1
      /\ \A q \in Pair, u \in GroupThread :
            q # p \/ u # th => copied'[q][u] = copied[q][u]
    BY <1>3, <1>4
<1>9. /\ loaded' \in [Pair -> [GroupThread -> Contents \union {Nothing}]]
      /\ loaded'[p][th] = Nothing
      /\ \A q \in Pair, u \in GroupThread :
            q # p \/ u # th => loaded'[q][u] = loaded[q][u]
    BY <1>3, <1>4
<1>10. Pair' = Pair /\ Cache' = Cache
    BY <1>3, PairsKept
<1>11. \A q \in Pair, u \in GroupThread : loaded'[q][u] # Nothing => Busy(q, u)'
    <2> SUFFICES ASSUME NEW q \in Pair, NEW u \in GroupThread, loaded'[q][u] # Nothing
                 PROVE  Busy(q, u)'
        OBVIOUS
    <2>1. q # p \/ u # th
        BY <1>9
    <2>2. Busy(q, u)
        BY <1>9, <2>1 DEF CopyTyped
    <2>3. copied'[q][u] = copied[q][u]
        BY <1>8, <2>1
    <2> QED BY <1>10, <2>2, <2>3 DEF Busy, AtCache
<1>12. CopyTyped'
    BY <1>3, <1>4, <1>7, <1>8, <1>9, <1>10, <1>11 DEF CopyTyped
<1>13. ASSUME NEW c \in Cache, NEW b \in Block, NEW i \in BlockElement,
              c # d \/ b # Dst(p) \/ i # e
       PROVE  memory'[c][Cell(b, i)] = memory[c][Cell(b, i)]
    <2>1. Cell(b, i) \in CopyAddress
        BY CellInCache
    <2>2. Cell(b, i) = a => b = Dst(p) /\ i = e
        BY <1>1, <1>6, CellUnique
    <2> QED BY <1>7, <1>13, <2>1, <2>2
<1> QED BY <1>2, <1>3, <1>7, <1>8, <1>9, <1>12, <1>13 DEF v, d

LEMMA InitCopyTyped == CopyInit => CopyTyped
<1> SUFFICES ASSUME CopyInit PROVE CopyTyped
    OBVIOUS
<1>1. memory \in [Cache -> [CopyAddress -> Contents]]
    BY BeforeAndForeign DEF CopyInit
<1> QED BY <1>1 DEF CopyInit, CopyTyped

LEMMA CopyTypedKept ==
    ASSUME CopyTyped, UNCHANGED cvars
    PROVE  CopyTyped'
<1>1. copy_call' = copy_call /\ memory' = memory /\ copied' = copied /\ loaded' = loaded
    BY DEF cvars
<1>2. \A p \in Pair, th \in GroupThread : Busy(p, th)' = Busy(p, th)
    BY <1>1, PairsKept DEF Busy, AtCache
<1> QED BY <1>1, <1>2, PairsKept DEF CopyTyped

LEMMA InitCell ==
    ASSUME CopyInit, NEW c \in Cache, NEW b \in Block, NEW i \in BlockElement
    PROVE  memory[c][Cell(b, i)] = Before(Cell(b, i))
BY CellInCache DEF CopyInit

-----------------------------------------------------------------------------
(* Contents follow pairs *)

LEMMA UpstreamOfItself ==
    ASSUME NEW b \in Block
    PROVE  b \in Upstream(b)
BY DEF Upstream

\* What leads to the source of a pair leads to its destination.
LEMMA UpstreamOfPair ==
    ASSUME copy_call \in CopyCalls, NEW p \in Pair
    PROVE  Upstream(Src(p)) \subseteq Upstream(Dst(p))
<1> SUFFICES ASSUME NEW s \in Upstream(Src(p)), NEW S \in SUBSET Block,
                    s \in S, \A q \in Pair : Src(q) \in S => Dst(q) \in S
             PROVE  Dst(p) \in S
    BY DEF Upstream
<1>1. Src(p) \in S
    BY DEF Upstream
<1> QED BY <1>1

LEMMA BroughtIsHoldable ==
    ASSUME copy_call \in CopyCalls, NEW p \in Pair, NEW i \in BlockElement
    PROVE  /\ Bringable(p, i) \subseteq Holdable(Dst(p), i)
           /\ InPlace => Holdable(Src(p), i) = Bringable(p, i)
<1>1. CASE InPlace
    BY <1>1, UpstreamOfPair DEF Bringable, Holdable
<1>2. CASE ~InPlace
    BY <1>2 DEF Bringable, Holdable
<1> QED BY <1>1, <1>2

LEMMA InitFollowInv == CopyInit => FollowInv
<1> SUFFICES ASSUME CopyInit PROVE FollowInv
    OBVIOUS
<1>1. ASSUME NEW b \in Block, NEW i \in BlockElement
      PROVE  Before(Cell(b, i)) \in Holdable(b, i)
    BY UpstreamOfItself DEF Holdable
<1>2. \A p \in Pair, th \in GroupThread : loaded[p][th] = Nothing
    BY DEF CopyInit
<1> QED BY <1>1, <1>2, InitCopyTyped, InitCell DEF FollowInv

LEMMA LoadFollowInv ==
    ASSUME FollowInv, NEW p \in Pair, NEW th \in GroupThread, LoadElement(p, th)
    PROVE  FollowInv'
<1> DEFINE e == AtElement(p, th)
<1>1. CopyTyped /\ copy_call \in CopyCalls
    BY DEF FollowInv, CopyTyped
<1>2. /\ CopyTyped'
      /\ memory' = memory /\ copied' = copied /\ copy_call' = copy_call
      /\ AtCache(p, th) \in Cache
      /\ loaded'[p][th] = IF InPlace THEN memory[AtCache(p, th)][Cell(Src(p), e)]
                          ELSE Foreign(Cell(Src(p), e))
      /\ \A q \in Pair, u \in GroupThread :
            q # p \/ u # th => loaded'[q][u] = loaded[q][u]
    BY <1>1, LoadStep
<1>3. e \in BlockElement /\ Src(p) \in Block
    BY <1>1, AtNumeral, PairBlocks
<1> HIDE DEF e
<1>4. loaded'[p][th] \in Bringable(p, e)
    <2>1. CASE InPlace
        <3>1. memory[AtCache(p, th)][Cell(Src(p), e)] \in Holdable(Src(p), e)
            BY <1>2, <1>3 DEF FollowInv
        <3> QED BY <1>1, <1>2, <1>3, <2>1, <3>1, BroughtIsHoldable
    <2>2. CASE ~InPlace
        BY <1>2, <2>2 DEF Bringable
    <2> QED BY <2>1, <2>2
<1>5. ASSUME NEW q \in Pair, NEW u \in GroupThread, loaded'[q][u] # Nothing
      PROVE  loaded'[q][u] \in Bringable(q, AtElement(q, u))
    <2>1. CASE q = p /\ u = th
        BY <1>4, <2>1 DEF e
    <2>2. CASE q # p \/ u # th
        BY <1>2, <1>5, <2>2 DEF FollowInv
    <2> QED BY <2>1, <2>2
<1>6. \A q \in Pair, u \in GroupThread :
        Bringable(q, AtElement(q, u))' = Bringable(q, AtElement(q, u))
    BY <1>2, ThreadKept
<1>7. /\ Pair' = Pair /\ Cache' = Cache
      /\ \A b, i : Holdable(b, i)' = Holdable(b, i)
    BY <1>2, PairsKept
<1>8. \A q \in Pair', u \in GroupThread :
        loaded'[q][u] # Nothing => loaded'[q][u] \in Bringable(q, AtElement(q, u))'
    BY <1>5, <1>6, <1>7
<1>9. \A c \in Cache', b \in Block, i \in BlockElement :
        memory'[c][Cell(b, i)] \in Holdable(b, i)'
    BY <1>2, <1>7 DEF FollowInv
<1> QED BY <1>2, <1>8, <1>9 DEF FollowInv

LEMMA StoreFollowInv ==
    ASSUME FollowInv, NEW p \in Pair, NEW th \in GroupThread, StoreElement(p, th)
    PROVE  FollowInv'
<1> DEFINE e == AtElement(p, th)
           d == AtCache(p, th)
<1>1. CopyTyped /\ copy_call \in CopyCalls
    BY DEF FollowInv, CopyTyped
<1>2. /\ CopyTyped'
      /\ copy_call' = copy_call
      /\ loaded[p][th] # Nothing /\ loaded'[p][th] = Nothing
      /\ \A q \in Pair, u \in GroupThread : q # p \/ u # th =>
            loaded'[q][u] = loaded[q][u] /\ copied'[q][u] = copied[q][u]
      /\ memory'[d][Cell(Dst(p), e)] = loaded[p][th]
      /\ \A c \in Cache, b \in Block, i \in BlockElement :
            c # d \/ b # Dst(p) \/ i # e => memory'[c][Cell(b, i)] = memory[c][Cell(b, i)]
    BY <1>1, StoreStep
<1>3. e \in BlockElement
    BY <1>1, AtNumeral
<1>4. loaded[p][th] \in Holdable(Dst(p), e)
    BY <1>1, <1>2, <1>3, BroughtIsHoldable DEF FollowInv
<1> HIDE DEF e, d
<1>5. ASSUME NEW c \in Cache, NEW b \in Block, NEW i \in BlockElement
      PROVE  memory'[c][Cell(b, i)] \in Holdable(b, i)
    <2>1. CASE c = d /\ b = Dst(p) /\ i = e
        BY <1>2, <1>4, <2>1
    <2>2. CASE ~(c = d /\ b = Dst(p) /\ i = e)
        BY <1>2, <2>2 DEF FollowInv
    <2> QED BY <2>1, <2>2
<1>6. /\ Pair' = Pair /\ Cache' = Cache
      /\ \A b, i : Holdable(b, i)' = Holdable(b, i)
    BY <1>2, PairsKept
<1>7. ASSUME NEW q \in Pair, NEW u \in GroupThread, loaded'[q][u] # Nothing
      PROVE  loaded'[q][u] \in Bringable(q, AtElement(q, u))'
    <2>1. q # p \/ u # th
        BY <1>2, <1>7
    <2>2. loaded[q][u] \in Bringable(q, AtElement(q, u))
        BY <1>2, <1>7, <2>1 DEF FollowInv
    <2>3. Bringable(q, AtElement(q, u))' = Bringable(q, AtElement(q, u))
        BY <1>2, <2>1, ThreadKept
    <2>4. loaded'[q][u] = loaded[q][u]
        BY <1>2, <2>1
    <2> QED BY <2>2, <2>3, <2>4
<1>8. \A c \in Cache', b \in Block, i \in BlockElement :
        memory'[c][Cell(b, i)] \in Holdable(b, i)'
    BY <1>5, <1>6
<1>9. \A q \in Pair', u \in GroupThread :
        loaded'[q][u] # Nothing => loaded'[q][u] \in Bringable(q, AtElement(q, u))'
    BY <1>6, <1>7
<1> QED BY <1>2, <1>8, <1>9 DEF FollowInv

LEMMA FollowInvariance == CopySpec => []FollowInv
<1>1. FollowInv /\ [CopyNext]_cvars => FollowInv'
    <2>1. ASSUME FollowInv, UNCHANGED cvars PROVE FollowInv'
        <3>1. copy_call' = copy_call /\ memory' = memory /\ copied' = copied /\ loaded' = loaded
            BY <2>1 DEF cvars
        <3>2. CopyTyped'
            BY <2>1, CopyTypedKept DEF FollowInv
        <3>3. /\ Pair' = Pair /\ Cache' = Cache
              /\ \A b, i : Holdable(b, i)' = Holdable(b, i)
              /\ \A q, u : Bringable(q, AtElement(q, u))' = Bringable(q, AtElement(q, u))
            BY <3>1, PairsKept, ThreadKept
        <3> QED BY <2>1, <3>1, <3>2, <3>3 DEF FollowInv
    <2> QED BY <2>1, LoadFollowInv, StoreFollowInv DEF CopyNext
<1> QED BY <1>1, InitFollowInv, PTL DEF CopySpec

\* For any pairs, chained, cyclic or with one destination twice, on caches of
\* any size, a block only ever holds contents that were upstream of it, each
\* element in its place.
THEOREM ContentsNeverStray == CopySpec => []ContentsFollowPairs
<1>1. FollowInv => ContentsFollowPairs
    BY DEF FollowInv, Holdable, ContentsFollowPairs
<1> QED BY <1>1, FollowInvariance, PTL

-----------------------------------------------------------------------------
(* Independent pairs are copied as if at once *)

LEMMA DestinationApart ==
    ASSUME Independent, NEW p \in Pair, NEW q \in Pair, Dst(p) = Dst(q)
    PROVE  p = q
BY DEF Independent

LEMMA InitAtOnceInv == CopyInit => AtOnceInv
<1> SUFFICES ASSUME CopyInit PROVE AtOnceInv
    OBVIOUS
<1>1. CopyTyped /\ copy_call \in CopyCalls
    BY InitCopyTyped DEF CopyTyped
<1>2. Untouched
    BY InitCell DEF Untouched
<1>3. ASSUME NEW c \in Cache, NEW p \in Pair, NEW i \in BlockElement
      PROVE  /\ memory[c][Cell(Dst(p), i)] = Before(Cell(Dst(p), i))
             /\ ~HasStored(c, p, i)
    <2> DEFINE th == i % NumThreads
               k == i \div NumThreads
    <2>1. th \in GroupThread /\ k \in 0 .. CopyIterations(th) - 1
        BY ElementsThread
    <2>2. copied[p][th] = 0
        BY <2>1 DEF CopyInit
    <2>3. CopyIterations(th) \in Positive
        BY <2>1, IterationsBound
    <2>4. HasStored(c, p, i) <=> copied[p][th] > c * CopyIterations(th) + k
        BY DEF HasStored
    <2> HIDE DEF th, k
    <2>5. c \in {0, 1}
        BY DEF Cache
    <2>6. ~(0 > c * CopyIterations(th) + k)
        BY <2>1, <2>3, <2>5 DEF Positive
    <2>7. memory[c][Cell(Dst(p), i)] = Before(Cell(Dst(p), i))
        BY <1>1, PairBlocks, InitCell
    <2> QED BY <2>2, <2>4, <2>6, <2>7
<1>4. Delivered
    BY <1>3 DEF Delivered
<1>5. LoadedDue
    BY DEF LoadedDue, CopyInit
<1> QED BY <1>1, <1>2, <1>4, <1>5 DEF AtOnceInv

\* No pair but its own may write the source of a pair, and its own writes what
\* was there.
LEMMA SourceUntouched ==
    ASSUME AtOnceInv, Independent, InPlace,
           NEW c \in Cache, NEW p \in Pair, NEW i \in BlockElement
    PROVE  memory[c][Cell(Src(p), i)] = Due(p, i)
<1>1. Src(p) \in Block
    BY PairBlocks DEF AtOnceInv, CopyTyped
<1>2. Due(p, i) = Before(Cell(Src(p), i))
    BY DEF Due
<1>3. CASE \E q \in Pair : Dst(q) = Src(p)
    <2>1. Dst(p) = Src(p)
        BY <1>3 DEF Independent
    <2> QED BY <1>2, <2>1 DEF AtOnceInv, Delivered
<1>4. CASE ~(\E q \in Pair : Dst(q) = Src(p))
    BY <1>1, <1>2, <1>4 DEF AtOnceInv, Untouched
<1> QED BY <1>3, <1>4

LEMMA LoadAtOnceInv ==
    ASSUME AtOnceInv, NEW p \in Pair, NEW th \in GroupThread, LoadElement(p, th)
    PROVE  AtOnceInv'
<1> DEFINE e == AtElement(p, th)
<1>1. CopyTyped
    BY DEF AtOnceInv
<1>2. /\ CopyTyped'
      /\ memory' = memory /\ copied' = copied /\ copy_call' = copy_call
      /\ AtCache(p, th) \in Cache
      /\ loaded'[p][th] = IF InPlace THEN memory[AtCache(p, th)][Cell(Src(p), e)]
                          ELSE Foreign(Cell(Src(p), e))
      /\ \A q \in Pair, u \in GroupThread :
            q # p \/ u # th => loaded'[q][u] = loaded[q][u]
    BY <1>1, LoadStep
<1>3. e \in BlockElement
    BY <1>1, AtNumeral
<1>4. /\ Pair' = Pair /\ Cache' = Cache /\ Independent' = Independent
      /\ \A q : Dst(q)' = Dst(q)
      /\ \A q, i : Due(q, i)' = Due(q, i)
    BY <1>2, PairsKept
<1> SUFFICES ASSUME Independent PROVE (Untouched /\ Delivered /\ LoadedDue)'
    BY <1>2, <1>4 DEF AtOnceInv
<1>5. Untouched'
    BY <1>2, <1>4 DEF AtOnceInv, Untouched
<1>6. Delivered'
    <2>1. \A c, q, i : HasStored(c, q, i)' = HasStored(c, q, i)
        BY <1>2 DEF HasStored
    <2> QED BY <1>2, <1>4, <2>1 DEF AtOnceInv, Delivered
<1>7. loaded'[p][th] = Due(p, e)
    <2>1. CASE InPlace
        BY <1>2, <1>3, <2>1, SourceUntouched
    <2>2. CASE ~InPlace
        BY <1>2, <2>2 DEF Due
    <2> QED BY <2>1, <2>2
<1>8. ASSUME NEW q \in Pair, NEW u \in GroupThread, loaded'[q][u] # Nothing
      PROVE  loaded'[q][u] = Due(q, AtElement(q, u))'
    <2>1. Due(q, AtElement(q, u))' = Due(q, AtElement(q, u))
        BY <1>2, ThreadKept
    <2>2. CASE q = p /\ u = th
        BY <1>7, <2>1, <2>2
    <2>3. CASE q # p \/ u # th
        BY <1>2, <1>8, <2>1, <2>3 DEF AtOnceInv, LoadedDue
    <2> QED BY <2>2, <2>3
<1>9. LoadedDue'
    BY <1>4, <1>8 DEF LoadedDue
<1> QED BY <1>5, <1>6, <1>9

\* A store is the one that its thread's next element waits for.
LEMMA StoredAfter ==
    ASSUME CopyTyped, NEW p \in Pair, NEW th \in GroupThread, StoreElement(p, th),
           NEW c \in Cache, NEW q \in Pair, NEW i \in BlockElement,
           HasStored(c, q, i)', ~HasStored(c, q, i)
    PROVE  q = p /\ c = AtCache(p, th) /\ i = AtElement(p, th)
<1> DEFINE u == i % NumThreads
           k == i \div NumThreads
           I == CopyIterations(u)
           e == AtElement(p, th)
           d == AtCache(p, th)
           j == e \div NumThreads
<1>1. /\ \A r \in Pair, w \in GroupThread :
            r # p \/ w # th => copied'[r][w] = copied[r][w]
      /\ copied'[p][th] = copied[p][th] + 1
    BY StoreStep
<1>2. u \in GroupThread /\ k \in 0 .. I - 1 /\ i = k * NumThreads + u
    BY ElementsThread
<1>3. I \in Positive
    BY <1>2, IterationsBound
<1>4. /\ HasStored(c, q, i) <=> copied[q][u] > c * I + k
      /\ HasStored(c, q, i)' <=> copied'[q][u] > c * I + k
    BY DEF HasStored
<1>5. q = p /\ u = th
    BY <1>1, <1>2, <1>4
<1>6. /\ d \in Nat /\ e \in BlockElement /\ e % NumThreads = th
      /\ j \in 0 .. CopyIterations(th) - 1
      /\ copied[p][th] = d * CopyIterations(th) + j
    BY AtNumeral
<1>7. e = j * NumThreads + th
    BY <1>6, ElementsThread
<1>8. c \in Int
    BY DEF Cache
<1> HIDE DEF u, k, I, e, d, j
<1>9. CopyIterations(th) = I
    BY <1>5 DEF I
<1>10. d * I + j = c * I + k
    <2>1. d * I + j \in Int /\ c * I + k \in Int
        BY <1>2, <1>3, <1>6, <1>8, <1>9 DEF Positive
    <2>2. d * I + j <= c * I + k /\ d * I + j + 1 > c * I + k
        BY <1>1, <1>4, <1>5, <1>6, <1>9, <2>1
    <2> QED BY <2>1, <2>2
<1>11. d = c /\ j = k
    BY <1>2, <1>3, <1>6, <1>8, <1>9, <1>10, RadixUnique
<1>12. i = e
    BY <1>2, <1>5, <1>7, <1>11
<1> QED BY <1>5, <1>11, <1>12 DEF e, d

LEMMA StoreAtOnceInv ==
    ASSUME AtOnceInv, NEW p \in Pair, NEW th \in GroupThread, StoreElement(p, th)
    PROVE  AtOnceInv'
<1> DEFINE e == AtElement(p, th)
           d == AtCache(p, th)
<1>1. CopyTyped
    BY DEF AtOnceInv
<1>2. /\ CopyTyped'
      /\ copy_call' = copy_call
      /\ loaded[p][th] # Nothing /\ loaded'[p][th] = Nothing
      /\ \A q \in Pair, u \in GroupThread : q # p \/ u # th =>
            loaded'[q][u] = loaded[q][u] /\ copied'[q][u] = copied[q][u]
      /\ memory'[d][Cell(Dst(p), e)] = loaded[p][th]
      /\ \A c \in Cache, b \in Block, i \in BlockElement :
            c # d \/ b # Dst(p) \/ i # e => memory'[c][Cell(b, i)] = memory[c][Cell(b, i)]
    BY <1>1, StoreStep
<1>3. /\ Pair' = Pair /\ Cache' = Cache /\ Independent' = Independent
      /\ \A q : Dst(q)' = Dst(q)
      /\ \A q, i : Due(q, i)' = Due(q, i)
    BY <1>2, PairsKept
<1> SUFFICES ASSUME Independent PROVE (Untouched /\ Delivered /\ LoadedDue)'
    BY <1>2, <1>3 DEF AtOnceInv
<1>4. \A q \in Pair : Dst(q) \in Block
    BY PairBlocks DEF AtOnceInv, CopyTyped
<1>5. loaded[p][th] = Due(p, e)
    BY <1>2 DEF AtOnceInv, LoadedDue
<1>6. \A c \in Cache, q \in Pair, i \in BlockElement :
        HasStored(c, q, i)' /\ ~HasStored(c, q, i) => q = p /\ c = d /\ i = e
    BY <1>1, StoredAfter
<1> HIDE DEF e, d
<1>7. ASSUME NEW c \in Cache, NEW b \in Block, NEW i \in BlockElement,
             \A q \in Pair : Dst(q) # b
      PROVE  memory'[c][Cell(b, i)] = Before(Cell(b, i))
    BY <1>2, <1>7 DEF AtOnceInv, Untouched
<1>8. Untouched'
    BY <1>3, <1>7 DEF Untouched
<1>9. ASSUME NEW c \in Cache, NEW q \in Pair, NEW i \in BlockElement
      PROVE  /\ memory'[c][Cell(Dst(q), i)] \in {Before(Cell(Dst(q), i)), Due(q, i)}
             /\ HasStored(c, q, i)' => memory'[c][Cell(Dst(q), i)] = Due(q, i)
    <2>1. CASE q = p /\ c = d /\ i = e
        BY <1>2, <1>5, <2>1
    <2>2. CASE ~(q = p /\ c = d /\ i = e)
        <3>1. memory'[c][Cell(Dst(q), i)] = memory[c][Cell(Dst(q), i)]
            <4>1. Dst(q) = Dst(p) => q = p
                BY DestinationApart
            <4> QED BY <1>2, <1>4, <2>2, <4>1
        <3>2. HasStored(c, q, i)' => HasStored(c, q, i)
            BY <1>6, <2>2
        <3> QED BY <3>1, <3>2 DEF AtOnceInv, Delivered
    <2> QED BY <2>1, <2>2
<1>10. Delivered'
    BY <1>3, <1>9 DEF Delivered
<1>11. ASSUME NEW q \in Pair, NEW u \in GroupThread, loaded'[q][u] # Nothing
       PROVE  loaded'[q][u] = Due(q, AtElement(q, u))'
    <2>1. q # p \/ u # th
        BY <1>2, <1>11
    <2>2. Due(q, AtElement(q, u))' = Due(q, AtElement(q, u))
        BY <1>2, <2>1, ThreadKept
    <2> QED BY <1>2, <1>11, <2>1, <2>2 DEF AtOnceInv, LoadedDue
<1>12. LoadedDue'
    BY <1>3, <1>11 DEF LoadedDue
<1> QED BY <1>8, <1>10, <1>12

LEMMA AtOnceInvariance == CopySpec => []AtOnceInv
<1>1. AtOnceInv /\ [CopyNext]_cvars => AtOnceInv'
    <2>1. ASSUME AtOnceInv, UNCHANGED cvars PROVE AtOnceInv'
        <3>1. copy_call' = copy_call /\ memory' = memory /\ copied' = copied /\ loaded' = loaded
            BY <2>1 DEF cvars
        <3>2. CopyTyped'
            BY <2>1, CopyTypedKept DEF AtOnceInv
        <3>3. /\ Pair' = Pair /\ Cache' = Cache /\ Independent' = Independent
              /\ \A q : Dst(q)' = Dst(q)
              /\ \A q, i : Due(q, i)' = Due(q, i)
              /\ \A q, u : Due(q, AtElement(q, u))' = Due(q, AtElement(q, u))
              /\ \A c, q, i : HasStored(c, q, i)' = HasStored(c, q, i)
            BY <3>1, PairsKept, ThreadKept DEF HasStored
        <3>4. Untouched' = Untouched
            BY <3>1, <3>3 DEF Untouched
        <3>5. Delivered' = Delivered
            BY <3>1, <3>3 DEF Delivered
        <3>6. LoadedDue' = LoadedDue
            BY <3>1, <3>3 DEF LoadedDue
        <3> QED BY <2>1, <3>2, <3>3, <3>4, <3>5, <3>6 DEF AtOnceInv
    <2> QED BY <2>1, LoadAtOnceInv, StoreAtOnceInv DEF CopyNext
<1> QED BY <1>1, InitAtOnceInv, PTL DEF CopySpec

\* A thread that is past the last cache has stored all of its elements.
LEMMA AllCopiedMeansStored ==
    ASSUME CopyTyped, AllCopied,
           NEW c \in Cache, NEW p \in Pair, NEW i \in BlockElement
    PROVE  HasStored(c, p, i)
<1> DEFINE th == i % NumThreads
           k == i \div NumThreads
           I == CopyIterations(th)
           d == AtCache(p, th)
           j == AtElement(p, th) \div NumThreads
<1>1. th \in GroupThread /\ k \in 0 .. I - 1
    BY ElementsThread
<1>2. I \in Positive
    BY <1>1, IterationsBound
<1>3. d \in Nat /\ j \in 0 .. I - 1 /\ copied[p][th] = d * I + j
    BY <1>1, AtNumeral
<1>4. d \notin Cache
    BY <1>1 DEF AllCopied, Busy
<1>5. HasStored(c, p, i) <=> copied[p][th] > c * I + k
    BY DEF HasStored
<1> HIDE DEF th, k, I, d, j
<1>6. c \in Nat /\ d >= c + 1
    BY <1>3, <1>4 DEF Cache
<1>7. d * I >= c * I + I
    <2>1. d * I >= (c + 1) * I
        BY <1>2, <1>3, <1>6 DEF Positive
    <2>2. (c + 1) * I = c * I + I
        BY <1>2, <1>6 DEF Positive
    <2> QED BY <2>1, <2>2
<1>8. d * I \in Int /\ c * I \in Int
    BY <1>2, <1>3, <1>6 DEF Positive
<1> QED BY <1>1, <1>2, <1>3, <1>5, <1>7, <1>8 DEF Positive

\* On caches of any size, with any number of pairs and threads and in any
\* order: independent pairs leave every destination a copy of what its source
\* held before the call, and no other block changed.
THEOREM IndependentPairsCopyAtOnce == CopySpec => []CopiesAsIfAtOnce
<1>1. AtOnceInv => CopiesAsIfAtOnce
    <2> SUFFICES ASSUME AtOnceInv, AllCopied, Independent,
                        NEW c \in Cache, NEW b \in Block, NEW i \in BlockElement
                 PROVE  LET from == {Src(p) : p \in {q \in Pair : Dst(q) = b}}
                        IN  memory[c][Cell(b, i)] \in
                                IF from = {} THEN {Before(Cell(b, i))}
                                ELSE {IF InPlace THEN Before(Cell(s, i))
                                      ELSE Foreign(Cell(s, i)) : s \in from}
        BY DEF CopiesAsIfAtOnce
    <2> DEFINE from == {Src(p) : p \in {q \in Pair : Dst(q) = b}}
    <2>1. CASE \E p \in Pair : Dst(p) = b
        <3>1. PICK p \in Pair : Dst(p) = b
            BY <2>1
        <3>2. HasStored(c, p, i)
            BY AllCopiedMeansStored DEF AtOnceInv
        <3>3. memory[c][Cell(b, i)] = Due(p, i)
            BY <3>1, <3>2 DEF AtOnceInv, Delivered
        <3>4. Src(p) \in from
            BY <3>1
        <3> HIDE DEF from
        <3>5. memory[c][Cell(b, i)] =
                IF InPlace THEN Before(Cell(Src(p), i)) ELSE Foreign(Cell(Src(p), i))
            BY <3>3 DEF Due
        <3> QED BY <3>4, <3>5 DEF from
    <2>2. CASE ~(\E p \in Pair : Dst(p) = b)
        <3>1. from = {}
            BY <2>2
        <3>2. memory[c][Cell(b, i)] = Before(Cell(b, i))
            BY <2>2 DEF AtOnceInv, Untouched
        <3> QED BY <3>1, <3>2
    <2> QED BY <2>1, <2>2
<1> QED BY <1>1, AtOnceInvariance, PTL
=============================================================================
