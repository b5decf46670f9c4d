--------------------------- MODULE Export_proofs ---------------------------
(***************************************************************************)
(* Proofs about Export: the filter judges by whole lists, print-mask       *)
(* prints the mask it read, and the tags that are posted are right.        *)
(***************************************************************************)
EXTENDS Export, TLAPS, FiniteSetTheorems

(* What is left to parse completes the list. *)
ParseInv ==
  \A c \in Consoles :
    cmd[c] = "parse" => Meaning(asked[c]) = bit_mask[c] \cup Meaning(rest[c])

MaskInv == domain_bit_flags = Meaning(applied)

(* What is printed and what is left to print make up the mask. *)
PrintInv ==
  \A c \in Consoles : cmd[c] = "print" =>
    /\ \A i \in m[c] : i >= j[c]
    /\ shown[c] \subseteq Domains =>
         /\ m[c] \subseteq Domains
         /\ Meaning(printed[c]) \cup m[c] = shown[c]

Inv == TypeOK /\ ParseInv /\ MaskInv /\ FilterRight /\ PrintInv /\ TagSafe

-----------------------------------------------------------------------------
LEMMA DomainsAreBits == Domains \subseteq Bits
BY WidthAssumption DEF Domains, Bits

(* The mask of a list, token by token. *)
LEMMA MeaningEmpty == Meaning(<<>>) = {}
BY DEF Meaning

LEMMA MeaningType ==
  ASSUME NEW list
  PROVE  Meaning(list) \subseteq Bits
BY DEF Meaning

LEMMA MeaningParse ==
  ASSUME NEW bits, NEW list \in Seq(Tokens), list # <<>>
  PROVE  Token(bits, Head(list)) \cup Meaning(Tail(list)) = bits \cup Meaning(list)
<1>1. \A i : i \in Meaning(list) <=>
               i \in Meaning(Tail(list)) \/ i \in Token({}, Head(list))
  <2> SUFFICES ASSUME NEW i
               PROVE  i \in Meaning(list) <=>
                        i \in Meaning(Tail(list)) \/ i \in Token({}, Head(list))
    OBVIOUS
  <2> DEFINE Sets(token) ==
               i \in Bits /\ (token = "ALL" \/ (i \in Domains /\ token = domains_names[i]))
  <2>1. i \in Meaning(list) <=> \E k \in 1..Len(list) : Sets(list[k])
    BY DEF Meaning
  <2>2. i \in Meaning(Tail(list)) <=> \E k \in 1..Len(Tail(list)) : Sets(Tail(list)[k])
    BY DEF Meaning
  <2>3. i \in Token({}, Head(list)) <=> Sets(Head(list))
    BY DomainsAreBits DEF Token
  <2>4. /\ Head(list) = list[1] /\ Len(Tail(list)) = Len(list) - 1
        /\ Len(list) \in Nat /\ Len(list) >= 1
        /\ \A k \in 1..(Len(list) - 1) : Tail(list)[k] = list[k + 1]
    OBVIOUS
  <2> HIDE DEF Sets
  <2>5. ASSUME NEW k \in 1..Len(list), Sets(list[k])
        PROVE  i \in Meaning(Tail(list)) \/ i \in Token({}, Head(list))
    <3>1. CASE k = 1
      BY <2>3, <2>4, <2>5, <3>1
    <3>2. CASE k # 1
      <4>1. k - 1 \in 1..(Len(list) - 1) /\ list[(k - 1) + 1] = list[k]
        BY <2>4, <3>2
      <4>2. Tail(list)[k - 1] = list[k]
        BY <2>4, <4>1
      <4> QED
        BY <2>2, <2>4, <2>5, <4>1, <4>2
    <3> QED
      BY <3>1, <3>2
  <2>6. ASSUME NEW k \in 1..Len(Tail(list)), Sets(Tail(list)[k])
        PROVE  \E l \in 1..Len(list) : Sets(list[l])
    BY <2>4, <2>6
  <2>7. Sets(Head(list)) => \E l \in 1..Len(list) : Sets(list[l])
    BY <2>4
  <2> QED
    BY <2>1, <2>2, <2>3, <2>5, <2>6, <2>7
<1>2. Token(bits, Head(list)) = bits \cup Token({}, Head(list))
  BY DEF Token
<1> QED
  BY <1>1, <1>2

LEMMA MeaningPrint ==
  ASSUME NEW list \in Seq(Tokens), NEW i \in Domains
  PROVE  Meaning(Append(list, domains_names[i])) = Meaning(list) \cup {i}
<1> DEFINE new == Append(list, domains_names[i])
<1>1. /\ Len(new) = Len(list) + 1 /\ Len(list) \in Nat
      /\ \A k \in 1..Len(list) : new[k] = list[k]
      /\ new[Len(list) + 1] = domains_names[i]
  OBVIOUS
<1>2. i \in Bits /\ domains_names[i] # "ALL"
  BY DomainsAreBits, NamesAssumption
<1> HIDE DEF new
<1>3. ASSUME NEW b \in Meaning(new)
      PROVE  b \in Meaning(list) \cup {i}
  <2>1. PICK k \in 1..Len(new) :
          b \in Bits /\ (new[k] = "ALL" \/ (b \in Domains /\ new[k] = domains_names[b]))
    BY <1>3 DEF Meaning
  <2>2. CASE k \in 1..Len(list)
    BY <1>1, <2>1, <2>2 DEF Meaning
  <2>3. CASE k = Len(list) + 1
    BY <1>1, <1>2, <2>1, <2>3, NamesAssumption
  <2> QED
    BY <1>1, <2>1, <2>2, <2>3
<1>4. ASSUME NEW b \in Meaning(list)
      PROVE  b \in Meaning(new)
  BY <1>1, <1>4 DEF Meaning
<1>5. i \in Meaning(new)
  <2>1. Len(list) + 1 \in 1..Len(new)
    BY <1>1
  <2> QED
    BY <1>1, <1>2, <2>1 DEF Meaning
<1>6. Meaning(new) = Meaning(list) \cup {i}
  BY <1>3, <1>4, <1>5
<1> QED
  BY <1>6 DEF new

-----------------------------------------------------------------------------
(* The consoles. *)
LEMMA ListType ==
  ASSUME NEW list \in Lists
  PROVE  list \in Seq(Tokens)
BY ListsAssumption

LEMMA TokenType ==
  ASSUME NEW bits \in SUBSET Bits, NEW token
  PROVE  Token(bits, token) \in SUBSET Bits
BY DomainsAreBits DEF Token

LEMMA PrintType ==
  ASSUME TypeOK, PrintInv, NEW c \in Consoles, cmd[c] = "print", m[c] # {}
  PROVE  j[c] \in Bits /\ j[c] + 1 \in 0..Width
<1>1. PICK i \in m[c] : i >= j[c]
  BY DEF PrintInv
<1>2. i \in Bits /\ j[c] \in 0..Width
  BY DEF TypeOK
<1> QED
  BY <1>1, <1>2, WidthAssumption DEF Bits

LEMMA NameType ==
  ASSUME NEW i
  PROVE  Name(i) \in Tokens
BY DEF Name, Tokens

(* A step of a console leaves the listener's thread alone. *)
LEMMA ConsoleTypes ==
  ASSUME TypeOK, PrintInv, NEW c \in Consoles, Console(c)
  PROVE  TypeOK'
<1> USE DEF listener, copying, history, console
<1>1. ASSUME NEW list \in Lists, UpdateMask(c, list)
      PROVE  TypeOK'
  BY <1>1, ListType DEF UpdateMask, TypeOK
<1>2. CASE ParseToken(c)
  <2>1. Tail(rest[c]) \in Seq(Tokens)
    BY <1>2 DEF ParseToken, TypeOK
  <2>2. Token(bit_mask[c], Head(rest[c])) \in SUBSET Bits
    BY TokenType DEF TypeOK
  <2>3. /\ rest' \in [Consoles -> Seq(Tokens)] /\ bit_mask' \in [Consoles -> SUBSET Bits]
    BY <1>2, <2>1, <2>2 DEF ParseToken, TypeOK
  <2> QED
    BY <1>2, <2>3 DEF ParseToken, TypeOK
<1>3. CASE SetMask(c)
  BY <1>3 DEF SetMask, TypeOK
<1>4. CASE PrintMask(c)
  BY <1>4, WidthAssumption DEF PrintMask, TypeOK
<1>5. CASE PrintBit(c)
  <2>1. j[c] + 1 \in 0..Width /\ Name(j[c]) \in Tokens
    BY <1>5, PrintType, NameType DEF PrintBit
  <2>2. (IF j[c] \in m[c] THEN Append(printed[c], Name(j[c])) ELSE printed[c]) \in Seq(Tokens)
    BY <2>1 DEF TypeOK
  <2>3. printed' \in [Consoles -> Seq(Tokens)]
    BY <1>5, <2>2 DEF PrintBit, TypeOK
  <2>4. m' \in [Consoles -> SUBSET Bits] /\ j' \in [Consoles -> 0..Width]
    BY <1>5, <2>1 DEF PrintBit, TypeOK
  <2> QED
    BY <1>5, <2>3, <2>4 DEF PrintBit, TypeOK
<1>6. CASE PrintDone(c)
  BY <1>6, WidthAssumption DEF PrintDone, TypeOK
<1> QED
  BY <1>1, <1>2, <1>3, <1>4, <1>5, <1>6 DEF Console

LEMMA ConsoleStep ==
  ASSUME Inv, NEW c \in Consoles, Console(c)
  PROVE  Inv'
<1> USE DEF Inv
<1>1. TypeOK'
  BY ConsoleTypes
<1>2. UNCHANGED <<at, data, dest, rc, judged>>
  BY DEF Console, UpdateMask, ParseToken, SetMask, PrintMask, PrintBit, PrintDone,
     listener, copying, history
<1>3. FilterRight' /\ TagSafe'
  BY <1>2 DEF FilterRight, TagSafe
<1>4. ParseInv' /\ MaskInv'
  <2>1. ASSUME NEW list \in Lists, UpdateMask(c, list)
        PROVE  ParseInv' /\ MaskInv'
    BY <2>1 DEF UpdateMask, TypeOK, ParseInv, MaskInv
  <2>2. CASE ParseToken(c)
    <3>1. Token(bit_mask[c], Head(rest[c])) \cup Meaning(Tail(rest[c]))
            = bit_mask[c] \cup Meaning(rest[c])
      BY <2>2, MeaningParse DEF ParseToken, TypeOK
    <3> QED
      BY <2>2, <3>1 DEF ParseToken, TypeOK, ParseInv, MaskInv
  <2>3. CASE SetMask(c)
    <3>1. Meaning(asked[c]) = bit_mask[c]
      BY <2>3, MeaningEmpty DEF SetMask, ParseInv
    <3> QED
      BY <2>3, <3>1 DEF SetMask, TypeOK, ParseInv, MaskInv
  <2>4. CASE PrintMask(c) \/ PrintBit(c) \/ PrintDone(c)
    BY <2>4 DEF PrintMask, PrintBit, PrintDone, history, TypeOK, ParseInv, MaskInv
  <2> QED
    BY <2>1, <2>2, <2>3, <2>4 DEF Console
<1>5. PrintInv'
  <2>1. ASSUME NEW list \in Lists, UpdateMask(c, list)
        PROVE  PrintInv'
    BY <2>1 DEF UpdateMask, TypeOK, PrintInv
  <2>2. CASE ParseToken(c) \/ SetMask(c) \/ PrintDone(c)
    <3>1. /\ UNCHANGED m
          /\ \A d \in Consoles : cmd'[d] = "print" =>
               /\ d # c \/ ParseToken(c)
               /\ cmd[d] = "print" /\ j'[d] = j[d]
               /\ printed'[d] = printed[d] /\ shown'[d] = shown[d]
      <4>1. /\ cmd \in [Consoles -> {"idle", "parse", "print"}]
            /\ j \in [Consoles -> 0..Width] /\ printed \in [Consoles -> Seq(Tokens)]
            /\ shown \in [Consoles -> SUBSET Bits]
        BY DEF TypeOK
      <4> QED
        BY <2>2, <4>1 DEF ParseToken, SetMask, PrintDone
    <3> QED
      BY <3>1 DEF PrintInv
  <2>3. CASE PrintMask(c)
    <3>1. \A i \in domain_bit_flags : i >= 0
      BY DEF TypeOK, Bits
    <3> QED
      BY <2>3, <3>1, MeaningEmpty DEF PrintMask, TypeOK, PrintInv
  <2>4. CASE PrintBit(c)
    <3> SUFFICES ASSUME NEW d \in Consoles, cmd'[d] = "print"
                 PROVE  /\ \A i \in m'[d] : i >= j'[d]
                        /\ shown'[d] \subseteq Domains =>
                             /\ m'[d] \subseteq Domains
                             /\ Meaning(printed'[d]) \cup m'[d] = shown'[d]
      BY DEF PrintInv
    <3>1. CASE d # c
      BY <2>4, <3>1 DEF PrintBit, TypeOK, PrintInv, history
    <3>2. CASE d = c
      <4>1. /\ m'[c] = m[c] \ {j[c]} /\ j'[c] = j[c] + 1 /\ shown'[c] = shown[c]
            /\ printed'[c] = IF j[c] \in m[c] THEN Append(printed[c], Name(j[c]))
                             ELSE printed[c]
        BY <2>4 DEF PrintBit, TypeOK, history
      <4>2. /\ \A i \in m[c] : i >= j[c] /\ i \in Int
            /\ j[c] \in Int /\ cmd[c] = "print"
        BY <2>4 DEF PrintBit, TypeOK, PrintInv, Bits
      <4>3. \A i \in m'[c] : i >= j'[c]
        BY <4>1, <4>2
      <4>4. ASSUME shown[c] \subseteq Domains
            PROVE  m'[c] \subseteq Domains /\ Meaning(printed'[c]) \cup m'[c] = shown[c]
        <5>1. m[c] \subseteq Domains /\ Meaning(printed[c]) \cup m[c] = shown[c]
          BY <4>2, <4>4 DEF PrintInv
        <5>2. CASE j[c] \in m[c]
          <6>1. Name(j[c]) = domains_names[j[c]] /\ j[c] \in Domains
            BY <5>1, <5>2 DEF Name
          <6>2. Meaning(printed'[c]) = Meaning(printed[c]) \cup {j[c]}
            <7>1. printed[c] \in Seq(Tokens)
              BY DEF TypeOK
            <7>2. printed'[c] = Append(printed[c], domains_names[j[c]])
              BY <4>1, <5>2, <6>1
            <7>3. Meaning(Append(printed[c], domains_names[j[c]]))
                    = Meaning(printed[c]) \cup {j[c]}
              BY <6>1, <7>1, MeaningPrint
            <7> QED
              BY <7>2, <7>3
          <6> QED
            BY <4>1, <5>1, <5>2, <6>2
        <5>3. CASE j[c] \notin m[c]
          BY <4>1, <5>1, <5>3
        <5> QED
          BY <5>2, <5>3
      <4> QED
        BY <3>2, <4>1, <4>3, <4>4
    <3> QED
      BY <3>1, <3>2
  <2> QED
    BY <2>1, <2>2, <2>3, <2>4 DEF Console
<1> QED
  BY <1>1, <1>3, <1>4, <1>5

-----------------------------------------------------------------------------
(* The listener's thread. *)
LEMMA SourceType ==
  ASSUME TypeOK, NEW f \in Fields
  PROVE  data[f] \in Seq(Chars)
<1>1. data \in [dom : Domains, head : Seq(Chars), s1 : Seq(Chars), s2 : Seq(Chars),
               foot : Seq(Chars)]
  BY RecordsAssumption DEF TypeOK
<1>2. data.s1 \in Seq(Chars) /\ data.s2 \in Seq(Chars)
  BY <1>1
<1> QED
  BY <1>2 DEF Fields

LEMMA CharType ==
  ASSUME TypeOK, Reading
  PROVE  ch \in Chars
BY SourceType DEF TypeOK, Reading, ch, src

(* A well-formed tag for a buffer of len characters. *)
Formed(d, len) ==
  /\ Len(d) < len
  /\ \A i \in 1..Len(d) :
       /\ d[i] # "\n"
       /\ d[i] \in Separators => i > 1 /\ d[i - 1] = "\\"
       /\ d[i] = "\\" => i < Len(d) /\ d[i + 1] \in Separators

Size(f) == IF f = "s1" THEN PATH_MAX ELSE STR_LEN

LEMMA TagSafeFormed == TagSafe <=> \A f \in Fields : Formed(dest[f], Size(f))
BY DEF TagSafe, Formed, Size

LEMMA FormedEmpty ==
  ASSUME NEW f \in Fields
  PROVE  Formed(<<>>, Size(f)) /\ <<>> \in Seq(Chars)
BY SizesAssumption DEF Formed, Size

(* A character is added, behind a backslash if it is a separator. *)
LEMMA FormedPut ==
  ASSUME NEW d \in Seq(Chars), NEW len \in Nat, Formed(d, len),
         NEW x \in Chars, x \notin {"\\", "\n"},
         NEW e, e = (IF x \in Separators THEN Append(d, "\\") ELSE d),
         Len(e) < len - 1
  PROVE  Append(e, x) \in Seq(Chars) /\ Formed(Append(e, x), len)
<1>1. "\\" \in Chars /\ "\\" \notin Separators
  BY DEF Chars, Separators
<1>2. CASE x \in Separators
  <2>1. PICK n \in Nat : n = Len(d)
    OBVIOUS
  <2>2. PICK z : z = Append(e, x)
    OBVIOUS
  <2>3. /\ z \in Seq(Chars) /\ Len(z) = n + 2 /\ Len(z) < len
        /\ z[n + 2] = x /\ z[n + 1] = "\\"
        /\ \A i \in 1..n : z[i] = d[i]
    BY <1>1, <1>2, <2>1, <2>2
  <2>4. \A i \in 1..n : /\ d[i] # "\n"
                        /\ d[i] \in Separators => i > 1 /\ d[i - 1] = "\\"
                        /\ d[i] = "\\" => i < n /\ d[i + 1] \in Separators
    BY <2>1 DEF Formed
  <2>5. ASSUME NEW i \in 1..(n + 2)
        PROVE  /\ z[i] # "\n"
               /\ z[i] \in Separators => i > 1 /\ z[i - 1] = "\\"
               /\ z[i] = "\\" => i < n + 2 /\ z[i + 1] \in Separators
    <3>1. CASE i \in 1..n
      <4>1. z[i] # "\n"
        BY <2>3, <2>4, <3>1
      <4>2. z[i] \in Separators => i > 1 /\ z[i - 1] = "\\"
        <5>1. i > 1 => i - 1 \in 1..n
          BY <3>1
        <5> QED
          BY <2>3, <2>4, <3>1, <5>1
      <4>3. z[i] = "\\" => i < n + 2 /\ z[i + 1] \in Separators
        <5>1. i < n => i + 1 \in 1..n
          BY <3>1
        <5> QED
          BY <2>3, <2>4, <3>1, <5>1
      <4> QED
        BY <4>1, <4>2, <4>3
    <3>2. CASE i = n + 1
      <4>1. z[i] = "\\" /\ z[i + 1] = x
        BY <2>3, <3>2
      <4> QED
        BY <1>1, <1>2, <3>2, <4>1
    <3>3. CASE i = n + 2
      <4>1. z[i] = x /\ z[i - 1] = "\\" /\ i > 1
        BY <2>3, <3>3
      <4> QED
        BY <4>1
    <3> QED
      BY <3>1, <3>2, <3>3
  <2> QED
    BY <2>2, <2>3, <2>5 DEF Formed
<1>3. CASE x \notin Separators
  <2>1. PICK n \in Nat : n = Len(d)
    OBVIOUS
  <2>2. PICK z : z = Append(e, x)
    OBVIOUS
  <2>3. /\ z \in Seq(Chars) /\ Len(z) = n + 1 /\ Len(z) < len
        /\ z[n + 1] = x
        /\ \A i \in 1..n : z[i] = d[i]
    BY <1>3, <2>1, <2>2
  <2>4. \A i \in 1..n : /\ d[i] # "\n"
                        /\ d[i] \in Separators => i > 1 /\ d[i - 1] = "\\"
                        /\ d[i] = "\\" => i < n /\ d[i + 1] \in Separators
    BY <2>1 DEF Formed
  <2>5. ASSUME NEW i \in 1..(n + 1)
        PROVE  /\ z[i] # "\n"
               /\ z[i] \in Separators => i > 1 /\ z[i - 1] = "\\"
               /\ z[i] = "\\" => i < n + 1 /\ z[i + 1] \in Separators
    <3>1. CASE i \in 1..n
      <4>1. z[i] # "\n"
        BY <2>3, <2>4, <3>1
      <4>2. z[i] \in Separators => i > 1 /\ z[i - 1] = "\\"
        <5>1. i > 1 => i - 1 \in 1..n
          BY <3>1
        <5> QED
          BY <2>3, <2>4, <3>1, <5>1
      <4>3. z[i] = "\\" => i < n + 1 /\ z[i + 1] \in Separators
        <5>1. i < n => i + 1 \in 1..n
          BY <3>1
        <5> QED
          BY <2>3, <2>4, <3>1, <5>1
      <4> QED
        BY <4>1, <4>2, <4>3
    <3>2. CASE i = n + 1
      BY <1>3, <2>3, <3>2
    <3> QED
      BY <3>1, <3>2
  <2> QED
    BY <2>2, <2>3, <2>5 DEF Formed
<1> QED
  BY <1>2, <1>3

(* The next field is started with the buffers ds. *)
LEMMA StartTypes ==
  ASSUME TypeOK, NEW f \in Fields \cup {"post"}, NEW ds \in [Fields -> Seq(Chars)],
         \A g \in Fields : Formed(ds[g], Size(g)), Start(f, ds)
  PROVE  /\ at' = f /\ src_index' = 1 /\ last_ch' \in Chars
         /\ dest' \in [Fields -> Seq(Chars)]
         /\ \A g \in Fields : Formed(dest'[g], Size(g))
<1>1. "\n" \in Chars
  BY DEF Chars
<1>2. at' = f /\ src_index' = 1 /\ last_ch' \in Chars
  BY <1>1 DEF Start
<1>3. dest' = ds \/ (f \in Fields /\ dest' = [ds EXCEPT ![f] = <<>>])
  BY DEF Start
<1> QED
  BY <1>2, <1>3, FormedEmpty

(* What copy_escaped_tag_value() leaves in dest is well formed. *)
LEMMA PutTypes ==
  ASSUME TypeOK, TagSafe, Put
  PROVE  /\ dest' \in [Fields -> Seq(Chars)] /\ last_ch' \in Chars
         /\ \A g \in Fields : Formed(dest'[g], Size(g))
<1>1. at \in Fields /\ ch \in Chars /\ ch \notin {"\\", "\n"}
  BY CharType DEF Put, Copies, Reading
<1>2. dest[at] \in Seq(Chars) /\ Formed(dest[at], Size(at)) /\ Size(at) \in Nat
  BY <1>1, TagSafeFormed, SizesAssumption DEF TypeOK, Size
<1>3. Len(Escaped) < Size(at) - 1
  BY DEF Put, RoomFor, dest_len, Size
<1>4. Append(Escaped, ch) \in Seq(Chars) /\ Formed(Append(Escaped, ch), Size(at))
  BY <1>1, <1>2, <1>3, FormedPut DEF Escaped
<1>5. dest' = [dest EXCEPT ![at] = Append(Escaped, ch)] /\ last_ch' = ch
  BY DEF Put
<1> QED
  BY <1>1, <1>4, <1>5, TagSafeFormed DEF TypeOK

(* When it returns early it has not written half of a pair. *)
LEMMA ReturnStarts ==
  ASSUME TypeOK, Return
  PROVE  at \in Fields /\ Start(After(at), dest)
<1>1. at \in Fields
  BY DEF Return
<1>2. ASSUME Copies, ch \in Separators => RoomForEscape(dest[at]), ~RoomFor(Escaped),
             Start(After(at), [dest EXCEPT ![at] = Escaped])
      PROVE  Start(After(at), dest)
  <2>1. dest[at] \in Seq(Chars) /\ dest_len \in Nat
    BY <1>1, SizesAssumption DEF TypeOK, dest_len
  <2>2. ch \notin Separators
    <3> SUFFICES ASSUME ch \in Separators
                 PROVE  FALSE
      OBVIOUS
    <3>1. Len(Escaped) = Len(dest[at]) + 1
      BY <2>1 DEF Escaped
    <3>2. Len(dest[at]) < dest_len - 2 /\ Len(dest[at]) \in Nat
      BY <1>2, <2>1 DEF RoomForEscape
    <3> QED
      BY <1>2, <2>1, <3>1, <3>2 DEF RoomFor
  <2>3. [dest EXCEPT ![at] = Escaped] = dest
    BY <1>1, <2>2 DEF TypeOK, Escaped
  <2> QED
    BY <1>2, <2>3
<1> QED
  BY <1>1, <1>2 DEF Return

(* The line is made of characters, and the value of a field stands in it   *)
(* behind what comes before.                                               *)
LEMMA ConcatAt ==
  ASSUME NEW a \in Seq(Chars), NEW b \in Seq(Chars)
  PROVE  /\ a \o b \in Seq(Chars) /\ Len(a \o b) = Len(a) + Len(b)
         /\ \A i \in 1..Len(a) : (a \o b)[i] = a[i]
         /\ \A i \in 1..Len(b) : (a \o b)[Len(a) + i] = b[i]
OBVIOUS

LEMMA LineHolds ==
  ASSUME TypeOK
  PROVE  /\ Line \in Seq(Chars)
         /\ \A f \in Fields :
              /\ Value(f) \in Seq(Chars) /\ Before(f) \in Nat
              /\ Before(f) + Len(Value(f)) <= Len(Line)
              /\ \A i \in 1..Len(Value(f)) : Line[Before(f) + i] = Value(f)[i]
<1>0. PICK q \in Seq(Chars) : q = Middle
  BY TextAssumption
<1>1. data \in [dom : Domains, head : Seq(Chars), s1 : Seq(Chars), s2 : Seq(Chars),
               foot : Seq(Chars)]
  BY RecordsAssumption DEF TypeOK
<1>2. PICK h \in Seq(Chars), t \in Seq(Chars) : h = data.head /\ t = data.foot
  BY <1>1
<1>3. \A f \in Fields : Value(f) \in Seq(Chars)
  BY TextAssumption DEF TypeOK, Value
<1>4. PICK v \in Seq(Chars), w \in Seq(Chars) : v = Value("s1") /\ w = Value("s2")
  BY <1>3 DEF Fields
<1>5. PICK a \in Seq(Chars) : a = h \o v
  BY ConcatAt
<1>6. Len(a) = Len(h) + Len(v) /\ \A i \in 1..Len(v) : a[Len(h) + i] = v[i]
  BY <1>5, ConcatAt
<1>7. PICK b \in Seq(Chars) : b = a \o q
  BY ConcatAt
<1>8. Len(b) = Len(a) + Len(q) /\ \A i \in 1..Len(a) : b[i] = a[i]
  BY <1>7, ConcatAt
<1>9. PICK c \in Seq(Chars) : c = b \o w
  BY ConcatAt
<1>10. /\ Len(c) = Len(b) + Len(w)
       /\ \A i \in 1..Len(b) : c[i] = b[i]
       /\ \A i \in 1..Len(w) : c[Len(b) + i] = w[i]
  BY <1>9, ConcatAt
<1>11. Line = c \o t
  BY <1>0, <1>2, <1>4, <1>5, <1>7, <1>9 DEF Line
<1>12. /\ Line \in Seq(Chars) /\ Len(Line) = Len(c) + Len(t)
       /\ \A i \in 1..Len(c) : Line[i] = c[i]
  BY <1>11, ConcatAt
<1>13. /\ Len(h) \in Nat /\ Len(v) \in Nat /\ Len(w) \in Nat /\ Len(t) \in Nat
       /\ Len(a) \in Nat /\ Len(q) \in Nat /\ Len(b) \in Nat /\ Len(c) \in Nat
  OBVIOUS
<1>14. Before("s1") = Len(h) /\ Before("s2") = Len(b)
  <2>1. Before("s1") = Len(h) + 0 /\ Before("s2") = Len(h) + (Len(v) + Len(q))
    BY <1>0, <1>2, <1>4 DEF Before
  <2> QED
    BY <1>6, <1>8, <1>13, <2>1
<1>15. ASSUME NEW i \in 1..Len(v)
       PROVE  Line[Len(h) + i] = v[i]
  <2>1. Len(h) + i \in 1..Len(a) /\ Len(h) + i \in 1..Len(b) /\ Len(h) + i \in 1..Len(c)
    BY <1>6, <1>8, <1>10, <1>13
  <2> QED
    BY <1>6, <1>8, <1>10, <1>12, <2>1
<1>16. ASSUME NEW i \in 1..Len(w)
       PROVE  Line[Len(b) + i] = w[i]
  <2>1. Len(b) + i \in 1..Len(c)
    BY <1>10, <1>13
  <2> QED
    BY <1>10, <1>12, <2>1
<1>17. Len(h) + Len(v) <= Len(Line) /\ Len(b) + Len(w) <= Len(Line)
  BY <1>6, <1>8, <1>10, <1>12, <1>13
<1>18. ASSUME NEW f \in Fields
       PROVE  /\ Value(f) \in Seq(Chars) /\ Before(f) \in Nat
              /\ Before(f) + Len(Value(f)) <= Len(Line)
              /\ \A i \in 1..Len(Value(f)) : Line[Before(f) + i] = Value(f)[i]
  <2>1. CASE f = "s1"
    BY <1>4, <1>13, <1>14, <1>15, <1>17, <2>1
  <2>2. CASE f = "s2"
    BY <1>4, <1>13, <1>14, <1>16, <1>17, <2>2
  <2> QED
    BY <2>1, <2>2 DEF Fields
<1> QED
  BY <1>12, <1>18

(* What snprintf() leaves in postdata: the line, or as much as there is    *)
(* room for.                                                               *)
Sent == SubSeq(Line, 1, IF Len(Line) < POST_LEN THEN Len(Line) ELSE POST_LEN - 1)

LEMMA SentHolds ==
  ASSUME TypeOK
  PROVE  /\ Sent \in Seq(Chars) /\ Len(Sent) < POST_LEN
         /\ \A f \in Fields : \A i \in 1..Len(Value(f)) :
              Before(f) + i < POST_LEN =>
                Before(f) + i <= Len(Sent) /\ Sent[Before(f) + i] = Value(f)[i]
<1>1. PICK l \in Seq(Chars) : l = Line
  BY LineHolds
<1>2. PICK n : n = (IF Len(l) < POST_LEN THEN Len(l) ELSE POST_LEN - 1)
  OBVIOUS
<1>3. n \in Nat /\ n <= Len(l) /\ n < POST_LEN /\ Len(l) \in Nat /\ POST_LEN \in Nat
  BY <1>2, SizesAssumption
<1>4. Sent = SubSeq(l, 1, n)
  BY <1>1, <1>2 DEF Sent
<1>5. Sent \in Seq(Chars) /\ Len(Sent) = n /\ \A i \in 1..n : Sent[i] = l[i]
  BY <1>3, <1>4
<1>6. ASSUME NEW f \in Fields, NEW i \in 1..Len(Value(f)), Before(f) + i < POST_LEN
      PROVE  Before(f) + i <= Len(Sent) /\ Sent[Before(f) + i] = Value(f)[i]
  <2>1. /\ Len(Value(f)) \in Nat /\ Before(f) \in Nat
        /\ Before(f) + Len(Value(f)) <= Len(l) /\ l[Before(f) + i] = Value(f)[i]
    BY <1>1, LineHolds
  <2>2. Before(f) + i \in 1..n
    BY <1>2, <1>3, <1>6, <2>1
  <2> QED
    BY <1>5, <2>1, <2>2
<1> QED
  BY <1>3, <1>5, <1>6

LEMMA ListenerStep ==
  ASSUME Inv, Listener
  PROVE  Inv'
<1> USE DEF Inv
<1>0. UNCHANGED <<domain_bit_flags, console, asked, applied, shown>>
  BY DEF Listener, Receive, Drop, Accept, NoHandle, Handle, Skip, Put, Return, Format, Post,
     history
<1>1. ParseInv' /\ MaskInv' /\ PrintInv'
  BY <1>0 DEF ParseInv, MaskInv, PrintInv, console
<1> DEFINE Rest ==
      /\ at' \in {"idle", "filter", "influx", "post", "send"} \cup Fields
      /\ data' \in Records
      /\ dest' \in [Fields -> Seq(Chars)]
      /\ src_index' \in Nat \ {0}
      /\ last_ch' \in Chars
      /\ postdata' \in Seq(Chars)
      /\ rc' \in {"none", "ACCEPT", "DROP", "REFUSE"}
      /\ judged' \in Seq(Tokens)
      Tags == \A f \in Fields : Formed(dest'[f], Size(f))
<1>2. Rest => TypeOK'
  BY <1>0 DEF TypeOK, console
<1>3. Tags => TagSafe'
  BY DEF TagSafe, Formed, Size
<1>4. \A f \in Fields : Formed(dest[f], Size(f))
  BY TagSafeFormed
<1>5. Empty \in [Fields -> Seq(Chars)] /\ \A f \in Fields : Formed(Empty[f], Size(f))
  BY FormedEmpty DEF Empty
<1>6. CASE \/ \E r \in Records : Receive(r)
           \/ NoHandle \/ Drop \/ Accept
  <2>1. UNCHANGED copying
    BY <1>6 DEF Receive, NoHandle, Drop, Accept
  <2>2. Rest
    BY <1>6, <2>1 DEF Receive, NoHandle, Drop, Accept, copying, TypeOK, history
  <2>3. FilterRight'
    BY <1>6 DEF Receive, NoHandle, Drop, Accept, FilterRight, MaskInv, Fields, history
  <2> QED
    BY <1>1, <1>2, <1>3, <1>4, <2>1, <2>2, <2>3 DEF copying
<1>7. CASE Handle
  <2>1. /\ at' = "s1" /\ src_index' = 1 /\ last_ch' \in Chars
        /\ dest' \in [Fields -> Seq(Chars)] /\ Tags
    BY <1>5, <1>7, StartTypes DEF Handle, Fields
  <2>2. Rest
    BY <1>7, <2>1 DEF Handle, TypeOK, Fields, history
  <2>3. FilterRight'
    BY <1>7, <2>1 DEF Handle, FilterRight, history
  <2> QED
    BY <1>1, <1>2, <1>3, <2>1, <2>2, <2>3
<1>8. CASE Skip
  <2>1. ch \in Chars /\ at \in Fields
    BY <1>8, CharType DEF Skip, Reading
  <2>2. Rest /\ Tags
    BY <1>4, <1>8, <2>1 DEF Skip, TypeOK, history
  <2>3. FilterRight'
    BY <1>8 DEF Skip, FilterRight, history
  <2> QED
    BY <1>1, <1>2, <1>3, <2>2, <2>3
<1>9. CASE Put
  <2>1. Rest /\ Tags
    BY <1>9, PutTypes DEF Put, TypeOK, history
  <2>2. FilterRight'
    BY <1>9 DEF Put, FilterRight, history
  <2> QED
    BY <1>1, <1>2, <1>3, <2>1, <2>2
<1>10. CASE Return
  <2>1. at \in Fields /\ Start(After(at), dest)
    BY <1>10, ReturnStarts
  <2>2. After(at) \in Fields \cup {"post"}
    BY DEF After, Fields
  <2>3. /\ at' = After(at) /\ src_index' = 1 /\ last_ch' \in Chars
        /\ dest' \in [Fields -> Seq(Chars)] /\ Tags
    BY <1>4, <2>1, <2>2, StartTypes DEF TypeOK
  <2>4. Rest
    BY <1>10, <2>2, <2>3 DEF Return, TypeOK, history
  <2>5. FilterRight'
    BY <1>10, <2>1, <2>2, <2>3 DEF Return, FilterRight, Fields, history
  <2> QED
    BY <1>1, <1>2, <1>3, <2>3, <2>4, <2>5
<1>11. CASE Post
  <2>1. dest' = Empty /\ "\n" \in Chars
    BY <1>11 DEF Post, Chars
  <2>2. Rest /\ Tags
    BY <1>5, <1>11, <2>1 DEF Post, TypeOK, history
  <2>3. FilterRight'
    BY <1>11 DEF Post, FilterRight, Fields
  <2> QED
    BY <1>1, <1>2, <1>3, <2>2, <2>3
<1>12. CASE Format
  <2>1. Rest /\ Tags
    BY <1>4, <1>12, SentHolds DEF Format, Sent, TypeOK, history
  <2>2. FilterRight'
    BY <1>12 DEF Format, FilterRight, history
  <2> QED
    BY <1>1, <1>2, <1>3, <2>1, <2>2
<1> QED
  BY <1>6, <1>7, <1>8, <1>9, <1>10, <1>11, <1>12 DEF Listener

-----------------------------------------------------------------------------
LEMMA InvInit == Init => Inv
<1> SUFFICES ASSUME Init
             PROVE  Inv
  OBVIOUS
<1> USE DEF Init
<1>1. PICK list \in Lists : domain_bit_flags = Meaning(list) /\ applied = list
  OBVIOUS
<1>2. domain_bit_flags \subseteq Bits /\ applied \in Seq(Tokens)
  BY <1>1, MeaningType, ListType
<1>3. data \in Records
  BY RecordsAssumption
<1>4. "\n" \in Chars
  BY DEF Chars
<1>5. TypeOK
  BY <1>2, <1>3, <1>4, WidthAssumption DEF TypeOK, Empty
<1>6. ParseInv /\ MaskInv /\ FilterRight /\ PrintInv
  BY <1>1 DEF ParseInv, MaskInv, FilterRight, PrintInv, Fields
<1>7. TagSafe
  BY TagSafeFormed, FormedEmpty DEF Empty
<1> QED
  BY <1>5, <1>6, <1>7 DEF Inv

LEMMA InvStep == Inv /\ [Next]_vars => Inv'
<1> SUFFICES ASSUME Inv, [Next]_vars
             PROVE  Inv'
  OBVIOUS
<1>1. CASE UNCHANGED vars
  <2> USE DEF vars, console, copying, history
  <2>1. TypeOK'
    BY <1>1 DEF Inv, TypeOK
  <2>2. ParseInv' /\ MaskInv' /\ PrintInv'
    BY <1>1 DEF Inv, ParseInv, MaskInv, PrintInv
  <2>3. FilterRight' /\ TagSafe'
    BY <1>1 DEF Inv, FilterRight, TagSafe
  <2> QED
    BY <2>1, <2>2, <2>3 DEF Inv
<1>2. CASE Next
  BY <1>2, ListenerStep, ConsoleStep DEF Next
<1> QED
  BY <1>1, <1>2

(* The inductive invariant holds in every run of the two plugins. *)
THEOREM Invariance == Spec => []Inv
BY InvInit, InvStep, PTL DEF Spec

(* The variables keep their types; print-mask stops. *)
THEOREM TypeCorrect == Spec => []TypeOK
<1>1. Inv => TypeOK
  BY DEF Inv
<1> QED
  BY <1>1, Invariance, PTL

(* process_data() of filter_domains judges by one whole list, whatever     *)
(* consoles run update-mask, for any lists and records.                    *)
THEOREM FilterIsRight == Spec => []FilterRight
<1>1. Inv => FilterRight
  BY DEF Inv
<1> QED
  BY <1>1, Invariance, PTL

(* print-mask prints a list that update-mask reads back as the same mask.  *)
THEOREM PrintReadsBack == Spec => []PrintsBack
<1>1. Inv => PrintsBack
  BY DEF Inv, PrintInv, PrintsBack
<1> QED
  BY <1>1, Invariance, PTL

(* copy_escaped_tag_value() keeps to its buffer and escapes every          *)
(* separator, for strings and buffers of any length.                       *)
THEOREM TagsAreSafe == Spec => []TagSafe
<1>1. Inv => TagSafe
  BY DEF Inv
<1> QED
  BY <1>1, Invariance, PTL

-----------------------------------------------------------------------------
(* What copy_escaped_tag_value() has copied. *)

(* Before the n-th character of s: d holds those that are kept. *)
Loop(d, s, n, drop) ==
  /\ Len(d) = Room(s, Upto(s, drop, n - 1))
  /\ \A k \in Upto(s, drop, n - 1) : d[Room(s, Upto(s, drop, k))] = s[k]
  /\ \A k \in 1..(n - 1) : s[k] # "\n"

CopyInv ==
  /\ at \in Fields /\ Have(src) =>
       /\ src_index <= Len(src) + 1
       /\ src_index > 1 => last_ch = src[src_index - 1]
       /\ \E drop \in BOOLEAN : Loop(dest[at], src, src_index, drop)
  /\ at \in Fields /\ ~Have(src) => dest[at] = <<>>
  /\ at = "s1" => dest["s2"] = <<>>
  /\ at \in {"s2", "post", "send"} =>
       \E drop \in BOOLEAN : Renders(dest["s1"], data.s1, PATH_MAX, drop)
  /\ at \in {"post", "send"} =>
       \E drop \in BOOLEAN : Renders(dest["s2"], data.s2, STR_LEN, drop)
  /\ at = "send" => postdata = Sent

LEMMA RoomMono ==
  ASSUME NEW s, NEW J, IsFiniteSet(J), NEW I \in SUBSET J
  PROVE  Room(s, I) \in Nat /\ Room(s, J) \in Nat /\ Room(s, I) <= Room(s, J)
<1> DEFINE Sep(K) == {i \in K : s[i] \in Separators}
<1>1. /\ IsFiniteSet(I) /\ Cardinality(I) <= Cardinality(J)
      /\ Cardinality(I) \in Nat /\ Cardinality(J) \in Nat
  BY FS_Subset, FS_CardinalityType
<1>2. IsFiniteSet(Sep(J)) /\ Cardinality(Sep(J)) \in Nat
  BY FS_Subset, FS_CardinalityType
<1>3. Sep(I) \in SUBSET Sep(J)
  OBVIOUS
<1> HIDE DEF Sep
<1>4. Cardinality(Sep(I)) <= Cardinality(Sep(J)) /\ Cardinality(Sep(I)) \in Nat
  BY <1>2, <1>3, FS_Subset, FS_CardinalityType
<1>5. /\ Room(s, I) = Cardinality(I) + Cardinality(Sep(I))
      /\ Room(s, J) = Cardinality(J) + Cardinality(Sep(J))
  BY DEF Room, Sep
<1> QED
  BY <1>1, <1>2, <1>4, <1>5

LEMMA RoomAdd ==
  ASSUME NEW s, NEW I, IsFiniteSet(I), NEW i, i \notin I
  PROVE  Room(s, I \cup {i}) = Room(s, I) + (IF s[i] \in Separators THEN 2 ELSE 1)
<1> DEFINE Sep(K) == {k \in K : s[k] \in Separators}
<1>1. Cardinality(I \cup {i}) = Cardinality(I) + 1 /\ Cardinality(I) \in Nat
  BY FS_AddElement, FS_CardinalityType
<1>2. IsFiniteSet(Sep(I)) /\ Cardinality(Sep(I)) \in Nat
  BY FS_Subset, FS_CardinalityType
<1>3. /\ Room(s, I) = Cardinality(I) + Cardinality(Sep(I))
      /\ Room(s, I \cup {i}) = Cardinality(I \cup {i}) + Cardinality(Sep(I \cup {i}))
  BY DEF Room
<1>4. CASE s[i] \in Separators
  <2>1. Sep(I \cup {i}) = Sep(I) \cup {i} /\ i \notin Sep(I)
    BY <1>4
  <2> HIDE DEF Sep
  <2>2. Cardinality(Sep(I \cup {i})) = Cardinality(Sep(I)) + 1
    BY <1>2, <2>1, FS_AddElement
  <2> QED
    BY <1>1, <1>2, <1>3, <1>4, <2>2
<1>5. CASE s[i] \notin Separators
  <2>1. Sep(I \cup {i}) = Sep(I)
    BY <1>5
  <2> HIDE DEF Sep
  <2> QED
    BY <1>1, <1>2, <1>3, <1>5, <2>1
<1> QED
  BY <1>4, <1>5

LEMMA UptoFinite ==
  ASSUME NEW s \in Seq(Chars), NEW drop, NEW i
  PROVE  IsFiniteSet(Upto(s, drop, i)) /\ IsFiniteSet(Kept(s, drop))
<1>1. Kept(s, drop) \in SUBSET (1..Len(s)) /\ Upto(s, drop, i) \in SUBSET (1..Len(s))
  BY DEF Kept, Upto
<1>2. IsFiniteSet(1..Len(s))
  BY FS_Interval
<1> QED
  BY <1>1, <1>2, FS_Subset

LEMMA UptoNext ==
  ASSUME NEW s \in Seq(Chars), NEW drop, NEW i \in 1..Len(s)
  PROVE  /\ i \in Kept(s, drop) =>
              /\ Upto(s, drop, i) = Upto(s, drop, i - 1) \cup {i}
              /\ Room(s, Upto(s, drop, i)) =
                   Room(s, Upto(s, drop, i - 1)) + (IF s[i] \in Separators THEN 2 ELSE 1)
         /\ i \notin Kept(s, drop) => Upto(s, drop, i) = Upto(s, drop, i - 1)
<1>1. \A k \in Kept(s, drop) : k \in Int
  BY DEF Kept
<1>2. i \in Kept(s, drop) => Upto(s, drop, i) = Upto(s, drop, i - 1) \cup {i}
  <2> SUFFICES ASSUME i \in Kept(s, drop)
               PROVE  \A k : k \in Upto(s, drop, i)
                              <=> k \in Upto(s, drop, i - 1) \/ k = i
    OBVIOUS
  <2>1. \A k \in Kept(s, drop) : k <= i <=> k <= i - 1 \/ k = i
    BY <1>1
  <2> QED
    BY <2>1 DEF Upto
<1>3. i \notin Kept(s, drop) => Upto(s, drop, i) = Upto(s, drop, i - 1)
  BY <1>1 DEF Upto
<1>4. i \notin Upto(s, drop, i - 1)
  BY DEF Upto
<1> QED
  BY <1>2, <1>3, <1>4, UptoFinite, RoomAdd

(* The place of a kept character is in the room of any that comes later. *)
LEMMA UptoMono ==
  ASSUME NEW s \in Seq(Chars), NEW drop, NEW k \in Int, NEW i \in Int, k <= i
  PROVE  /\ Room(s, Upto(s, drop, k)) \in Nat /\ Room(s, Upto(s, drop, i)) \in Nat
         /\ Room(s, Upto(s, drop, k)) <= Room(s, Upto(s, drop, i))
<1>1. \A q \in Kept(s, drop) : q \in Int
  BY DEF Kept
<1>2. Upto(s, drop, k) \in SUBSET Upto(s, drop, i)
  BY <1>1 DEF Upto
<1> QED
  BY <1>2, UptoFinite, RoomMono

LEMMA KeptRoom ==
  ASSUME NEW s \in Seq(Chars), NEW drop, NEW k \in Kept(s, drop)
  PROVE  k \in 1..Len(s) /\ Room(s, Upto(s, drop, k)) >= 1
<1>1. k \in 1..Len(s)
  BY DEF Kept
<1>2. Room(s, Upto(s, drop, k - 1)) \in Nat
  BY <1>1, UptoMono
<1> QED
  BY <1>1, <1>2, UptoNext

-----------------------------------------------------------------------------
(* The loop. *)
LEMMA LoopStart ==
  ASSUME NEW s \in Seq(Chars), NEW drop
  PROVE  Loop(<<>>, s, 1, drop)
<1>1. Upto(s, drop, 1 - 1) = {}
  BY DEF Upto, Kept
<1>2. Room(s, {}) = 0
  <2>1. {i \in {} : s[i] \in Separators} = {}
    OBVIOUS
  <2> QED
    BY <2>1, FS_EmptySet DEF Room
<1>3. \A k \in 1..(1 - 1) : s[k] # "\n"
  OBVIOUS
<1>4. Len(<<>>) = Room(s, Upto(s, drop, 1 - 1))
  BY <1>1, <1>2
<1> QED
  BY <1>1, <1>3, <1>4 DEF Loop

LEMMA LoopSkip ==
  ASSUME NEW s \in Seq(Chars), NEW drop, NEW n \in 1..Len(s), NEW d,
         Loop(d, s, n, drop), n \notin Kept(s, drop), s[n] # "\n"
  PROVE  Loop(d, s, n + 1, drop)
<1>1. Upto(s, drop, (n + 1) - 1) = Upto(s, drop, n - 1)
  BY UptoNext
<1>2. \A k \in 1..((n + 1) - 1) : s[k] # "\n"
  BY DEF Loop
<1> QED
  BY <1>1, <1>2 DEF Loop

LEMMA LoopPut ==
  ASSUME NEW s \in Seq(Chars), NEW drop, NEW n \in 1..Len(s), NEW d \in Seq(Chars),
         Loop(d, s, n, drop), n \in Kept(s, drop), s[n] # "\n",
         NEW e, e = (IF s[n] \in Separators THEN Append(d, "\\") ELSE d)
  PROVE  Loop(Append(e, s[n]), s, n + 1, drop)
<1>1. (n + 1) - 1 = n
  OBVIOUS
<1>2. /\ Upto(s, drop, n) = Upto(s, drop, n - 1) \cup {n}
      /\ Room(s, Upto(s, drop, n)) =
           Room(s, Upto(s, drop, n - 1)) + (IF s[n] \in Separators THEN 2 ELSE 1)
  BY UptoNext
<1>3. PICK z : z = Append(e, s[n])
  OBVIOUS
<1>4. PICK l \in Nat : l = Len(d)
  OBVIOUS
<1>5. l = Room(s, Upto(s, drop, n - 1))
  BY <1>4 DEF Loop
<1>6. "\\" \in Chars /\ s[n] \in Chars
  BY DEF Chars
<1>7. /\ Len(z) = l + (IF s[n] \in Separators THEN 2 ELSE 1)
      /\ z[Len(z)] = s[n]
      /\ \A i \in 1..l : z[i] = d[i]
  BY <1>3, <1>4, <1>6
<1>8. Len(z) = Room(s, Upto(s, drop, n))
  BY <1>2, <1>5, <1>7
<1>9. ASSUME NEW k \in Upto(s, drop, n - 1)
      PROVE  z[Room(s, Upto(s, drop, k))] = s[k]
  <2>1. k \in Kept(s, drop) /\ k <= n - 1
    BY DEF Upto
  <2>2. k \in 1..Len(s) /\ Room(s, Upto(s, drop, k)) >= 1
    BY <2>1, KeptRoom
  <2>3. Room(s, Upto(s, drop, k)) <= l /\ Room(s, Upto(s, drop, k)) \in Nat
    BY <1>5, <2>1, <2>2, UptoMono
  <2>4. d[Room(s, Upto(s, drop, k))] = s[k]
    BY <1>9 DEF Loop
  <2> QED
    BY <1>7, <2>2, <2>3, <2>4
<1>10. \A k \in Upto(s, drop, n) : z[Room(s, Upto(s, drop, k))] = s[k]
  BY <1>2, <1>7, <1>8, <1>9
<1>11. \A k \in 1..n : s[k] # "\n"
  BY DEF Loop
<1> QED
  BY <1>1, <1>3, <1>8, <1>10, <1>11 DEF Loop

(* When the loop ends, what is left does not belong in the tag or does not *)
(* fit.                                                                    *)
LEMMA LoopEnd ==
  ASSUME NEW s \in Seq(Chars), NEW drop, NEW n \in 1..(Len(s) + 1), NEW d,
         NEW len \in Nat, Loop(d, s, n, drop), Len(d) < len,
         \A k \in Kept(s, drop) : k >= n => Room(s, Upto(s, drop, k)) >= len
  PROVE  Renders(d, s, len, drop)
<1> DEFINE fits == {i \in Kept(s, drop) : Room(s, Upto(s, drop, i)) < len}
<1>1. \A k \in Kept(s, drop) : k \in Int /\ Room(s, Upto(s, drop, k)) \in Nat
  BY KeptRoom, UptoMono
<1>2. ASSUME NEW k \in Kept(s, drop), k <= n - 1
      PROVE  Room(s, Upto(s, drop, k)) < len
  <2>1. Room(s, Upto(s, drop, k)) <= Room(s, Upto(s, drop, n - 1))
        /\ Room(s, Upto(s, drop, n - 1)) \in Nat
    BY <1>1, <1>2, UptoMono
  <2> QED
    BY <1>1, <2>1 DEF Loop
<1>3. \A k \in Kept(s, drop) : k <= n - 1 <=> Room(s, Upto(s, drop, k)) < len
  BY <1>1, <1>2
<1>4. fits = Upto(s, drop, n - 1)
  BY <1>3 DEF Upto
<1> QED
  BY <1>4 DEF Loop, Renders

-----------------------------------------------------------------------------
LEMMA HaveAll ==
  ASSUME NEW s \in Seq(Chars)
  PROVE  Have(s) <=> s # <<>>
<1>1. CASE s = <<>>
  BY <1>1 DEF Have
<1>2. CASE s # <<>>
  <2>1. Len(s) > 0 /\ 1 \in 1..Len(s)
    BY <1>2
  <2>2. s[1] # " " \/ s[1] # "\n"
    OBVIOUS
  <2> QED
    BY <1>2, <2>1, <2>2 DEF Have, is_all_whitespace
<1> QED
  BY <1>1, <1>2

(* An empty string makes an empty tag. *)
LEMMA EmptyTag ==
  ASSUME NEW len \in Nat, len > 0
  PROVE  Renders(<<>>, <<>>, len, FALSE)
<1>1. Kept(<<>>, FALSE) = {}
  BY DEF Kept
<1>2. Room(<<>>, {}) = 0
  <2>1. {i \in {} : (<<>>)[i] \in Separators} = {}
    OBVIOUS
  <2> QED
    BY <2>1, FS_EmptySet DEF Room
<1> QED
  BY <1>1, <1>2 DEF Renders

(* The first character decides what the uninitialized last_ch has done. *)
LEMMA LoopChoice ==
  ASSUME Inv, CopyInv, Reading, NEW drop \in BOOLEAN, src_index = 1
  PROVE  Loop(dest[at], src, src_index, drop)
<1>1. at \in Fields /\ src \in Seq(Chars) /\ dest[at] \in Seq(Chars)
  BY SourceType DEF Inv, TypeOK, Reading, src
<1>2. PICK other \in BOOLEAN : Loop(dest[at], src, 1, other)
  BY DEF CopyInv, Reading
<1>3. Loop(<<>>, src, 1, other) /\ Loop(<<>>, src, 1, drop)
  BY <1>1, LoopStart
<1>4. Len(dest[at]) = 0
  <2>1. Len(dest[at]) = Len(<<>>)
    BY <1>2, <1>3 DEF Loop
  <2> QED
    BY <2>1
<1>5. dest[at] = <<>>
  BY <1>1, <1>4
<1> QED
  BY <1>3, <1>5

(* Thus the character that is read is kept just if it is copied. *)
LEMMA LoopReads ==
  ASSUME Inv, CopyInv, Reading
  PROVE  \E drop \in BOOLEAN :
           /\ Loop(dest[at], src, src_index, drop)
           /\ src_index \in 1..Len(src)
           /\ ch # "\n" => (src_index \in Kept(src, drop) <=> ~Repeated /\ ch # "\\")
<1>1. /\ at \in Fields /\ src \in Seq(Chars) /\ src_index \in 1..Len(src)
      /\ src_index \in Nat \ {0}
  BY SourceType DEF Inv, TypeOK, Reading, src
<1>2. CASE src_index = 1
  <2>1. PICK drop \in BOOLEAN : drop <=> Repeated
    <3>1. CASE Repeated
      BY <3>1
    <3>2. CASE ~Repeated
      BY <3>2
    <3> QED
      BY <3>1, <3>2
  <2>2. Loop(dest[at], src, src_index, drop)
    BY <1>2, LoopChoice
  <2>3. ch # "\n" => (1 \in Kept(src, drop) <=> ~Repeated /\ ch # "\\")
    <3>1. 1 \in Kept(src, drop) <=>
            /\ \A k \in 1..1 : src[k] # "\n"
            /\ src[1] # "\\"
            /\ ~(src[1] \in Separators /\ drop)
      BY <1>1, <1>2 DEF Kept
    <3>2. \A k \in 1..1 : k = 1
      OBVIOUS
    <3> QED
      BY <1>2, <2>1, <3>1, <3>2 DEF ch, Repeated
  <2> QED
    BY <1>1, <1>2, <2>2, <2>3
<1>3. CASE src_index # 1
  <2>1. PICK drop \in BOOLEAN : Loop(dest[at], src, src_index, drop)
    BY DEF CopyInv, Reading
  <2>2. last_ch = src[src_index - 1]
    BY <1>1, <1>3 DEF CopyInv, Reading
  <2>3. ch # "\n" => \A k \in 1..src_index : src[k] # "\n"
    BY <1>1, <2>1 DEF Loop, ch
  <2>4. src_index \in Kept(src, drop) <=>
          /\ \A k \in 1..src_index : src[k] # "\n"
          /\ src[src_index] # "\\"
          /\ ~(src[src_index] \in Separators /\ src[src_index - 1] = src[src_index])
    BY <1>1, <1>3 DEF Kept
  <2>5. ch # "\n" => (src_index \in Kept(src, drop) <=> ~Repeated /\ ch # "\\")
    BY <2>2, <2>3, <2>4 DEF ch, Repeated
  <2> QED
    BY <1>1, <2>1, <2>5
<1> QED
  BY <1>2, <1>3

(* A field is done: its buffer holds its tag. *)
LEMMA ReturnRenders ==
  ASSUME Inv, CopyInv, Return
  PROVE  \E drop \in BOOLEAN : Renders(dest[at], src, Size(at), drop)
<1>1. /\ at \in Fields /\ src \in Seq(Chars) /\ dest[at] \in Seq(Chars)
      /\ src_index \in Nat \ {0} /\ Size(at) \in Nat /\ Size(at) > 0
      /\ Len(dest[at]) < Size(at) /\ dest_len = Size(at)
  BY SourceType, TagSafeFormed, SizesAssumption
     DEF Inv, TypeOK, Return, src, Formed, Size, dest_len
<1>2. CASE ~Have(src)
  <2>1. src = <<>> /\ dest[at] = <<>>
    BY <1>1, <1>2, HaveAll DEF CopyInv
  <2> QED
    BY <1>1, <2>1, EmptyTag
<1>3. CASE Have(src) /\ src_index > Len(src)
  <2>1. src_index = Len(src) + 1
    BY <1>1, <1>3 DEF CopyInv
  <2>2. PICK drop \in BOOLEAN : Loop(dest[at], src, src_index, drop)
    BY <1>1, <1>3 DEF CopyInv
  <2>3. \A k \in Kept(src, drop) : ~(k >= src_index)
    BY <1>1, <2>1, KeptRoom
  <2>4. src_index \in 1..(Len(src) + 1)
    BY <1>1, <2>1
  <2> QED
    BY <1>1, <2>2, <2>3, <2>4, LoopEnd
<1>4. CASE Reading /\ ch = "\n"
  <2>1. PICK drop \in BOOLEAN : Loop(dest[at], src, src_index, drop)
    BY <1>1, <1>4 DEF CopyInv, Reading
  <2>2. \A k \in Kept(src, drop) : ~(k >= src_index)
    BY <1>1, <1>4 DEF Kept, ch
  <2>3. src_index \in 1..(Len(src) + 1)
    BY <1>1, <1>4 DEF Reading
  <2> QED
    BY <1>1, <2>1, <2>2, <2>3, LoopEnd
<1>5. CASE /\ Copies
           /\ \/ ch \in Separators /\ ~RoomForEscape(dest[at])
              \/ (ch \in Separators => RoomForEscape(dest[at])) /\ ~RoomFor(Escaped)
  <2>1. PICK drop \in BOOLEAN :
          /\ Loop(dest[at], src, src_index, drop)
          /\ src_index \in 1..Len(src)
          /\ ch # "\n" => (src_index \in Kept(src, drop) <=> ~Repeated /\ ch # "\\")
    BY <1>5, LoopReads DEF Copies
  <2>2. src_index \in Kept(src, drop)
    BY <1>5, <2>1 DEF Copies
  <2>3. Len(dest[at]) + (IF ch \in Separators THEN 2 ELSE 1) >= Size(at)
    <3>1. CASE ch \in Separators
      <4>1. Len(Escaped) = Len(dest[at]) + 1
        BY <1>1, <3>1 DEF Escaped
      <4> QED
        BY <1>1, <1>5, <3>1, <4>1 DEF RoomForEscape, RoomFor
    <3>2. CASE ch \notin Separators
      BY <1>1, <1>5, <3>2 DEF RoomFor, Escaped
    <3> QED
      BY <3>1, <3>2
  <2>4. Room(src, Upto(src, drop, src_index)) >= Size(at)
    BY <1>1, <2>1, <2>2, <2>3, UptoNext DEF Loop, ch
  <2>5. \A k \in Kept(src, drop) : k >= src_index =>
          Room(src, Upto(src, drop, k)) >= Size(at)
    <3> SUFFICES ASSUME NEW k \in Kept(src, drop), k >= src_index
                 PROVE  Room(src, Upto(src, drop, k)) >= Size(at)
      OBVIOUS
    <3>1. k \in Int
      BY DEF Kept
    <3>2. /\ Room(src, Upto(src, drop, src_index)) <= Room(src, Upto(src, drop, k))
          /\ Room(src, Upto(src, drop, src_index)) \in Nat
          /\ Room(src, Upto(src, drop, k)) \in Nat
      BY <1>1, <3>1, UptoMono
    <3> QED
      BY <1>1, <2>4, <3>2
  <2>6. src_index \in 1..(Len(src) + 1)
    BY <1>1, <2>1
  <2> QED
    BY <1>1, <2>1, <2>5, <2>6, LoopEnd
<1> QED
  BY <1>1, <1>2, <1>3, <1>4, <1>5 DEF Return

LEMMA CopyInit == Init => CopyInv
BY DEF Init, CopyInv, Fields

(* A field that is started has its loop to run, or an empty buffer. *)
LEMMA CopyStart ==
  ASSUME NEW f \in Fields, NEW ds \in [Fields -> Seq(Chars)], ds[f] = <<>>,
         data[f] \in Seq(Chars), data' = data, Start(f, ds)
  PROVE  /\ at' = f /\ src' = data[f] /\ src_index' = 1 /\ dest' = ds
         /\ \E drop \in BOOLEAN : Loop(dest'[f], data[f], 1, drop)
<1>1. at' = f /\ src_index' = 1
  BY DEF Start
<1>2. dest' = ds
  BY DEF Start
<1>3. src' = data[f]
  BY <1>1 DEF src
<1>4. Loop(<<>>, data[f], 1, FALSE)
  BY LoopStart
<1> QED
  BY <1>1, <1>2, <1>3, <1>4

LEMMA CopyStep == Inv /\ CopyInv /\ [Next]_vars => CopyInv'
<1> SUFFICES ASSUME Inv, CopyInv, [Next]_vars
             PROVE  CopyInv'
  OBVIOUS
<1> USE DEF Fields
<1>1. CASE UNCHANGED <<at, data, copying>>
  <2>1. Sent' = Sent /\ src' = src
    BY <1>1 DEF Sent, Line, Value, copying, src
  <2> QED
    BY <1>1, <2>1 DEF CopyInv, copying
<1>2. CASE at' \in {"idle", "filter", "influx"}
  BY <1>2 DEF CopyInv
<1>3. CASE Handle
  <2>1. /\ Start("s1", Empty) /\ data' = data
        /\ Empty \in [Fields -> Seq(Chars)] /\ Empty["s1"] = <<>> /\ Empty["s2"] = <<>>
        /\ data["s1"] \in Seq(Chars)
    BY <1>3, SourceType DEF Handle, Empty, Inv
  <2>2. /\ at' = "s1" /\ src' = data["s1"] /\ src_index' = 1 /\ dest' = Empty
        /\ \E drop \in BOOLEAN : Loop(dest'["s1"], data["s1"], 1, drop)
    BY <2>1, CopyStart
  <2>3. Len(data["s1"]) \in Nat
    BY <2>1
  <2> QED
    BY <2>1, <2>2, <2>3 DEF CopyInv
<1>4. CASE Skip
  <2>1. PICK drop \in BOOLEAN :
          /\ Loop(dest[at], src, src_index, drop)
          /\ src_index \in 1..Len(src)
          /\ ch # "\n" => (src_index \in Kept(src, drop) <=> ~Repeated /\ ch # "\\")
    BY <1>4, LoopReads DEF Skip
  <2>2. at \in Fields /\ src \in Seq(Chars) /\ ch # "\n" /\ Have(src)
    BY <1>4, SourceType DEF Skip, Reading, Inv, src, Repeated, Separators
  <2>3. /\ at' = at /\ src' = src /\ dest' = dest /\ data' = data
        /\ last_ch' = src[src_index] /\ src_index' = src_index + 1
    BY <1>4 DEF Skip, ch, src
  <2>4. src_index \notin Kept(src, drop) /\ src[src_index] # "\n"
    BY <1>4, <2>1, <2>2 DEF Skip, ch
  <2>5. Loop(dest[at], src, src_index + 1, drop)
    BY <2>1, <2>2, <2>4, LoopSkip
  <2>6. src_index + 1 <= Len(src) + 1 /\ (src_index + 1) - 1 = src_index
    BY <2>1, <2>2
  <2> QED
    BY <2>2, <2>3, <2>5, <2>6 DEF CopyInv
<1>5. CASE Put
  <2>1. PICK drop \in BOOLEAN :
          /\ Loop(dest[at], src, src_index, drop)
          /\ src_index \in 1..Len(src)
          /\ ch # "\n" => (src_index \in Kept(src, drop) <=> ~Repeated /\ ch # "\\")
    BY <1>5, LoopReads DEF Put, Copies
  <2>2. at \in Fields /\ src \in Seq(Chars) /\ ch # "\n" /\ Have(src)
    BY <1>5, SourceType DEF Put, Copies, Reading, Inv, src
  <2>3. /\ at' = at /\ src' = src /\ data' = data
        /\ dest' = [dest EXCEPT ![at] = Append(Escaped, ch)]
        /\ last_ch' = src[src_index] /\ src_index' = src_index + 1
    BY <1>5 DEF Put, ch, src
  <2>4. src_index \in Kept(src, drop) /\ src[src_index] # "\n" /\ ch = src[src_index]
    BY <1>5, <2>1, <2>2 DEF Put, Copies, ch
  <2>5. /\ dest \in [Fields -> Seq(Chars)] /\ dest[at] \in Seq(Chars)
        /\ Escaped = (IF src[src_index] \in Separators THEN Append(dest[at], "\\") ELSE dest[at])
    BY <2>2 DEF Inv, TypeOK, Escaped, ch
  <2>6. Loop(Append(Escaped, ch), src, src_index + 1, drop)
    BY <2>1, <2>2, <2>4, <2>5, LoopPut
  <2>7. dest'[at] = Append(Escaped, ch) /\ \A f \in Fields : f # at => dest'[f] = dest[f]
    BY <2>2, <2>3, <2>5
  <2>8. src_index + 1 <= Len(src) + 1 /\ (src_index + 1) - 1 = src_index
    BY <2>1, <2>2
  <2> QED
    BY <2>2, <2>3, <2>6, <2>7, <2>8 DEF CopyInv
<1>6. CASE Return
  <2>1. PICK drop \in BOOLEAN : Renders(dest[at], src, Size(at), drop)
    BY <1>6, ReturnRenders
  <2>2. at \in Fields /\ Start(After(at), dest) /\ data' = data
    BY <1>6, ReturnStarts DEF Inv, Return
  <2>3. dest \in [Fields -> Seq(Chars)] /\ data["s2"] \in Seq(Chars)
    BY SourceType DEF Inv, TypeOK
  <2>4. CASE at = "s1"
    <3>1. dest["s2"] = <<>> /\ Start("s2", dest)
      BY <2>2, <2>4 DEF CopyInv, After
    <3>2. /\ at' = "s2" /\ src' = data["s2"] /\ src_index' = 1 /\ dest' = dest
          /\ \E e \in BOOLEAN : Loop(dest'["s2"], data["s2"], 1, e)
      BY <2>2, <2>3, <3>1, CopyStart
    <3>3. Renders(dest["s1"], data.s1, PATH_MAX, drop)
      BY <2>1, <2>4 DEF Size, src
    <3>4. Len(data["s2"]) \in Nat
      BY <2>3
    <3> QED
      BY <2>2, <3>1, <3>2, <3>3, <3>4 DEF CopyInv
  <2>5. CASE at = "s2"
    <3>1. at' = "post" /\ dest' = dest
      BY <2>2, <2>5 DEF After, Start
    <3>2. Renders(dest["s2"], data.s2, STR_LEN, drop)
      BY <2>1, <2>5 DEF Size, src
    <3> QED
      BY <2>2, <2>5, <3>1, <3>2 DEF CopyInv
  <2> QED
    BY <2>2, <2>4, <2>5
<1>7. CASE \E c \in Consoles : Console(c)
  BY <1>1, <1>7 DEF Console, UpdateMask, ParseToken, SetMask, PrintMask, PrintBit, PrintDone,
     listener, copying
<1>8. CASE Format
  <2>1. at = "post" /\ at' = "send" /\ UNCHANGED <<data, dest>>
    BY <1>8 DEF Format
  <2>2. Sent' = Sent
    BY <2>1 DEF Sent, Line, Value
  <2>3. postdata' = Sent
    BY <1>8 DEF Format, Sent
  <2> QED
    BY <2>1, <2>2, <2>3 DEF CopyInv
<1>9. CASE Listener
  BY <1>2, <1>3, <1>4, <1>5, <1>6, <1>8, <1>9
     DEF Listener, Receive, Drop, Accept, NoHandle, Post
<1> QED
  BY <1>1, <1>7, <1>9 DEF Next, vars

(* What is sent holds what copy_escaped_tag_value() is to keep of the      *)
(* record's strings, in their order and as much as fits their buffers, and *)
(* of that what postdata has room for, for strings and buffers of any      *)
(* length and any uninitialized last_ch.                                   *)
THEOREM TagsAreFaithful == Spec => []TagFaithful
<1>1. Inv /\ Inv' /\ CopyInv /\ [Next]_vars => CopyInv'
  BY CopyStep
<1>2. Inv /\ CopyInv => TagFaithful
  <2> SUFFICES ASSUME Inv, CopyInv, at = "send"
               PROVE  TagFaithful
    BY DEF TagFaithful
  <2>1. TypeOK /\ postdata = Sent
    BY DEF Inv, CopyInv
  <2>2. /\ \E drop \in BOOLEAN : Renders(dest["s1"], data.s1, PATH_MAX, drop)
        /\ \E drop \in BOOLEAN : Renders(dest["s2"], data.s2, STR_LEN, drop)
    BY DEF CopyInv
  <2> QED
    BY <2>1, <2>2, SentHolds DEF TagFaithful
<1> QED
  BY <1>1, <1>2, CopyInit, Invariance, PTL DEF Spec
=============================================================================
