------------------------------ MODULE Export ------------------------------
(***************************************************************************)
(* Two plugins of mq_listener, one after the other: plugins/               *)
(* filter_domains.c drops the records of the domains that are not in its   *)
(* mask, plugins/output_influxdb.c posts the others to InfluxDB.  The      *)
(* listener's thread offers them one record after the other.  Consoles     *)
(* (input_cli threads) run the filter's commands update-mask and           *)
(* print-mask, at any time: a command does not take plugin_mutex.          *)
(*                                                                         *)
(* A bit mask is the set of its bits, a list of domains the sequence of    *)
(* its tokens, a string a sequence of characters.  Of a record only the    *)
(* domain and the strings s1 and s2 are told apart: what snprintf() makes  *)
(* of its other fields is the text before s1 (head) and behind s2 (foot).  *)
(* libcurl is modelled from how the plugin uses it.                        *)
(***************************************************************************)
EXTENDS Integers, Sequences, FiniteSets

CONSTANTS
  Consoles,     \* the input_cli threads
  END_DOMAINS,  \* the number of domains
  Width,        \* bits of an unsigned int
  domains_names,\* the names of the domains
  Lists,        \* what the filter may be configured with
  Plain,        \* the characters that have no part in the escaping
  Records,      \* the records, [dom, head, s1, s2, foot]
  Middle,       \* the text between s1 and s2 in a post
  Null,         \* what stands in a post for an empty string
  PATH_MAX,     \* size of the buffer for s1
  STR_LEN,      \* size of the buffer for s2
  POST_LEN      \* size of postdata

Bits == 0..(Width - 1)
Domains == 0..(END_DOMAINS - 1)
Separators == {" ", ",", "="}
Chars == Plain \cup Separators \cup {"\\", "\n"}
Fields == {"s1", "s2"}

(* What a read past the end of domains_names yields. *)
GARBAGE == "?"

Tokens == {domains_names[i] : i \in Domains} \cup {"ALL", "OTHER", GARBAGE}

ASSUME WidthAssumption == END_DOMAINS \in Nat /\ Width \in Nat /\ END_DOMAINS <= Width

ASSUME NamesAssumption ==
  \A i, k \in Domains : /\ domains_names[i] = domains_names[k] => i = k
                        /\ domains_names[i] \notin {"ALL", "OTHER", GARBAGE}

ASSUME ListsAssumption == Lists \subseteq Seq(Tokens)

ASSUME PlainAssumption == Plain \cap (Separators \cup {"\\", "\n"}) = {}

ASSUME RecordsAssumption ==
  /\ Records # {}
  /\ Records \subseteq [dom : Domains, head : Seq(Chars), s1 : Seq(Chars),
                        s2 : Seq(Chars), foot : Seq(Chars)]

ASSUME TextAssumption == Middle \in Seq(Chars) /\ Null \in Seq(Chars)

ASSUME SizesAssumption ==
  PATH_MAX \in Nat \ {0} /\ STR_LEN \in Nat \ {0} /\ POST_LEN \in Nat \ {0}

VARIABLES
  \* filter_domains
  domain_bit_flags,
  cmd,       \* place of a console: "idle", "parse", "print"
  rest,      \* domain_list_to_bit_mask(): the tokens left
  bit_mask,  \*   and the bits so far
  m, j,      \* print-mask: the bits left and the next one
  printed,   \*   and what it has printed
  \* the listener's thread
  at,        \* its place
  data,      \* the record
  dest,      \* s1_data and s2_data
  src_index, last_ch,
  postdata,  \* the line that is sent
  rc,        \* what the last plugin returned
  \* History variables: not state of the program.
  asked,     \* the list a console parses
  applied,   \* the list that was applied last
  shown,     \* the mask that print-mask prints
  judged     \* the list that was applied when the record was judged

console == <<cmd, rest, bit_mask, m, j, printed>>
copying == <<dest, src_index, last_ch, postdata>>
history == <<asked, applied, shown, judged>>
vars == <<domain_bit_flags, console, at, data, copying, rc, history>>

-----------------------------------------------------------------------------
(* domain_list_to_bit_mask(): what one token adds. *)
Token(bits, token) ==
  bits \cup {i \in Domains : domains_names[i] = token}
       \cup (IF token = "ALL" THEN Bits ELSE {})

(* The mask that a list of domains stands for. *)
Meaning(list) ==
  {i \in Bits : \E k \in 1..Len(list) :
     list[k] = "ALL" \/ (i \in Domains /\ list[k] = domains_names[i])}

Empty == [f \in Fields |-> <<>>]

(* open_plugin(): the loop below has made a mask of the list. *)
Init ==
  /\ \E list \in Lists : domain_bit_flags = Meaning(list) /\ applied = list
  /\ cmd = [c \in Consoles |-> "idle"]
  /\ rest = [c \in Consoles |-> <<>>]
  /\ bit_mask = [c \in Consoles |-> {}]
  /\ m = [c \in Consoles |-> {}]
  /\ j = [c \in Consoles |-> 0]
  /\ printed = [c \in Consoles |-> <<>>]
  /\ at = "idle"
  /\ data = CHOOSE r \in Records : TRUE
  /\ dest = Empty /\ src_index = 1 /\ last_ch = "\n" /\ postdata = <<>>
  /\ rc = "none"
  /\ asked = [c \in Consoles |-> <<>>]
  /\ shown = [c \in Consoles |-> {}]
  /\ judged = <<>>

listener == <<at, data, copying, rc, judged>>

-----------------------------------------------------------------------------
(* plugin_command(): update-mask. *)
UpdateMask(c, list) ==
  /\ cmd[c] = "idle"
  /\ cmd' = [cmd EXCEPT ![c] = "parse"]
  /\ rest' = [rest EXCEPT ![c] = list]
  /\ bit_mask' = [bit_mask EXCEPT ![c] = {}]
  /\ asked' = [asked EXCEPT ![c] = list]
  /\ UNCHANGED <<domain_bit_flags, m, j, printed, listener, applied, shown>>

\* Mutant: the bits are set in the mask itself.
ParseTokenInPlace(c) ==
  /\ cmd[c] = "parse" /\ rest[c] # <<>>
  /\ rest' = [rest EXCEPT ![c] = Tail(@)]
  /\ bit_mask' = [bit_mask EXCEPT ![c] = Token(@, Head(rest[c]))]
  /\ domain_bit_flags' = Token(bit_mask[c], Head(rest[c]))
  /\ UNCHANGED <<cmd, m, j, printed, listener, asked, applied, shown>>

ParseToken(c) ==
  /\ cmd[c] = "parse" /\ rest[c] # <<>>
  /\ rest' = [rest EXCEPT ![c] = Tail(@)]
  /\ bit_mask' = [bit_mask EXCEPT ![c] = Token(@, Head(rest[c]))]
  /\ UNCHANGED <<domain_bit_flags, cmd, m, j, printed, listener, asked, applied, shown>>

SetMask(c) ==
  /\ cmd[c] = "parse" /\ rest[c] = <<>>
  /\ domain_bit_flags' = bit_mask[c]
  /\ applied' = asked[c]
  /\ asked' = [asked EXCEPT ![c] = <<>>]
  /\ bit_mask' = [bit_mask EXCEPT ![c] = {}]
  /\ cmd' = [cmd EXCEPT ![c] = "idle"]
  /\ UNCHANGED <<rest, m, j, printed, listener, shown>>

(* plugin_command(): print-mask. *)
PrintMask(c) ==
  /\ cmd[c] = "idle"
  /\ cmd' = [cmd EXCEPT ![c] = "print"]
  /\ m' = [m EXCEPT ![c] = domain_bit_flags]
  /\ j' = [j EXCEPT ![c] = 0]
  /\ printed' = [printed EXCEPT ![c] = <<>>]
  /\ shown' = [shown EXCEPT ![c] = domain_bit_flags]
  /\ UNCHANGED <<domain_bit_flags, rest, bit_mask, listener, asked, applied>>

Name(i) == IF i \in Domains THEN domains_names[i] ELSE GARBAGE

\* Mutant: the mask itself is read for every bit.
PrintBitLive(c) ==
  /\ cmd[c] = "print" /\ m[c] # {}
  /\ printed' = [printed EXCEPT ![c] = IF j[c] \in domain_bit_flags
                                       THEN Append(@, Name(j[c])) ELSE @]
  /\ m' = [m EXCEPT ![c] = @ \ {j[c]}]
  /\ j' = [j EXCEPT ![c] = @ + 1]
  /\ UNCHANGED <<domain_bit_flags, cmd, rest, bit_mask, listener, history>>

\* Mutant: a bit that is printed is not cleared.
PrintBitForever(c) ==
  /\ cmd[c] = "print" /\ m[c] # {}
  /\ printed' = [printed EXCEPT ![c] = IF j[c] \in m[c]
                                       THEN Append(@, Name(j[c])) ELSE @]
  /\ j' = [j EXCEPT ![c] = @ + 1]
  /\ UNCHANGED <<domain_bit_flags, cmd, rest, bit_mask, m, listener, history>>

PrintBit(c) ==
  /\ cmd[c] = "print" /\ m[c] # {}
  /\ printed' = [printed EXCEPT ![c] = IF j[c] \in m[c]
                                       THEN Append(@, Name(j[c])) ELSE @]
  /\ m' = [m EXCEPT ![c] = @ \ {j[c]}]
  /\ j' = [j EXCEPT ![c] = @ + 1]
  /\ UNCHANGED <<domain_bit_flags, cmd, rest, bit_mask, listener, history>>

PrintDone(c) ==
  /\ cmd[c] = "print" /\ m[c] = {}
  /\ cmd' = [cmd EXCEPT ![c] = "idle"]
  /\ j' = [j EXCEPT ![c] = 0]
  /\ printed' = [printed EXCEPT ![c] = <<>>]
  /\ shown' = [shown EXCEPT ![c] = {}]
  /\ UNCHANGED <<domain_bit_flags, rest, bit_mask, m, listener, asked, applied>>

-----------------------------------------------------------------------------
(* The listener's thread: the next record, and process_data() of           *)
(* filter_domains.                                                         *)
Receive(r) ==
  /\ at = "idle"
  /\ data' = r
  /\ at' = "filter"
  /\ UNCHANGED <<domain_bit_flags, console, copying, rc, history>>

Drop ==
  /\ at = "filter" /\ data.dom \notin domain_bit_flags
  /\ rc' = "DROP"
  /\ at' = "idle"
  /\ judged' = applied
  /\ UNCHANGED <<domain_bit_flags, console, data, copying, asked, applied, shown>>

Accept ==
  /\ at = "filter" /\ data.dom \in domain_bit_flags
  /\ rc' = "ACCEPT"
  /\ at' = "influx"
  /\ judged' = applied
  /\ UNCHANGED <<domain_bit_flags, console, data, copying, asked, applied, shown>>

-----------------------------------------------------------------------------
(* process_data() of output_influxdb. *)

(* As it is written: no character passes the test. *)
is_all_whitespace(s) ==
  ~\E i \in 1..Len(s) : s[i] # " " \/ s[i] # "\n" \/ s[i] # "\r" \/ s[i] # "\t"

Have(s) == Len(s) > 0 /\ ~is_all_whitespace(s)

src == data[at]
ch == src[src_index]
dest_len == IF at = "s1" THEN PATH_MAX ELSE STR_LEN

(* Starts on field f with the buffers ds: last_ch is not initialized. *)
Start(f, ds) ==
  /\ src_index' = 1
  /\ IF f \in Fields /\ Have(data[f])
     THEN last_ch' \in Chars /\ dest' = [ds EXCEPT ![f] = <<>>]
     ELSE last_ch' = "\n" /\ dest' = ds
  /\ at' = f

After(f) == IF f = "s1" THEN "s2" ELSE "post"

NoHandle ==
  /\ at = "influx"
  /\ rc' = "REFUSE"
  /\ at' = "idle"
  /\ UNCHANGED <<domain_bit_flags, console, data, copying, history>>

Handle ==
  /\ at = "influx"
  /\ Start("s1", Empty)
  /\ UNCHANGED <<domain_bit_flags, console, data, postdata, rc, history>>

(* copy_escaped_tag_value(): one turn of its loop. *)
Reading == at \in Fields /\ Have(src) /\ src_index <= Len(src)

\* Mutant: any two separators in a row count as one.
RepeatedAny == ch \in Separators /\ last_ch \in Separators

Repeated == ch \in Separators /\ last_ch = ch

Skip ==
  /\ Reading
  /\ Repeated \/ ch = "\\"
  /\ last_ch' = ch
  /\ src_index' = src_index + 1
  /\ UNCHANGED <<domain_bit_flags, console, at, data, dest, postdata, rc, history>>

\* Mutant: one character less is kept free.
RoomForEscapeTight(d) == Len(d) < dest_len - 1

RoomForEscape(d) == Len(d) < dest_len - 2

RoomFor(d) == Len(d) < dest_len - 1

Escaped == IF ch \in Separators THEN Append(dest[at], "\\") ELSE dest[at]

Copies == Reading /\ ~Repeated /\ ch \notin {"\\", "\n"}

Put ==
  /\ Copies
  /\ ch \in Separators => RoomForEscape(dest[at])
  /\ RoomFor(Escaped)
  /\ dest' = [dest EXCEPT ![at] = Append(Escaped, ch)]
  /\ last_ch' = ch
  /\ src_index' = src_index + 1
  /\ UNCHANGED <<domain_bit_flags, console, at, data, postdata, rc, history>>

(* It returns: at the end, at a newline, or when dest is full. *)
Return ==
  /\ at \in Fields
  /\ \/ /\ ~Have(src) \/ src_index > Len(src)
        /\ Start(After(at), dest)
     \/ /\ Reading /\ ~Repeated /\ ch = "\n"
        /\ Start(After(at), dest)
     \/ /\ Copies /\ ch \in Separators /\ ~RoomForEscape(dest[at])
        /\ Start(After(at), dest)
     \/ /\ Copies
        /\ ch \in Separators => RoomForEscape(dest[at])
        /\ ~RoomFor(Escaped)
        /\ Start(After(at), [dest EXCEPT ![at] = Escaped])
  /\ UNCHANGED <<domain_bit_flags, console, data, postdata, rc, history>>

(* snprintf(): the line, and as much of it as postdata has room for. *)
Value(f) == IF dest[f] = <<>> THEN Null ELSE dest[f]

Line == data.head \o Value("s1") \o Middle \o Value("s2") \o data.foot

Format ==
  /\ at = "post"
  /\ postdata' = SubSeq(Line, 1, IF Len(Line) < POST_LEN THEN Len(Line) ELSE POST_LEN - 1)
  /\ at' = "send"
  /\ UNCHANGED <<domain_bit_flags, console, data, dest, src_index, last_ch, rc, history>>

(* The post succeeds or fails; the buffers go. *)
Post ==
  /\ at = "send"
  /\ rc' \in {"ACCEPT", "REFUSE"}
  /\ at' = "idle"
  /\ dest' = Empty /\ src_index' = 1 /\ last_ch' = "\n" /\ postdata' = <<>>
  /\ UNCHANGED <<domain_bit_flags, console, data, history>>

-----------------------------------------------------------------------------
Console(c) ==
  \/ \E list \in Lists : UpdateMask(c, list)
  \/ ParseToken(c) \/ SetMask(c)
  \/ PrintMask(c) \/ PrintBit(c) \/ PrintDone(c)

Listener ==
  \/ \E r \in Records : Receive(r)
  \/ Drop \/ Accept \/ NoHandle \/ Handle
  \/ Skip \/ Put \/ Return \/ Format \/ Post

Next == Listener \/ \E c \in Consoles : Console(c)

Spec == Init /\ [][Next]_vars

-----------------------------------------------------------------------------
(* Every variable keeps its type: in particular print-mask stops within    *)
(* the bits of its mask.                                                   *)
TypeOK ==
  /\ domain_bit_flags \subseteq Bits
  /\ cmd \in [Consoles -> {"idle", "parse", "print"}]
  /\ rest \in [Consoles -> Seq(Tokens)]
  /\ bit_mask \in [Consoles -> SUBSET Bits]
  /\ m \in [Consoles -> SUBSET Bits]
  /\ j \in [Consoles -> 0..Width]
  /\ printed \in [Consoles -> Seq(Tokens)]
  /\ at \in {"idle", "filter", "influx", "post", "send"} \cup Fields
  /\ data \in Records
  /\ dest \in [Fields -> Seq(Chars)]
  /\ src_index \in Nat \ {0}
  /\ last_ch \in Chars
  /\ postdata \in Seq(Chars)
  /\ rc \in {"none", "ACCEPT", "DROP", "REFUSE"}
  /\ asked \in [Consoles -> Seq(Tokens)]
  /\ applied \in Seq(Tokens)
  /\ shown \in [Consoles -> SUBSET Bits]
  /\ judged \in Seq(Tokens)

(* While consoles change the mask without a lock, every record is judged   *)
(* by one whole list, the one that was applied last: what is dropped is    *)
(* not in it, what goes on to InfluxDB is.                                 *)
FilterRight ==
  /\ at \in {"influx", "post", "send"} \cup Fields => data.dom \in Meaning(judged)
  /\ at = "idle" /\ rc = "DROP" => data.dom \notin Meaning(judged)

(* What print-mask prints, given to update-mask, yields the mask that was  *)
(* in force when it began, whatever other consoles do meanwhile.  Masks    *)
(* with bits that are no domain are left out: after ALL it reads past the  *)
(* end of domains_names, and what it prints is anything.                   *)
PrintsBack ==
  \A c \in Consoles :
    cmd[c] = "print" /\ m[c] = {} /\ shown[c] \subseteq Domains
      => Meaning(printed[c]) = shown[c]

(* s1_data and s2_data fit their buffers with the final NUL, have no       *)
(* newline, and the backslashes in them escape separators, one each: none  *)
(* is bare, and none is left alone where the buffer ends.  This is before  *)
(* snprintf() cuts the line: a post that is full may end in a backslash.   *)
TagSafe ==
  \A f \in Fields :
    LET d == dest[f] IN
    /\ Len(d) < (IF f = "s1" THEN PATH_MAX ELSE STR_LEN)
    /\ \A i \in 1..Len(d) :
         /\ d[i] # "\n"
         /\ d[i] \in Separators => i > 1 /\ d[i - 1] = "\\"
         /\ d[i] = "\\" => i < Len(d) /\ d[i + 1] \in Separators

(* The characters of s that belong in the tag: those before a newline      *)
(* that are no backslash and do not repeat a separator.  The first may     *)
(* count as repeated (drop).                                               *)
Kept(s, drop) ==
  {i \in 1..Len(s) :
     /\ \A k \in 1..i : s[k] # "\n"
     /\ s[i] # "\\"
     /\ ~(s[i] \in Separators /\ (IF i = 1 THEN drop ELSE s[i - 1] = s[i]))}

(* The room that the characters I of s take. *)
Room(s, I) == Cardinality(I) + Cardinality({i \in I : s[i] \in Separators})

(* Those that are kept up to the i-th. *)
Upto(s, drop, i) == {k \in Kept(s, drop) : k <= i}

(* d holds the characters of s that belong in the tag, in their order, and *)
(* as many as fit into len.                                                *)
Renders(d, s, len, drop) ==
  LET fits == {i \in Kept(s, drop) : Room(s, Upto(s, drop, i)) < len}
  IN  /\ Len(d) = Room(s, fits)
      /\ \A i \in fits : d[Room(s, Upto(s, drop, i))] = s[i]

(* Where the value of field f begins in the line. *)
Before(f) ==
  Len(data.head) + (IF f = "s1" THEN 0 ELSE Len(Value("s1")) + Len(Middle))

(* What is sent holds, of the strings of this record, what the escaping    *)
(* keeps and what fits their buffers, in order; the uninitialized last_ch  *)
(* costs a leading separator at most.  They stand in their places, up to   *)
(* the last character that postdata has room for: a longer line is cut     *)
(* there, within s1 if its path is long, and that rest is lost.            *)
TagFaithful ==
  at = "send" =>
    /\ \E drop \in BOOLEAN : Renders(dest["s1"], data.s1, PATH_MAX, drop)
    /\ \E drop \in BOOLEAN : Renders(dest["s2"], data.s2, STR_LEN, drop)
    /\ Len(postdata) < POST_LEN
    /\ \A f \in Fields : \A i \in 1..Len(Value(f)) :
         Before(f) + i < POST_LEN =>
           Before(f) + i <= Len(postdata) /\ postdata[Before(f) + i] = Value(f)[i]
=============================================================================
