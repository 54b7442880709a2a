----------------------------- MODULE ReplyText -----------------------------
(***************************************************************************)
(* What ykern prints for one attribute of a reply: the guessed type of a   *)
(* scalar and the schema of a nested attribute in a generic netlink reply  *)
(* (genl-operation.c), the fixed tables of rtnl (rtnl.c).                  *)
(*                                                                         *)
(* An attribute is a record                                                *)
(*   id      nla_type without its flags                                    *)
(*   flag    NLA_F_NESTED is set                                           *)
(*   bytes   the payload of a scalar                                       *)
(*   inner   the attributes the payload of a nested one consists of        *)
(*   schema  the set these belong to, which only the kernel knows          *)
(* A printed value is [as, bytes, len]: how it is shown, the bytes one can *)
(* read off it, and the length it states.                                  *)
(***************************************************************************)
EXTENDS AttrSets, Integers

Shown(as, bytes, len) == [as |-> as, bytes |-> bytes, len |-> len]

Shorter(m, n) == IF m < n THEN m ELSE n
FirstBytes(bytes, n) == SubSeq(bytes, 1, Shorter(n, Len(bytes)))

Tab == 9
Blank == 32
Delete == 127

\* looks_like_string: a NUL at the end and nothing unprintable before.
LooksLikeString(bytes) ==
  /\ bytes # << >> /\ Last(bytes) = 0
  /\ \A i \in DOMAIN bytes \ {Len(bytes)} :
       /\ bytes[i] >= Blank \/ bytes[i] = Tab
       /\ bytes[i] # Delete

Widths == {1, 2, 4, 8}
BlobShown == 32

\* render_scalar: the length decides, unless it looks like a string.
Scalar(bytes) ==
  CASE bytes = << >> -> Shown("flag", << >>, 0)
    [] Len(bytes) > 1 /\ LooksLikeString(bytes) -> Shown("string", Front(bytes), Len(bytes))
    [] Len(bytes) = 1 \/ (Len(bytes) \in Widths /\ ~LooksLikeString(bytes)) ->
         Shown("number", bytes, Len(bytes))
    [] OTHER -> Shown("blob", FirstBytes(bytes, BlobShown), Len(bytes))

-----------------------------------------------------------------------------
(* The schema of a nested attribute.                                       *)

Bitset == <<"BITSET">>
BitsetBits == <<"BITSET", "BITS">>
BitsetBit == <<"BITSET", "BIT">>

\* g_schema_aliases: in a set, attributes with the schema of another one.
BitsetIn(set, attrs) == {<<set, attr, Bitset>> : attr \in attrs}
Aliases ==
  BitsetIn(<<"FEATURES">>, {<<"HW">>, <<"WANTED">>, <<"ACTIVE">>, <<"NOCHANGE">>})
  \cup BitsetIn(<<"LINKMODES">>, {<<"OURS">>, <<"PEER">>})
  \cup BitsetIn(<<"DEBUG">>, {<<"MSGMASK">>}) \cup BitsetIn(<<"PRIVFLAGS">>, {<<"FLAGS">>})
  \cup BitsetIn(<<"WOL">>, {<<"MODES">>})
  \cup BitsetIn(<<"TSINFO">>, {<<"TIMESTAMPING">>, <<"TX", "TYPES">>, <<"RX", "FILTERS">>})
  \cup BitsetIn(<<"FEC">>, {<<"ACTIVE", "FEC">>, <<"MODES">>})
  \cup BitsetIn(<<"RSS">>, {<<"INDIR">>})
  \cup {<<Bitset, <<"BITS">>, BitsetBits>>, <<BitsetBits, <<"BIT">>, BitsetBit>>,
        <<<<"STRSET">>, <<"STRINGSETS">>, <<"STRINGSETS">>>>,
        <<<<"STRINGSETS">>, <<"STRINGSET">>, <<"STRINGSET">>>>,
        <<<<"STRINGSET">>, <<"STRINGS">>, <<"STRINGS">>>>,
        <<<<"STRINGS">>, <<"STRING">>, <<"STRING">>>>}

\* resolve_alias; the table has one entry for a set and a name.
Alias(set, name) ==
  LET fits == {a \in Aliases : a[1] = set /\ a[2] = name}
  IN  IF fits = {} THEN NoName ELSE (CHOOSE a \in fits : TRUE)[3]

\* The set of the same name, else an alias; nothing for an unknown attribute.
ChildSet(overlay, set, found) ==
  IF found = << >> THEN << >>
  ELSE First(FindSet(overlay, found[1].name) \o FindSet(overlay, Alias(set.name, found[1].name)))

\* try_render_bit_compact: the index, the name and the value of one bit.
BitIds(set) == [key \in {"INDEX", "NAME", "VALUE"} |-> LookupName(<<set>>, <<key>>)]
IsCompact(set) == set.name = BitsetBit /\ \A key \in DOMAIN BitIds(set) : BitIds(set)[key] # << >>

\* The payload of the last of these attributes.
LastOf(inner, those, default) == IF those = {} THEN default ELSE inner[Max(those)].bytes

Zero == <<0, 0, 0, 0>>

\* An index shorter than four bytes does not count; a name loses its NUL.
Bit(inner, set) ==
  LET At(key) == {i \in DOMAIN inner : inner[i].id = BitIds(set)[key][1].id}
      name == LastOf(inner, At("NAME"), << >>)
  IN  [index |-> FirstBytes(LastOf(inner, {i \in At("INDEX") : Len(inner[i].bytes) >= 4}, Zero), 4),
       name |-> IF name # << >> /\ Last(name) = 0 THEN Front(name) ELSE name,
       on |-> At("VALUE") # {}]

-----------------------------------------------------------------------------
(* rtnl: a table is a sequence of [id, name, kind].                        *)

KindWidth == [u8 |-> 1, u16 |-> 2, u32 |-> 4, s32 |-> 4, u64 |-> 8]
RtnlShown == 16
MacNames == {<<"ADDRESS">>, <<"BROADCAST">>, <<"LLADDR">>, <<"PERM", "ADDRESS">>}
MacLen == 6
IpLens == {4, 16}

Zeros(n) == [i \in 1 .. n |-> 0]

Blob(bytes) == Shown("blob", FirstBytes(bytes, RtnlShown), Len(bytes))

\* render_attr_value; entry is the look-up's result, empty for an unknown id.
\* A number is zero when its payload is too short.
RtnlValue(entry, bytes) ==
  LET kind == IF entry = << >> THEN "binary" ELSE entry[1].kind
      isMac == entry # << >> /\ entry[1].name \in MacNames
  IN  CASE kind \in DOMAIN KindWidth ->
             LET width == KindWidth[kind]
             IN  Shown("number", IF Len(bytes) < width THEN Zeros(width)
                                 ELSE FirstBytes(bytes, width), width)
        [] kind = "string" ->
             Shown("string", IF bytes # << >> /\ Last(bytes) = 0 THEN Front(bytes) ELSE bytes,
                   Len(bytes))
        [] kind = "flag" -> Shown("flag", << >>, 0)
        [] kind = "nest" -> Shown("nest", << >>, Len(bytes))
        [] kind = "binary" /\ isMac ->
             IF Len(bytes) = MacLen THEN Shown("mac", bytes, MacLen) ELSE Blob(bytes)
        [] kind = "binary" /\ ~isMac ->
             IF Len(bytes) \in IpLens THEN Shown("ip", bytes, Len(bytes)) ELSE Blob(bytes)
=============================================================================
