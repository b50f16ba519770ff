--------------------------- MODULE TailcatAddress ---------------------------
(* The address that a server prints and a client is given: a CBOR map in    *)
(* base64url behind "tc" (protocol.cpp).  Bytes are numbers, a character of *)
(* the base64url alphabet is its place in it, a text is a sequence of       *)
(* bytes, and a call that throws has the empty set of results.  Integers    *)
(* stay below 2^31, so the eight-byte form of a CBOR head is never written. *)
EXTENDS Integers, Sequences, SequencesExt

CONSTANT KeySize                \* the size of a Key32

-----------------------------------------------------------------------------
(* base64url, by way of pairs of bits: four to a byte, three to a character *)
Digits(base, n, x) == [i \in 1..n |-> (x \div base^(n - i)) % base]
Number(base, digits) == FoldLeft(LAMBDA v, d : base * v + d, 0, digits)
Groups(n, s) == [i \in 1..(Len(s) \div n) |-> SubSeq(s, n * (i - 1) + 1, n * i)]
Pairs(n, s) == FlattenSeq([i \in DOMAIN s |-> Digits(4, n, s[i])])
Regroup(n, s) == [i \in DOMAIN Groups(n, s) |-> Number(4, Groups(n, s)[i])]

Base64urlEncode(bytes) ==
  LET rest == (3 - (Len(bytes) % 3)) % 3
  IN Regroup(3, Pairs(4, bytes) \o [i \in 1..rest |-> 0])

Base64urlDecode(text) ==
  IF text = <<>> \/ Len(text) % 4 = 1 \/ ~(\A i \in DOMAIN text : text[i] \in 0..63)
  THEN {} ELSE {Regroup(4, Pairs(3, text))}

-----------------------------------------------------------------------------
(* CborWriter                                                               *)
WriteHead(major, v) ==
  CASE v < 24 -> <<32 * major + v>>
    [] v \in 24..255 -> <<32 * major + 24, v>>
    [] v \in 256..65535 -> <<32 * major + 25>> \o Digits(256, 2, v)
    [] OTHER -> <<32 * major + 26>> \o Digits(256, 4, v)

WriteText(s) == WriteHead(3, Len(s)) \o s
Write(kind, v) ==
  CASE kind = "text" -> WriteText(v)
    [] kind = "key" -> WriteHead(2, Len(v)) \o v
    [] kind = "integer" -> IF v >= 0 THEN WriteHead(0, v) ELSE WriteHead(1, -(v + 1))
    [] kind = "boolean" -> IF v THEN <<245>> ELSE <<244>>

(* CborReader: a read at p gives the value and the place behind it, 0 when  *)
(* it throws; a read at 0 gives 0.                                          *)
Error == [at |-> 0, major |-> 8, val |-> 0]
HeadSize(info) == CASE info < 24 -> 0 [] info = 24 -> 1 [] info = 25 -> 2
                    [] info = 26 -> 4 [] OTHER -> 8
ReadHead(d, p) ==
  LET Sized(info, n) ==
        IF info \in 28..31 \/ p + n > Len(d) THEN Error
        ELSE [at |-> p + n + 1, major |-> d[p] \div 32,
              val |-> IF n = 0 THEN info ELSE Number(256, SubSeq(d, p + 1, p + n))]
  IN IF p \in DOMAIN d THEN Sized(d[p] % 32, HeadSize(d[p] % 32)) ELSE Error

Expect(d, p, major) ==
  LET Of(h) == IF h.major = major THEN h ELSE Error
  IN Of(ReadHead(d, p))

Fits(d, h) == h.at # 0 /\ h.val <= Len(d) - h.at + 1
ReadString(d, p, major) ==
  LET Behind(h) ==
        IF ~Fits(d, h) THEN [at |-> 0, val |-> <<>>]
        ELSE [at |-> h.at + h.val, val |-> SubSeq(d, h.at, h.at + h.val - 1)]
  IN Behind(Expect(d, p, major))

ReadInteger(d, p) ==
  LET Signed(h) ==
        CASE h.major = 0 -> h [] h.major = 1 -> [h EXCEPT !.val = -1 - @]
          [] OTHER -> Error
  IN Signed(ReadHead(d, p))

ReadBoolean(d, p) ==
  IF p \in DOMAIN d /\ d[p] \in {244, 245}
  THEN [at |-> p + 1, val |-> d[p] = 245] ELSE [at |-> 0, val |-> FALSE]

ReadKey(d, p) ==
  LET Sized(r) == IF Len(r.val) = KeySize THEN r ELSE [r EXCEPT !.at = 0]
  IN Sized(ReadString(d, p, 2))

Read(d, kind, p) ==
  CASE kind = "text" -> ReadString(d, p, 3) [] kind = "key" -> ReadKey(d, p)
    [] kind = "integer" -> ReadInteger(d, p)
    [] kind = "boolean" -> ReadBoolean(d, p)

(* A loop that reads n items; each takes a byte, so that Len(d) + 1 of them *)
(* are as good as more.                                                     *)
Times(d, n) == [i \in 1..(IF n > Len(d) THEN Len(d) + 1 ELSE n) |-> i]

(* Mutant: of a map the entries are counted, not the keys and the values.   *)
SkipMapAsArray(d, p) ==
  LET Skip[q \in Nat] ==
        LET Behind(h) ==
              CASE h.major \in {0, 1, 7, 8} -> h.at
                [] h.major \in {2, 3} -> IF Fits(d, h) THEN h.at + h.val ELSE 0
                [] h.major = 6 -> Skip[h.at]
                [] h.major \in {4, 5} ->
                     FoldLeft(LAMBDA r, i : Skip[r], h.at, Times(d, h.val))
        IN Behind(ReadHead(d, q))
  IN Skip[p]

SkipItem(d, p) ==
  LET Skip[q \in Nat] ==
        LET Behind(h) ==
              CASE h.major \in {0, 1, 7, 8} -> h.at
                [] h.major \in {2, 3} -> IF Fits(d, h) THEN h.at + h.val ELSE 0
                [] h.major = 6 -> Skip[h.at]
                [] h.major \in {4, 5} ->
                     FoldLeft(LAMBDA r, i : Skip[r], h.at,
                              Times(d, IF h.major = 4 THEN h.val ELSE 2 * h.val))
        IN Behind(ReadHead(d, q))
  IN Skip[p]

-----------------------------------------------------------------------------
(* Maps: the fields in the order they are written, each with its key (a     *)
(* letter) and its kind.                                                    *)
Field(name, key, kind) == [name |-> name, key |-> key, kind |-> kind]
NodeFields ==
  <<Field("name", 110, "text"), Field("region_id", 105, "integer"),
    Field("host_name", 104, "text"), Field("cert_name", 116, "text"),
    Field("ipv4", 52, "text"), Field("ipv6", 54, "text"),
    Field("stun_port", 115, "integer"), Field("derp_port", 100, "integer"),
    Field("insecure_for_tests", 120, "boolean")>>
RegionFields ==
  <<Field("region_id", 105, "integer"), Field("region_code", 99, "text"),
    Field("region_name", 109, "text"), Field("nodes", 78, "list")>>
InfoFields ==
  <<Field("server_public", 112, "key"), Field("server_disco_public", 107, "key"),
    Field("preshared_key", 113, "key"), Field("regions", 114, "list"),
    Field("region_id", 105, "integer")>>

(* What a field is when it is left out: an optional key is <<>> as well.    *)
Default(kind) == CASE kind = "integer" -> 0 [] kind = "boolean" -> FALSE
                   [] OTHER -> <<>>
Blank(fields) ==
  [n \in {fields[i].name : i \in DOMAIN fields} |->
     LET i == CHOOSE j \in DOMAIN fields : fields[j].name = n
     IN Default(fields[i].kind)]

WriteMap(fields, r, WriteList(_)) ==
  LET set == SelectSeq(fields, LAMBDA f : r[f.name] # Default(f.kind))
      Entry(f) == WriteText(<<f.key>>) \o
                  IF f.kind = "list"
                  THEN WriteHead(4, Len(r[f.name])) \o WriteList(r[f.name])
                  ELSE Write(f.kind, r[f.name])
  IN WriteHead(5, Len(set)) \o FlattenSeq([i \in DOMAIN set |-> Entry(set[i])])

WriteNode(n) == WriteMap(NodeFields, n, LAMBDA s : <<>>)
WriteRegion(r) ==
  WriteMap(RegionFields, r,
    LAMBDA s : FlattenSeq([i \in DOMAIN s |-> WriteNode(s[i])]))

(* An unknown key is skipped with its value; of a key that comes twice the  *)
(* last value counts, but the elements of both lists; no list has more than *)
(* most elements.                                                           *)
ReadMap(d, p, fields, most, ReadElement(_)) ==
  LET Element(acc, i) ==
        LET Add(e) == [at |-> e.at, val |-> Append(acc.val, e.val)]
        IN Add(ReadElement(acc.at))
      List(h) ==
        FoldLeft(Element, [at |-> IF h.val > most THEN 0 ELSE h.at, val |-> <<>>],
                 Times(d, h.val))
      Value(f, q) == IF f.kind = "list" THEN List(Expect(d, q, 4))
                     ELSE Read(d, f.kind, q)
      Set(r, f, v) ==
        [at |-> v.at, val |-> [r EXCEPT ![f.name] =
                                 IF f.kind = "list" THEN @ \o v.val ELSE v.val]]
      Entry(acc, i) ==
        LET Behind(at, f) == IF f = <<>> THEN [acc EXCEPT !.at = SkipItem(d, at)]
                             ELSE Set(acc.val, f[1], Value(f[1], at))
            Keyed(k) ==
              Behind(k.at, SelectSeq(fields, LAMBDA g : <<g.key>> = k.val))
        IN Keyed(ReadString(d, acc.at, 3))
      Entries(h) ==
        FoldLeft(Entry, [at |-> h.at, val |-> Blank(fields)], Times(d, h.val))
  IN Entries(Expect(d, p, 5))

ReadNode(d, p) == ReadMap(d, p, NodeFields, 0, LAMBDA q : Error)

Inherit(r) ==
  [r EXCEPT !.nodes = [i \in DOMAIN @ |->
     IF @[i].region_id = 0 THEN [@[i] EXCEPT !.region_id = r.region_id]
     ELSE @[i]]]
ReadRegion(d, p) ==
  LET r == ReadMap(d, p, RegionFields, Len(d), LAMBDA q : ReadNode(d, q))
  IN [r EXCEPT !.val = Inherit(@)]

-----------------------------------------------------------------------------
(* encode_tailcat_addr() and parse_tailcat_addr()                           *)
Zeros == [i \in 1..KeySize |-> 0]

WriteInfo(info) ==
  WriteMap(InfoFields, info,
    LAMBDA s : FlattenSeq([i \in DOMAIN s |-> WriteRegion(s[i])]))

EncodeTailcatAddr(info) ==
  IF Zeros \in {info.server_public, info.server_disco_public} THEN {}
  ELSE {Base64urlEncode(WriteInfo(info))}

ParseInfo(d) ==
  LET Checked(end, info) ==
        IF \/ end # Len(d) + 1
           \/ info.server_public \in {<<>>, Zeros}
           \/ info.server_disco_public = Zeros
           \/ info.region_id = 0 /\ info.regions = <<>>
        THEN {}
        ELSE {[info EXCEPT !.region_id =
                 IF @ = 0 THEN info.regions[1].region_id ELSE @]}
      Parsed(r) == Checked(r.at, r.val)
  IN Parsed(ReadMap(d, 1, InfoFields, 1, LAMBDA q : ReadRegion(d, q)))

ParseTailcatAddr(text) == UNION {ParseInfo(d) : d \in Base64urlDecode(text)}
=============================================================================
