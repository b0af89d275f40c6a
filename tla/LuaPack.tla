------------------------------ MODULE LuaPack ------------------------------
(***************************************************************************)
(* The binary pack helper that pktizr exposes to scripts                   *)
(* (src/deps/lua-pack/lpack.c, a port of Lua 5.3's string.pack/unpack):    *)
(* the format interpreter (getoption, getdetails), the integer codec       *)
(* (packint, unpackint) and the loops of str_pack and str_unpack, one      *)
(* format item per step.                                                   *)
(*                                                                         *)
(* The platform is scaled down: a char has NB bits and a lua_Integer, like *)
(* size_t on an LP64 machine, SZINT chars, so every width and every wrap   *)
(* of the code keeps its shape at sizes TLC can enumerate. A format is a   *)
(* sequence of items [c, n]: the option character and its numeral (NoNum   *)
(* when no digit follows). Floats ('f', 'd', 'n') and the fixed sizes of   *)
(* 'h', 'H', 'l', 'L' are left out; 'i<n>'/'I<n>' stand for them. A Lua    *)
(* value is [t |-> "int", v |-> n] or [t |-> "str", v |-> <<bytes>>].     *)
(***************************************************************************)
EXTENDS Integers, Sequences, SequencesExt, Bitwise

CONSTANTS
  NB,          \* CHAR_BIT
  SZINT,       \* sizeof(lua_Integer) in chars (also sizeof(size_t))
  IntSize,     \* sizeof(int), the default size of 'i' and 'I'
  MAXINTSIZE,  \* the largest size of an integer option
  NativeLittle, \* nativeendian.little
  Formats,     \* the format strings scripts pass
  IntVals,     \* the integers a script may pass to pack
  StrVals,     \* the strings a script may pass to pack
  Recv,        \* the data strings unpack may be given (e.g. captured frames)
  Inits        \* the initial positions unpack may be given

ASSUME NB \in Nat \ {0} /\ SZINT \in Nat \ {0} /\ IntSize \in 1..SZINT
       /\ MAXINTSIZE \in Nat /\ MAXINTSIZE > SZINT /\ NativeLittle \in BOOLEAN

MC == 2^NB - 1                 \* mask for one character
W == NB * SZINT                \* bits of lua_Integer, lua_Unsigned and size_t
SizeT == SZINT                 \* sizeof(size_t)
MAXALIGN == SZINT              \* offsetof(struct cD, u)
Byte == 0..MC
LuaInt == -(2^(W-1))..2^(W-1) - 1

\* A lua_Unsigned reinterpreted as a lua_Integer.
Signed(u) == IF u >= 2^(W-1) THEN u - 2^W ELSE u
Lesser(a, b) == IF a < b THEN a ELSE b

-----------------------------------------------------------------------------
(* Reading the format: getnum, getnumlimit, getoption, getdetails *)

\* A numeral is a natural number; NoNum marks an item with no digits after it.
NoNum == -1

GetNum(t, df) == IF t.n = NoNum THEN df ELSE t.n

\* Mutant: getnumlimit's lower bound is not tested.
NumOverMaxOnly(t, df) == GetNum(t, df) > MAXINTSIZE

\* getnumlimit: the size must lie in [1, MAXINTSIZE].
NumOutOfLimits(t, df) == GetNum(t, df) > MAXINTSIZE \/ GetNum(t, df) <= 0

\* The options of a fixed size: <<kind, size>>.
FixedOpts == [b |-> <<"Kint", 1>>, B |-> <<"Kuint", 1>>, j |-> <<"Kint", SZINT>>,
              J |-> <<"Kuint", SZINT>>, T |-> <<"Kuint", SizeT>>, x |-> <<"Kpadding", 1>>]

\* The header h = [little, maxalign] after initheader.
InitHeader == [little |-> NativeLittle, maxalign |-> 1]

Opt(k, s, h) == [opt |-> k, size |-> s, h |-> h, err |-> FALSE]
OptErr(h) == [opt |-> "Knop", size |-> 0, h |-> h, err |-> TRUE]

\* getoption: classify the item t, its size, and the header it leaves;
\* err is a luaL_error (size out of limits, 'c' without a size, an
\* invalid option character).
GetOption(h, t) ==
  CASE t.c \in DOMAIN FixedOpts -> Opt(FixedOpts[t.c][1], FixedOpts[t.c][2], h)
    [] t.c \in {"i", "I"} ->
         IF NumOutOfLimits(t, IntSize) THEN OptErr(h)
         ELSE Opt(IF t.c = "i" THEN "Kint" ELSE "Kuint", GetNum(t, IntSize), h)
    [] t.c = "s" ->
         IF NumOutOfLimits(t, SizeT) THEN OptErr(h) ELSE Opt("Kstring", GetNum(t, SizeT), h)
    [] t.c = "c" -> IF t.n = NoNum THEN OptErr(h) ELSE Opt("Kchar", t.n, h)
    [] t.c = "z" -> Opt("Kzstr", 0, h)
    [] t.c = "X" -> Opt("Kpaddalign", 0, h)
    [] t.c = " " -> Opt("Knop", 0, h)
    [] t.c = "<" -> Opt("Knop", 0, [h EXCEPT !.little = TRUE])
    [] t.c = ">" -> Opt("Knop", 0, [h EXCEPT !.little = FALSE])
    [] t.c = "=" -> Opt("Knop", 0, [h EXCEPT !.little = NativeLittle])
    [] t.c = "!" ->
         IF NumOutOfLimits(t, MAXALIGN) THEN OptErr(h)
         ELSE Opt("Knop", 0, [h EXCEPT !.maxalign = GetNum(t, MAXALIGN)])
    [] OTHER -> OptErr(h)

IsPow2(a) == (a & (a - 1)) = 0

\* getdetails: the next option of fmt at offset total, the padding that
\* aligns it, and the rest of the format. 'X' takes its alignment from the
\* option after it, which it consumes.
GetDetails(h, total, fmt) ==
  LET o == GetOption(h, Head(fmt))
      isX == o.opt = "Kpaddalign"
      x == IF isX /\ Len(fmt) > 1 THEN GetOption(o.h, fmt[2]) ELSE o
      badX == isX /\ (Len(fmt) = 1 \/ x.err \/ x.opt = "Kchar" \/ x.size = 0)
      align0 == IF isX THEN x.size ELSE o.size
      aligned == ~(align0 <= 1 \/ o.opt = "Kchar")
      align == Lesser(align0, x.h.maxalign)
  IN [opt |-> o.opt, size |-> o.size, h |-> x.h,
      rest |-> SubSeq(fmt, IF isX THEN 3 ELSE 2, Len(fmt)),
      err |-> o.err \/ badX \/ (aligned /\ ~IsPow2(align)),
      ntoalign |-> IF aligned THEN (align - (total & (align - 1))) & (align - 1) ELSE 0]

-----------------------------------------------------------------------------
(* The integer codec *)

\* packint: the size bytes of the lua_Unsigned u, least significant first
\* when little; a negative value wider than lua_Integer gets MC bytes.
PackInt(u, little, size, neg) ==
  LET b(i) == IF neg /\ size > SZINT /\ i >= SZINT THEN MC
              ELSE (u \div 2^(NB * i)) % 2^NB
  IN [k \in 1..size |-> b(IF little THEN k - 1 ELSE size - k)]

\* Mutant: narrow signed integers are not sign-extended.
UnpackIntNoSignExt(str, little, size, issigned) ==
  LET b(i) == str[1 + (IF little THEN i ELSE size - 1 - i)]
      limit == Lesser(size, SZINT)
      res == FoldLeft(LAMBDA acc, i : acc * 2^NB + b(i), 0, [k \in 1..limit |-> limit - k])
      ext == IF ~issigned \/ Signed(res) >= 0 THEN 0 ELSE MC
  IN [val |-> Signed(res),
      err |-> size > SZINT /\ \E i \in limit..size - 1 : b(i) # ext]

\* unpackint: the lua_Integer in the size bytes of str; err when the bytes
\* past lua_Integer's width are not a sign or zero extension.
UnpackInt(str, little, size, issigned) ==
  LET b(i) == str[1 + (IF little THEN i ELSE size - 1 - i)]
      limit == Lesser(size, SZINT)
      raw == FoldLeft(LAMBDA acc, i : acc * 2^NB + b(i), 0, [k \in 1..limit |-> limit - k])
      mask == 2^(size * NB - 1)
      res == IF size < SZINT /\ issigned THEN ((raw ^^ mask) - mask) % 2^W ELSE raw
      ext == IF ~issigned \/ Signed(res) >= 0 THEN 0 ELSE MC
  IN [val |-> Signed(res),
      err |-> size > SZINT /\ \E i \in limit..size - 1 : b(i) # ext]

-----------------------------------------------------------------------------
(* str_pack *)

IntV(n) == [t |-> "int", v |-> n]
StrV(b) == [t |-> "str", v |-> b]
NoArg == [t |-> "none", v |-> 0]   \* an argument the script did not pass
Zeros(n) == [k \in 1..n |-> 0]

\* The options that take an argument, and what a script may pass for one:
\* a value of the right type, or none (luaL_check* raises an error).
DataOpts == {"Kint", "Kuint", "Kchar", "Kstring", "Kzstr"}
ArgsFor(opt) == IF opt \in {"Kint", "Kuint"} THEN {IntV(n) : n \in IntVals} \cup {NoArg}
                ELSE {StrV(b) : b \in StrVals} \cup {NoArg}

\* The overflow checks of the integer options narrower than lua_Integer.
\* Mutant: the signed overflow check admits lim itself.
KintFitsOffByOne(n, size) ==
  size >= SZINT \/ (-(2^(size * NB - 1)) <= n /\ n <= 2^(size * NB - 1))
KintFits(n, size) ==
  size >= SZINT \/ (-(2^(size * NB - 1)) <= n /\ n < 2^(size * NB - 1))
KuintFits(n, size) == size >= SZINT \/ n % 2^W < 2^(size * NB)

\* One case of str_pack's switch for argument v: whether its check passes,
\* the bytes it adds, and what it adds to totalsize besides the size.
PackCase(opt, size, little, v) ==
  CASE opt = "Kint" ->
         [ok |-> KintFits(v.v, size), extra |-> 0,
          bytes |-> PackInt(v.v % 2^W, little, size, v.v < 0)]
    [] opt = "Kuint" ->
         [ok |-> KuintFits(v.v, size), extra |-> 0,
          bytes |-> PackInt(v.v % 2^W, little, size, FALSE)]
    [] opt = "Kchar" -> [ok |-> Len(v.v) = size, extra |-> 0, bytes |-> v.v]
    [] opt = "Kstring" ->
         [ok |-> size >= SizeT \/ Len(v.v) < 2^(size * NB), extra |-> Len(v.v),
          bytes |-> PackInt(Len(v.v), little, size, FALSE) \o v.v]
    [] opt = "Kzstr" ->
         [ok |-> \A k \in 1..Len(v.v) : v.v[k] # 0, extra |-> Len(v.v) + 1,
          bytes |-> v.v \o <<0>>]
    [] opt = "Kpadding" -> [ok |-> TRUE, extra |-> 0, bytes |-> <<0>>]
    [] OTHER -> [ok |-> TRUE, extra |-> 0, bytes |-> <<>>]

VARIABLES
  script,     \* "roundtrip": unpack(fmt, pack(fmt, ...)); "received": unpack(fmt, data)
  phase,      \* "pack", "packed", "received", "unpack", "done", or the
              \* luaL_error that ends the call: "pack_error", "unpack_error"
  format,     \* the format string
  rest,       \* what the loop has not read of it
  h,          \* the Header
  args,       \* the arguments str_pack has taken
  totalsize,  \* str_pack's totalsize
  data,       \* str_pack's buffer, then unpack's data string
  pos,        \* str_unpack's pos
  results,    \* the values str_unpack has pushed
  overread    \* str_unpack passed lua_pushlstring bytes past the data string

vars == <<script, phase, format, rest, h, args, totalsize, data, pos, results, overread>>

Init ==
  /\ format \in Formats
  /\ rest = format
  /\ h = InitHeader
  /\ args = <<>> /\ totalsize = 0 /\ pos = 0 /\ results = <<>> /\ overread = FALSE
  /\ \/ script = "roundtrip" /\ phase = "pack" /\ data = <<>>
     \/ script = "received" /\ phase = "received" /\ data \in Recv

\* One iteration of str_pack's loop: getdetails, the alignment padding,
\* then the option's case with its argument check.
PackItem ==
  /\ phase = "pack" /\ rest # <<>>
  /\ LET d == GetDetails(h, totalsize, rest) IN
     IF d.err THEN phase' = "pack_error" /\ UNCHANGED <<args, totalsize, data, h, rest>>
     ELSE \E v \in IF d.opt \in DataOpts THEN ArgsFor(d.opt) ELSE {NoArg} :
       LET c == PackCase(d.opt, d.size, d.h.little, v) IN
       IF d.opt \in DataOpts /\ (v = NoArg \/ ~c.ok)
       THEN phase' = "pack_error" /\ UNCHANGED <<args, totalsize, data, h, rest>>
       ELSE /\ data' = data \o Zeros(d.ntoalign) \o c.bytes
            /\ totalsize' = totalsize + d.ntoalign + d.size + c.extra
            /\ args' = IF d.opt \in DataOpts THEN Append(args, v) ELSE args
            /\ h' = d.h /\ rest' = d.rest
            /\ UNCHANGED phase
  /\ UNCHANGED <<script, format, pos, results, overread>>

\* The format is exhausted: luaL_pushresult returns the packed string.
PackEnd ==
  /\ phase = "pack" /\ rest = <<>>
  /\ phase' = "packed"
  /\ UNCHANGED <<script, format, rest, h, args, totalsize, data, pos, results, overread>>

-----------------------------------------------------------------------------
(* str_unpack *)

\* posrelat: a negative position counts back from the end of the string.
PosRelat(p, len) ==
  IF p >= 0 THEN p ELSE IF -p > len THEN 0 ELSE len + p + 1

\* str_unpack's start: the initial position (1 after pack, as the script
\* passes none) made a size_t offset and checked, and initheader.
UnpackStart ==
  /\ phase \in {"packed", "received"}
  /\ \E init \in IF phase = "packed" THEN {1} ELSE Inits :
       LET p0 == (PosRelat(init, Len(data)) - 1) % 2^W
       IN  /\ phase' = IF p0 <= Len(data) THEN "unpack" ELSE "unpack_error"
           /\ pos' = p0
  /\ h' = InitHeader /\ rest' = format /\ results' = <<>>
  /\ UNCHANGED <<script, format, args, totalsize, data, overread>>

\* Length of the zero-terminated string at offset p: the string's own
\* terminating '\0' ends strlen at the end of the data.
ZLen(p) ==
  LET mem == data \o <<0>>
  IN  (CHOOSE k \in p + 1..Len(mem) : mem[k] = 0 /\ \A j \in p + 1..k - 1 : mem[j] # 0) - (p + 1)

\* luaL_argerror/luaL_error: the call ends with an error.
UnpackFail == phase' = "unpack_error" /\ UNCHANGED <<h, rest, pos, results, overread>>

\* lua_pushlstring/lua_pushinteger of v, and the position after the item.
UnpackPush(d, v, np) ==
  /\ results' = Append(results, v) /\ pos' = np % 2^W
  /\ h' = d.h /\ rest' = d.rest /\ UNCHANGED phase

\* case Kstring: the length prefix u, the size_t bounds check of its end,
\* and the string pushed from past the prefix.
UnpackString(d, p, u) ==
  LET end == p + d.size + (u.val % 2^W) IN
  IF u.err \/ end % 2^W > Len(data) THEN UnpackFail
  ELSE /\ UnpackPush(d, StrV(SubSeq(data, p + d.size + 1, Lesser(end, Len(data)))), end)
       /\ overread' = (overread \/ end > Len(data))

\* The switch of str_unpack for option d at the aligned offset p, where u
\* is unpackint of the size chars there.
UnpackCase(d, p, u) ==
  CASE d.opt \in {"Kint", "Kuint"} ->
         IF u.err THEN UnpackFail ELSE UnpackPush(d, IntV(u.val), p + d.size) /\ UNCHANGED overread
    [] d.opt = "Kchar" ->
         UnpackPush(d, StrV(SubSeq(data, p + 1, p + d.size)), p + d.size) /\ UNCHANGED overread
    [] d.opt = "Kstring" -> UnpackString(d, p, u)
    [] d.opt = "Kzstr" ->
         UnpackPush(d, StrV(SubSeq(data, p + 1, p + ZLen(p))), p + ZLen(p) + 1) /\ UNCHANGED overread
    [] OTHER -> /\ pos' = p + d.size /\ h' = d.h /\ rest' = d.rest
                /\ UNCHANGED <<phase, results, overread>>

\* One iteration of str_unpack's loop for option d: the bounds check in
\* size_t, the alignment skipped, then the option's case.
UnpackStep(d) ==
  IF \/ d.err
     \/ d.ntoalign + d.size > 2^W - 1 - pos
     \/ (pos + d.ntoalign + d.size) % 2^W > Len(data)
  THEN UnpackFail
  ELSE LET p == pos + d.ntoalign IN
       UnpackCase(d, p, UnpackInt(SubSeq(data, p + 1, p + d.size), d.h.little, d.size, d.opt = "Kint"))

UnpackItem ==
  /\ phase = "unpack" /\ rest # <<>>
  /\ UnpackStep(GetDetails(h, pos, rest))
  /\ UNCHANGED <<script, format, args, totalsize, data>>

\* The format is exhausted: the values and the next position are returned.
UnpackEnd ==
  /\ phase = "unpack" /\ rest = <<>>
  /\ phase' = "done"
  /\ UNCHANGED <<script, format, rest, h, args, totalsize, data, pos, results, overread>>

Next == PackItem \/ PackEnd \/ UnpackStart \/ UnpackItem \/ UnpackEnd

\* A script's call returns a result or an error, and then nothing is left.
Spec == Init /\ [][Next]_vars

-----------------------------------------------------------------------------
(* Properties *)

TypeOK ==
  /\ script \in {"roundtrip", "received"}
  /\ phase \in {"pack", "packed", "received", "unpack", "done", "pack_error", "unpack_error"}
  /\ format \in Formats /\ IsSuffix(rest, format)
  /\ h \in [little : BOOLEAN, maxalign : 1..MAXINTSIZE]
  /\ totalsize \in Nat /\ pos \in 0..2^W - 1
  /\ data \in Seq(Byte) /\ overread \in BOOLEAN

(* Two's-complement reference encoding of the integer n in size chars. *)
RefEncode(n, size, little) ==
  LET v == n % 2^(NB * size)
  IN  [k \in 1..size |-> (v \div 2^(NB * (IF little THEN k - 1 ELSE size - k))) % 2^NB]

(* Reference decoding: the value of the chars, whether it is a lua_Integer. *)
RefDecode(str, little, issigned) ==
  LET size == Len(str)
      v == FoldLeft(LAMBDA acc, k : acc + str[k] * 2^(NB * (IF little THEN k - 1 ELSE size - k)),
                    0, [k \in 1..size |-> k])
      sv == IF issigned /\ v >= 2^(NB * size - 1) THEN v - 2^(NB * size) ELSE v
  IN  [fits |-> IF issigned THEN sv \in LuaInt ELSE v < 2^W, val |-> Signed(sv % 2^W)]

\* packint and unpackint compared with the reference in one byte order.
CodecAgrees(little) ==
  \A size \in 1..MAXINTSIZE, issigned \in BOOLEAN :
    /\ \A n \in LuaInt :
         PackInt(n % 2^W, little, size, issigned /\ n < 0)
           = RefEncode(IF issigned THEN n ELSE n % 2^W, size, little)
    /\ \A str \in [1..size -> Byte] :
         LET u == UnpackInt(str, little, size, issigned)
             r == RefDecode(str, little, issigned)
         IN  u.err = ~r.fits /\ (r.fits => u.val = r.val)

\* The comparison for each byte order, computed once.
CodecTable == [little \in BOOLEAN |-> CodecAgrees(little)]

(* In the byte order the current header selects (both are reached, by    *)
(* '<' and '>'), packint writes the two's-complement (signed options) or   *)
(* plain binary (unsigned) encoding of every lua_Integer in every size,   *)
(* including the sign extension past lua_Integer's width; unpackint reads *)
(* back the value of every byte string, sign-extending narrow signed ones, *)
(* and raises its "does not fit" error exactly when the value is not a    *)
(* lua_Integer.                                                            *)
IntCodecMatchesReference == CodecTable[h.little]

(* unpack inverts pack: unpacking with the same format a string that      *)
(* str_pack produced never fails, returns exactly the arguments pack took, *)
(* and ends at the end of the string. It needs str_pack's totalsize and    *)
(* str_unpack's pos to align every item alike (padding, 'X', '!', strings *)
(* of any length), and pack's overflow checks to refuse what would not    *)
(* read back.                                                              *)
PackUnpackRoundTrip ==
  script = "roundtrip" =>
    /\ phase # "unpack_error"
    /\ phase = "unpack" => IsPrefix(results, args)
    /\ phase = "done" => results = args /\ pos = Len(data)

(* str_unpack only hands lua_pushlstring ranges inside the data string it  *)
(* was given, whatever the data: its own check at lpack.c:443 ("data       *)
(* string too short") is there to refuse a length that runs past the end.  *)
UnpackWithinData == ~overread

====
