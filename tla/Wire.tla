-------------------------------- MODULE Wire --------------------------------
(***************************************************************************)
(* How a serialized transaction is read (src/p2p/tx.ts, binary-reader.ts): *)
(* a reader moves a cursor over the bytes, and each byte that is an enum   *)
(* decides what is read next.  Two slices of the bytes, the post           *)
(* conditions and the arguments of a contract call, are stored as they are *)
(* and read once more when the transaction is asked for                    *)
(* (controllers/db-controller.ts, serializers/post-conditions.ts).         *)
(*                                                                         *)
(* A buffer is a sequence of cells.  The fields keep the order of their    *)
(* widths, not the widths themselves: a u8 takes one cell and a u64 four,  *)
(* which hold digits in base Digit.                                        *)
(***************************************************************************)
EXTENDS Integers, Sequences, SequencesExt

CONSTANTS
  Txs,     \* the transactions the node announces: see Layout
  Digit    \* base of the numbers of more than one cell

ASSUME WireAssumption == Digit \in Nat \ {0, 1}

VARIABLES
  tx,      \* the transaction announced last
  buf,     \* the buffer the reader is over
  pos,     \* reader.readOffset
  from,    \* postConditionIndexStart
  todo,    \* the reads still to be made
  out,     \* what has been read: by which read, and the value as a sequence
  stage,   \* "decode", "stored", the two slices read again, "answered" or "thrown"
  row,     \* what is stored of tx: its type and the two slices
  answer   \* what is answered of them

reader == <<buf, pos, from, todo, out>>
wireVars == <<tx, reader, stage, row, answer>>

NoRow == [typeId |-> 0, conditions |-> <<>>, args |-> <<>>]

NoAnswer == [mode |-> 0, conditions |-> <<>>, codes |-> <<>>, args |-> <<>>]

-----------------------------------------------------------------------------
(* What is sent.  A transaction is a record of
     version, auth (a sequence of spending conditions, the sponsor's second),
     mode and conditions (the post conditions) and payload.
   Its layout is a sequence of fields in the order of the interfaces.  An i64 is
   a u64 as well, which the code reads as a signed number: an amount of STX. *)
Width(type) ==
  CASE type = "u8" -> 1 [] type = "u16" -> 2 [] type = "u32" -> 3 [] type \in {"u64", "i64"} -> 4

(* How many numbers have w digits. *)
Numerals(w) ==
  CASE w = 0 -> 1 [] w = 1 -> Digit [] w = 2 -> Digit * Digit
    [] w = 3 -> Digit * Digit * Digit [] w = 4 -> Digit * Digit * Digit * Digit

BigEndian(n, w) == [k \in 1 .. w |-> (n \div Numerals(w - k)) % Digit]

U64 == Numerals(Width("u64"))

Field(type, value) == [type |-> type, value |-> value]

Num(type, n) == Field(type, <<n>>)

Byte(n) == Num("u8", n)

Address(a) == <<Byte(a[1]), Field("hash", <<a[2], a[2]>>)>>

Name(s) == Field("name", s)

KeyField(f) ==
  <<Byte(f), IF f < 2 THEN Field("publicKey", <<f, 1, 1>>) ELSE Field("signature", <<f, 2, 2, 2, 2>>)>>

SpendingLayout(s) ==
  <<Byte(s.hashMode), Field("hash", <<s.signer, s.signer>>), Num("u64", s.nonce), Num("u64", s.fee)>>
  \o IF s.hashMode \in {0, 2}
     THEN <<Byte(0), Field("signature", <<9, 9, 9, 9, 9>>)>>
     ELSE <<Num("u32", Len(s.keys))>> \o FlattenSeq([k \in DOMAIN s.keys |-> KeyField(s.keys[k])])
          \o <<Num("u16", Len(s.keys))>>

(* Of a post condition (1, 2, 3) or of the recipient of a transfer (5, 6). *)
PrincipalLayout(p) ==
  <<Byte(p.typeId)>> \o (IF p.typeId = 1 THEN <<>> ELSE Address(p.address))
  \o IF p.typeId \in {3, 6} THEN <<Name(p.contractName)>> ELSE <<>>

AssetLayout(a) == Address(a.address) \o <<Name(a.contractName), Name(a.assetName)>>

ConditionLayout(c) ==
  <<Byte(c.assetInfoId)>> \o PrincipalLayout(c.principal)
  \o CASE c.assetInfoId = 0 -> <<Byte(c.code), Num("i64", c.amount)>>
       [] c.assetInfoId = 1 -> AssetLayout(c.asset) \o <<Byte(c.code), Num("u64", c.amount)>>
       [] c.assetInfoId = 2 -> AssetLayout(c.asset) \o <<Field("clarity", c.value), Byte(c.code)>>

ConditionsLayout(cs) ==
  <<Num("u32", Len(cs))>> \o FlattenSeq([k \in DOMAIN cs |-> ConditionLayout(cs[k])])

ArgsLayout(args) ==
  <<Num("u32", Len(args))>> \o [k \in DOMAIN args |-> Field("clarity", args[k])]

PayloadLayout(p) ==
  <<Byte(p.typeId)>>
  \o CASE p.typeId = 0 -> PrincipalLayout(p.recipient) \o <<Num("i64", p.amount), Field("memo", p.memo)>>
       [] p.typeId = 1 -> <<Name(p.name), Field("code", p.codeBody)>>
       [] p.typeId = 2 -> Address(p.address) \o <<Name(p.contractName), Name(p.functionName)>> \o ArgsLayout(p.args)
       [] p.typeId = 3 -> <<Field("header", p.header1), Field("header", p.header2)>>
       [] p.typeId = 4 -> <<Field("coinbase", p.payload)>>
       [] OTHER -> <<>>

Layout(t) ==
  <<Byte(t.version), Num("u32", 1), Byte(IF Len(t.auth) = 2 THEN 5 ELSE 4)>>
  \o FlattenSeq([k \in DOMAIN t.auth |-> SpendingLayout(t.auth[k])])
  \o <<Byte(3), Byte(t.mode)>> \o ConditionsLayout(t.conditions) \o PayloadLayout(t.payload)

Cells(f) ==
  CASE f.type \in {"u16", "u32", "u64", "i64"} -> BigEndian(f.value[1], Width(f.type))
    [] f.type = "name" -> <<Len(f.value)>> \o f.value
    [] f.type = "code" -> BigEndian(Len(f.value), Width("u32")) \o f.value
    [] OTHER -> f.value

Serialized(t) == LET fs == Layout(t) IN FlattenSeq([k \in DOMAIN fs |-> Cells(fs[k])])

Signed(n) == IF n >= U64 \div 2 THEN n - U64 ELSE n

(* The value that is read of a field: the one sent, or its cells as a signed number. *)
Value(f) == IF f.type = "i64" THEN <<Signed(f.value[1])>> ELSE f.value

Values(fs) == [k \in DOMAIN fs |-> Value(fs[k])]

(* The values that the interfaces have room for. *)
IsAddress(a) == a \in Nat \X Nat

IsSpending(s) ==
  /\ s.hashMode \in Nat /\ s.signer \in Nat
  /\ s.nonce \in 0 .. U64 - 1 /\ s.fee \in 0 .. U64 - 1
  /\ s.keys \in Seq(0 .. 3) /\ Len(s.keys) < Numerals(Width("u16"))

IsPrincipal(p, ids) ==
  /\ p.typeId \in ids
  /\ p.typeId # 1 => IsAddress(p.address)
  /\ p.typeId \in {3, 6} => p.contractName \in Seq(Nat)
  /\ "contractName" \in DOMAIN p => p.typeId \in {3, 6}

IsAsset(a) == IsAddress(a.address) /\ a.contractName \in Seq(Nat) /\ a.assetName \in Seq(Nat)

(* A bool is its type, an int has a number after it, a buffer a length and that
   many cells. *)
ClaritySize(cells) ==
  CASE cells[1] \in {3, 4} -> 1 [] cells[1] \in {0, 1} -> 2 [] cells[1] = 2 -> 2 + cells[2]

IsClarity(v) ==
  /\ v \in Seq(Nat) /\ v # <<>> /\ v[1] \in 0 .. 4
  /\ v[1] = 2 => Len(v) > 1
  /\ Len(v) = ClaritySize(v)

IsCondition(c) ==
  /\ IsPrincipal(c.principal, 1 .. 3)
  /\ \/ c.assetInfoId = 0 /\ c.code \in 1 .. 5 /\ c.amount \in 0 .. U64 - 1
     \/ c.assetInfoId = 1 /\ IsAsset(c.asset) /\ c.code \in 1 .. 5 /\ c.amount \in 0 .. U64 - 1
     \/ c.assetInfoId = 2 /\ IsAsset(c.asset) /\ c.code \in {16, 17} /\ IsClarity(c.value)

IsPayload(p) ==
  \/ p.typeId = 0 /\ IsPrincipal(p.recipient, {5, 6}) /\ p.amount \in 0 .. U64 - 1
     /\ p.memo \in Seq(Nat) /\ Len(p.memo) = 2
  \/ p.typeId = 1 /\ p.name \in Seq(Nat)
     /\ p.codeBody \in Seq(Nat) /\ Len(p.codeBody) < Numerals(Width("u32"))
  \/ p.typeId = 2 /\ IsAddress(p.address) /\ p.contractName \in Seq(Nat) /\ p.functionName \in Seq(Nat)
     /\ p.args \in Seq(Seq(Nat)) /\ Len(p.args) < Numerals(Width("u32"))
     /\ \A k \in DOMAIN p.args : IsClarity(p.args[k])
  \/ p.typeId = 3 /\ p.header1 \in Seq(Nat) /\ Len(p.header1) = 4
     /\ p.header2 \in Seq(Nat) /\ Len(p.header2) = 4
  \/ p.typeId = 4 /\ p.payload \in Seq(Nat) /\ Len(p.payload) = 2
  \/ p.typeId \in Nat \ 0 .. 4

IsTx(t) ==
  /\ t.version \in {0, 128} /\ t.mode \in {1, 2}
  /\ Len(t.auth) \in {1, 2} /\ DOMAIN t.auth = 1 .. Len(t.auth) /\ \A k \in DOMAIN t.auth : IsSpending(t.auth[k])
  /\ Len(t.conditions) \in 0 .. Numerals(Width("u32")) - 1
  /\ DOMAIN t.conditions = 1 .. Len(t.conditions) /\ \A k \in DOMAIN t.conditions : IsCondition(t.conditions[k])
  /\ IsPayload(t.payload)

ASSUME TxsAssumption == \A t \in Txs : IsTx(t)

-----------------------------------------------------------------------------
(* What is read.  An enum read is a function from the bytes it knows to the
   reads that follow it. *)
Condition(b) ==
  CASE b = 0 -> <<"principal", "fungibleCode", "i64">>
    [] b = 1 -> <<"principal", "u8", "hash", "name", "name", "fungibleCode", "u64">>
    [] b = 2 -> <<"principal", "u8", "hash", "name", "name", "clarity", "nonfungibleCode">>

Payload(b) ==
  CASE b = 0 -> <<"recipient", "i64", "memo">>
    [] b = 1 -> <<"name", "code">>
    [] b = 2 -> <<"u8", "hash", "name", "name", "args">>
    [] b = 3 -> <<"header", "header">>
    [] b = 4 -> <<"coinbase">>

SpendingCondition_OrderSwapped(b) ==
  <<"u64", "hash", "u64">> \o IF b \in {0, 2} THEN <<"u8", "signature">> ELSE <<"authFields", "u16">>

SpendingCondition(b) ==
  <<"hash", "u64", "u64">> \o IF b \in {0, 2} THEN <<"u8", "signature">> ELSE <<"authFields", "u16">>

Enum(read) ==
  CASE read = "version" -> [b \in {0, 128} |-> <<>>]
    [] read = "authType" -> [b \in {4, 5} |-> IF b = 4 THEN <<"hashMode">> ELSE <<"hashMode", "hashMode">>]
    [] read = "hashMode" -> [b \in 0 .. 3 |-> SpendingCondition(b)]
    [] read = "authField" -> [b \in 0 .. 3 |-> IF b < 2 THEN <<"publicKey">> ELSE <<"signature">>]
    [] read = "anchorMode" -> [b \in 1 .. 3 |-> <<>>]
    [] read = "mode" -> [b \in {1, 2} |-> <<>>]
    [] read = "condition" -> [b \in 0 .. 2 |-> Condition(b)]
    [] read = "principal" -> [b \in 1 .. 3 |-> SubSeq(<<"u8", "hash", "name">>, 1, IF b = 1 THEN 0 ELSE b)]
    [] read = "fungibleCode" -> [b \in 1 .. 5 |-> <<>>]
    [] read = "nonfungibleCode" -> [b \in {16, 17} |-> <<>>]
    [] read = "payload" -> [b \in 0 .. 4 |-> Payload(b)]
    [] read = "recipient" -> [b \in {5, 6} |-> SubSeq(<<"u8", "hash", "name">>, 1, b - 3)]

Enums == {"version", "authType", "hashMode", "authField", "anchorMode", "mode", "condition",
          "principal", "fungibleCode", "nonfungibleCode", "payload", "recipient"}

Numbers == {"u8", "u16", "u32", "u64", "i64"}

BufferWidth == [hash |-> 2, publicKey |-> 3, signature |-> 5, memo |-> 2, header |-> 4, coinbase |-> 2]

(* What each count is a count of. *)
Repeated == [authFields |-> "authField", conditions |-> "condition"]

ReadTransaction ==
  <<"version", "u32", "authType", "anchorMode", "mode", "conditions", "payload">>

-----------------------------------------------------------------------------
Next1 == Head(todo)

Ahead(n) == SubSeq(buf, pos + 1, pos + n)

Left == Len(buf) - pos

Reading == stage \in {"decode", "conditions", "args"} /\ todo # <<>>

(* n cells are read as the values, and the reads then come next. *)
Take(n, values, then) ==
  /\ pos' = pos + n
  /\ out' = out \o [k \in DOMAIN values |-> [read |-> Next1, value |-> values[k]]]
  /\ todo' = then \o Tail(todo)
  /\ UNCHANGED buf

Throw == stage' = "thrown" /\ UNCHANGED <<reader, row, answer>>

Number(cells) ==
  LET n[k \in 0 .. Len(cells)] == IF k = 0 THEN 0 ELSE n[k - 1] * Digit + cells[k]
  IN  n[Len(cells)]

RawPostConditions_Conditions == SubSeq(buf, from + 2, pos)

(* The copy that starts with the mode and ends before the payload. *)
RawPostConditions == SubSeq(buf, from + 1, pos)

ReadUInt8Enum ==
  /\ Reading
  /\ Next1 \in Enums
  /\ IF Left > 0 /\ buf[pos + 1] \in DOMAIN Enum(Next1)
     THEN LET b == buf[pos + 1] IN
          /\ Take(1, << <<b>> >>, Enum(Next1)[b])
          /\ from' = IF Next1 = "mode" THEN pos ELSE from
          /\ row' = IF Next1 = "payload"
                    THEN [typeId |-> b, conditions |-> RawPostConditions, args |-> <<>>] ELSE row
          /\ UNCHANGED <<stage, answer>>
     ELSE Throw
  /\ UNCHANGED tx

ReadNumber ==
  /\ Reading
  /\ Next1 \in Numbers
  /\ LET w == Width(Next1)
         n == IF w = 1 THEN buf[pos + 1] ELSE Number(Ahead(w))
     IN  IF w > Left THEN Throw
         ELSE Take(w, << <<IF Next1 = "i64" THEN Signed(n) ELSE n>> >>, <<>>) /\ UNCHANGED <<from, stage, row, answer>>
  /\ UNCHANGED tx

(* A buffer or a string is what is left where less is left. *)
ReadBuffer ==
  /\ Reading
  /\ Next1 \in DOMAIN BufferWidth
  /\ LET n == IF BufferWidth[Next1] > Left THEN Left ELSE BufferWidth[Next1]
     IN  Take(n, <<Ahead(n)>>, <<>>)
  /\ UNCHANGED <<tx, from, stage, row, answer>>

ReadString ==
  /\ Reading
  /\ Next1 \in {"name", "code"}
  /\ LET w == IF Next1 = "name" THEN 1 ELSE Width("u32")
         n == IF w = 1 THEN buf[pos + 1] ELSE Number(Ahead(w))
         m == IF n > Left - w THEN Left - w ELSE n
     IN  IF w > Left THEN Throw
         ELSE /\ Take(w + m, <<SubSeq(buf, pos + w + 1, pos + w + m)>>, <<>>)
              /\ UNCHANGED <<from, stage, row, answer>>
  /\ UNCHANGED tx

(* The count of a list whose items are read one by one. *)
ReadCount ==
  /\ Reading
  /\ Next1 \in DOMAIN Repeated
  /\ LET w == Width("u32") IN
     IF w > Left THEN Throw
     ELSE LET n == Number(Ahead(w)) IN
          /\ Take(w, << <<n>> >>, [k \in 1 .. n |-> Repeated[Next1]])
          /\ UNCHANGED <<from, stage, row, answer>>
  /\ UNCHANGED tx

(* deserializeCV: n values from the cells, read by a reader of their own. *)
ClarityValues(cells, n) ==
  LET at[k \in 0 .. n] ==
        IF k = 0 THEN 0
        ELSE LET i == at[k - 1] IN i + ClaritySize(SubSeq(cells, i + 1, Len(cells)))
  IN  [at |-> at[n], values |-> [k \in 1 .. n |-> SubSeq(cells, at[k - 1] + 1, at[k])]]

Rest(k) == SubSeq(buf, k + 1, Len(buf))

ReadClarityValue ==
  /\ Reading
  /\ Next1 = "clarity"
  /\ LET r == ClarityValues(Rest(pos), 1) IN Take(r.at, r.values, <<>>)
  /\ UNCHANGED <<tx, from, stage, row, answer>>

(* The copy with the count; none when there are no arguments. *)
RawFunctionArgs(w, r) == IF r.values = <<>> THEN <<>> ELSE SubSeq(buf, pos + 1, pos + w + r.at)

ReadClarityValueArray ==
  /\ Reading
  /\ Next1 = "args"
  /\ LET w == Width("u32")
         n == Number(Ahead(w))
         r == ClarityValues(Rest(pos + w), n)
     IN  /\ Take(w + r.at, << <<n>> >> \o r.values, <<>>)
         /\ row' = IF stage = "decode" THEN [row EXCEPT !.args = RawFunctionArgs(w, r)] ELSE row
  /\ UNCHANGED <<tx, from, stage, answer>>

-----------------------------------------------------------------------------
Over(cells, reads) == buf' = cells /\ pos' = 0 /\ from' = 0 /\ todo' = reads /\ out' = <<>>

WireInit ==
  /\ tx \in Txs
  /\ buf = Serialized(tx) /\ pos = 0 /\ from = 0 /\ todo = ReadTransaction /\ out = <<>>
  /\ stage = "decode" /\ row = NoRow /\ answer = NoAnswer

Store ==
  /\ stage = "decode" /\ todo = <<>>
  /\ stage' = "stored"
  /\ UNCHANGED <<tx, reader, row, answer>>

(* getTxFromDataStore: the post conditions of a deploy and of a call. *)
GetTx ==
  /\ stage = "stored"
  /\ answer' = [answer EXCEPT !.mode = Head(row.conditions)]
  /\ IF row.typeId \in {1, 2}
     THEN stage' = "conditions" /\ Over(Tail(row.conditions), <<"conditions">>)
     ELSE stage' = "answered" /\ UNCHANGED reader
  /\ UNCHANGED <<tx, row>>

FungibleConditionCodeMap ==
  <<"sent_equal_to", "sent_greater_than_or_equal_to", "sent_greater_than",
    "sent_less_than_or_equal_to", "sent_less_than">>

ReadValues(rs) == [k \in DOMAIN rs |-> rs[k].value]

SerializePostConditions ==
  /\ stage = "conditions" /\ todo = <<>>
  /\ LET codes == SelectSeq(out, LAMBDA r : r.read = "fungibleCode") IN
     answer' = [answer EXCEPT
       !.conditions = ReadValues(out),
       !.codes = [k \in DOMAIN codes |-> FungibleConditionCodeMap[codes[k].value[1]]]]
  /\ IF row.args # <<>>
     THEN stage' = "args" /\ Over(row.args, <<"args">>)
     ELSE stage' = "answered" /\ UNCHANGED reader
  /\ UNCHANGED <<tx, row>>

SerializeArgs ==
  /\ stage = "args" /\ todo = <<>>
  /\ answer' = [answer EXCEPT !.args = ReadValues(out)]
  /\ stage' = "answered"
  /\ UNCHANGED <<tx, reader, row>>

WireNext ==
  \/ ReadUInt8Enum \/ ReadNumber \/ ReadBuffer \/ ReadString \/ ReadCount
  \/ ReadClarityValue \/ ReadClarityValueArray
  \/ Store \/ GetTx \/ SerializePostConditions \/ SerializeArgs

WireSpec == WireInit /\ [][WireNext]_wireVars

-----------------------------------------------------------------------------
Known(t) == t.payload.typeId \in 0 .. 4 /\ \A k \in DOMAIN t.auth : t.auth[k].hashMode \in 0 .. 3

(* A transaction is stored with the values it was sent with, each read by the
   width it was written with, and the reader has come to the end of it; exactly
   those with a type byte that no enum has are refused.  A field read at a wrong
   width makes the reader take the bytes of one field for the enum of another.
   One kind of value does not come back as it was sent: an amount of STX of 2^63
   or more is the negative number of the same bytes (Value, tx.ts:376 and 495).
   tx.ts:277-621, binary-reader.ts:18-29. *)
DecodedAsSent ==
  /\ stage = "stored" => Known(tx) /\ ReadValues(out) = Values(Layout(tx)) /\ pos = Len(buf)
  /\ stage = "thrown" => ~Known(tx)

(* The slices that are stored as they are, read again on their own, give the
   mode, the post conditions and the arguments that were sent, but for the sign
   of an amount of STX, as above.
   tx.ts:322-332, 399-405, db-controller.ts:273-276, 416-443. *)
AnsweredAsSent ==
  stage = "answered" =>
    /\ answer.mode = tx.mode
    /\ tx.payload.typeId \in {1, 2} => answer.conditions = Values(ConditionsLayout(tx.conditions))
    /\ tx.payload.typeId = 2 /\ tx.payload.args # <<>> =>
         answer.args = Values(ArgsLayout(tx.payload.args))

=============================================================================
