------------------------------- MODULE OZWire -------------------------------
(***************************************************************************)
(* What the three services and their clients send each other: the structs  *)
(* that Thrift generated from ozstore.thrift, for C++ and for Python, in   *)
(* the binary protocol.  A stream is a sequence of tokens: the header of a *)
(* message, the header of a field, a value, the end of a struct.  A token  *)
(* is read in one piece; values are abstract, but for the two that nobody  *)
(* sent: what a field has that was not set, and what comes of misreading.  *)
(***************************************************************************)
EXTENDS Integers, Sequences, SequencesExt

Default == -1           \* "", the empty list, 0: a field that was not set
Junk    == 0            \* bytes of the next message, taken for a value

MessageBegin(mtype, name, n) == [t |-> "begin", mtype |-> mtype, name |-> name, n |-> n]
FieldBegin(f) == [t |-> "field", id |-> f.id, type |-> f.type]
Value(v)      == [t |-> "value", v |-> v]
Length        == [t |-> "length"]       \* a string's length, its bytes missing
Elements      == [t |-> "elements"]     \* a list's count and a part of its strings
FieldStop     == [t |-> "stop"]

-----------------------------------------------------------------------------
(* The structs: their fields in the order they are written. *)

Field(id, type) == [id |-> id, type |-> type]

OZException     == <<Field(1, "string")>>
TravPair        == <<Field(1, "string"), Field(2, "string"), Field(3, "i32")>>
put_args        == <<Field(1, "string")>>
put_result      == <<Field(1, "struct")>>
puts_args       == <<Field(1, "list")>>
puts_result     == <<Field(1, "struct")>>
get_args        == <<Field(1, "string")>>
get_result      == <<Field(0, "string"), Field(1, "struct")>>
gets_args       == <<Field(1, "list")>>
gets_result     == <<Field(0, "list"), Field(1, "struct")>>
next_kv_args    == <<Field(1, "i32")>>
next_kv_result  == <<Field(0, "struct")>>

\* The same as Python has them.
py_OZException    == <<Field(1, "string")>>
py_TravPair       == <<Field(1, "string"), Field(2, "string"), Field(3, "i32")>>
py_put_args       == <<Field(1, "string")>>
py_put_result     == <<Field(1, "struct")>>
py_puts_args      == <<Field(1, "list")>>
py_puts_result    == <<Field(1, "struct")>>
py_get_args       == <<Field(1, "string")>>
py_get_result     == <<Field(0, "string"), Field(1, "struct")>>
py_gets_args      == <<Field(1, "list")>>
py_gets_result    == <<Field(0, "list"), Field(1, "struct")>>
py_next_kv_args   == <<Field(1, "i32")>>
py_next_kv_result == <<Field(0, "struct")>>

\* Thrift's own exception.
TApplicationException == <<Field(1, "string"), Field(2, "i32")>>

-----------------------------------------------------------------------------
(* Writing.  A struct's content is a function from the ids that are set. *)

WriteFields(s, ids, set) ==
  FlattenSeq([j \in DOMAIN s |->
    IF s[j].id \in ids
    THEN <<FieldBegin(s[j]), Value(IF s[j].id \in DOMAIN set THEN set[s[j].id] ELSE Default)>>
    ELSE << >>]) \o <<FieldStop>>

Ids(s) == {s[j].id : j \in DOMAIN s}

\* C++ writes every field of a struct, Python those that are not None.
WriteAll(s, set)    == WriteFields(s, Ids(s), set)
WriteNotNone(s, set) == WriteFields(s, DOMAIN set, set)

\* Of a result C++ writes the success if it is set, else the exception.
WriteResult(s, set) ==
  WriteFields(s, IF 0 \in DOMAIN set THEN {0} ELSE DOMAIN set, set)

-----------------------------------------------------------------------------
(* Reading. *)

\* Fields and values alternate until the stop: where the reading of a struct
\* stops, at its end or at what it does not expect.
Turn(ts, j) == ts[j].t \notin IF j % 2 = 1 THEN {"field"} ELSE {"value"}
Turns(ts)   == {e \in DOMAIN ts : Turn(ts, e) /\ \A j \in 1..(e - 1) : ~Turn(ts, j)}

\* The fields of s among the tokens before e; of others, and of fields with a
\* type they do not have, the value is skipped.
Content(s, ts, e) ==
  LET places == {j \in 1..(e - 1) : \E f \in Range(s) : ts[j] = FieldBegin(f)}
      Val(id) == {ts[j + 1] : j \in {j \in places : ts[j].id = id}}
  IN  [id \in {ts[j].id : j \in places} |->
         CHOOSE v \in {IF x.t = "value" THEN x.v ELSE Junk : x \in Val(id)} : TRUE]

\* How it ends at e, what has been read, and how many tokens are used:
\*   "ok"     it is the end of the struct
\*   "closed" a string's length, or that of a list's next string, is negative:
\*            a message begins with 0x80010001
\*   "deaf"   a list's count is some 16 million, and the first string longer
\*            than what there is: more bytes are waited for
\*   "junk"   an i32, or the one byte of a string (a list's last one, too), is
\*            taken from the header of the next message; what follows is a
\*            void field and a stop.
ReadTo(s, ts, e) ==
  CASE ts[e].t = "stop" -> [end |-> "ok", used |-> e, set |-> Content(s, ts, e)]
    [] ts[e].t = "length" \/ (ts[e].t = "begin" /\ ts[e - 1].type = "i32") ->
         [end |-> "junk", used |-> e, set |-> Content(s, ts, e)]
    [] ts[e].t = "begin" /\ ts[e - 1].type = "list" ->
         [end |-> "deaf", used |-> e, set |-> << >>]
    [] OTHER -> [end |-> "closed", used |-> e, set |-> << >>]

\* The one way to read struct s from ts; there is none if tokens are missing,
\* as they are when a string's length, or a part of a list, is the last one.
ReadStruct(s, ts) ==
  {ReadTo(s, ts, e) : e \in {e \in Turns(ts) : ts[e].t \in {"length", "elements"} => e < Len(ts)}}

\* What the struct s that was written as ts holds in field id.
Held(s, ts, id) == (CHOOSE m \in ReadStruct(s, ts) : TRUE).set[id]
=============================================================================
