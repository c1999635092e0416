---------------------------- MODULE OZRpcProofs ----------------------------
(***************************************************************************)
(* No call of a client makes its handler run twice, what a call tells its  *)
(* caller is true of what the server ran, and a server stops only when no  *)
(* handler runs, for any clients in either language, any number of workers *)
(* and calls, and any broken connections and deaths.                       *)
(***************************************************************************)
EXTENDS OZRpc, OZWireProofs, SequenceTheorems, FiniteSetTheorems, TLAPS

-----------------------------------------------------------------------------
(* What the stubs write. *)

\* The argument struct of every stub and of every processor has one field.
LEMMA OneArgument ==
  ASSUME NEW lang \in {"cpp", "py"}, NEW name \in Methods
  PROVE  \E T \in {"string", "list", "i32"} : Stubs[lang][name].args = <<Field(1, T)>>
<1> DEFINE Kinds == {<<Field(1, "string")>>, <<Field(1, "list")>>, <<Field(1, "i32")>>}
<1>1. Methods = {"put", "puts", "get", "gets", "next_kv"}
  BY DEF Methods, Processes
<1>2. name \in {"put", "puts", "get", "gets", "next_kv"}
  BY <1>1
<1>6. \A a \in Kinds : \E T \in {"string", "list", "i32"} : a = <<Field(1, T)>>
  BY Zenon
<1>3. CASE lang = "cpp"
  <2>1. /\ cpp_put.args = <<Field(1, "string")>> /\ cpp_puts.args = <<Field(1, "list")>>
        /\ cpp_get.args = <<Field(1, "string")>> /\ cpp_gets.args = <<Field(1, "list")>>
        /\ cpp_next_kv.args = <<Field(1, "i32")>>
    BY DEF cpp_put, cpp_puts, cpp_get, cpp_gets, cpp_next_kv, Stub,
           put_args, puts_args, get_args, gets_args, next_kv_args
  <2>2. /\ Stubs["cpp"]["put"] = cpp_put /\ Stubs["cpp"]["puts"] = cpp_puts
        /\ Stubs["cpp"]["get"] = cpp_get /\ Stubs["cpp"]["gets"] = cpp_gets
        /\ Stubs["cpp"]["next_kv"] = cpp_next_kv
    BY DEF Stubs
  <2>3. Stubs["cpp"][name].args \in Kinds
    BY <1>2, <2>1, <2>2
  <2>4. QED
    BY <1>3, <1>6, <2>3
<1>4. CASE lang = "py"
  <2>1. /\ py_put.args = <<Field(1, "string")>> /\ py_puts.args = <<Field(1, "list")>>
        /\ py_get.args = <<Field(1, "string")>> /\ py_gets.args = <<Field(1, "list")>>
        /\ py_next_kv.args = <<Field(1, "i32")>>
    BY DEF py_put, py_puts, py_get, py_gets, py_next_kv, Stub,
           py_put_args, py_puts_args, py_get_args, py_gets_args, py_next_kv_args
  <2>2. /\ Stubs["py"]["put"] = py_put /\ Stubs["py"]["puts"] = py_puts
        /\ Stubs["py"]["get"] = py_get /\ Stubs["py"]["gets"] = py_gets
        /\ Stubs["py"]["next_kv"] = py_next_kv
    BY DEF Stubs
  <2>3. Stubs["py"][name].args \in Kinds
    BY <1>2, <2>1, <2>2
  <2>4. QED
    BY <1>4, <1>6, <2>3
<1>5. QED
  BY <1>3, <1>4

\* The one field of the arguments has this type, as the client has them.
ArgOf(c, name, T) == Stubs[Lang[c]][name].args = <<Field(1, T)>>

LEMMA RequestIs ==
  ASSUME NEW c \in Client, NEW name \in Methods, NEW n, NEW kind, NEW T, ArgOf(c, name, T),
         NEW b, b = MessageBegin("call", name, n)
  PROVE  /\ kind \in {"good", "foreign"} => Request(c, name, n, kind) =
              <<b, FieldBegin(Field(1, T)), Value(n), FieldStop>>
         /\ kind = "none" => Request(c, name, n, kind) = <<b, FieldStop>>
         /\ kind = "wrong" => Request(c, name, n, kind) = <<b, FieldBegin(Field(1, T))>>
         /\ kind = "unicode" => Request(c, name, n, kind) =
              <<b, FieldBegin(Field(1, T)), Length>>
         /\ kind = "element" => Request(c, name, n, kind) =
              <<b, FieldBegin(Field(1, T)), Elements>>
<1> DEFINE F == Field(1, T)
           f == FieldBegin(F)
           args == Stubs[Lang[c]][name].args
           whole == IF Lang[c] = "cpp" THEN WriteAll(args, <<n>>)
                                       ELSE WriteNotNone(args, <<n>>)
<1>1. args = <<F>>
  BY DEF ArgOf
<1>2. F.id = 1 /\ Ids(<<F>>) = {1} /\ DOMAIN <<n>> = {1} /\ <<n>>[1] = n
  <2>1. F.id = 1
    BY DEF Field
  <2>2. DOMAIN <<F>> = {1} /\ <<F>>[1] = F
    OBVIOUS
  <2>3. Ids(<<F>>) = {1}
    BY <2>1, <2>2 DEF Ids
  <2>4. DOMAIN <<n>> = {1} /\ <<n>>[1] = n
    OBVIOUS
  <2>5. QED
    BY <2>1, <2>3, <2>4
<1>3. Request(c, name, n, kind) =
        CASE kind \in {"good", "foreign"} -> <<b>> \o whole
          [] kind = "none"    -> <<b>> \o WriteNotNone(args, << >>)
          [] kind = "wrong"   -> <<b>> \o SubSeq(whole, 1, 1)
          [] kind = "unicode" -> <<b>> \o SubSeq(whole, 1, 1) \o <<Length>>
          [] kind = "element" -> <<b>> \o SubSeq(whole, 1, 1) \o <<Elements>>
  BY Zenon DEF Request
<1> HIDE DEF F
<1>4. whole = <<f, Value(n), FieldStop>>
  <2>1. F.id \in {1} /\ F.id \in DOMAIN <<n>> /\ <<n>>[F.id] = n
    BY <1>2
  <2>2. WriteFields(<<F>>, {1}, <<n>>) = <<f, Value(<<n>>[F.id]), FieldStop>>
    BY <2>1, WriteOne
  <2>3. WriteFields(<<F>>, {1}, <<n>>) = <<f, Value(n), FieldStop>>
    BY <2>1, <2>2
  <2>4. WriteAll(<<F>>, <<n>>) = <<f, Value(n), FieldStop>>
    BY <1>2, <2>3 DEF WriteAll
  <2>5. WriteNotNone(<<F>>, <<n>>) = <<f, Value(n), FieldStop>>
    BY <1>2, <2>3 DEF WriteNotNone
  <2>6. QED
    BY <1>1, <2>4, <2>5
<1>5. WriteNotNone(args, << >>) = <<FieldStop>>
  <2>1. DOMAIN << >> = {} /\ F.id \notin {}
    OBVIOUS
  <2>2. WriteFields(<<F>>, {}, << >>) = <<FieldStop>>
    BY <2>1, WriteOne
  <2>3. QED
    BY <1>1, <2>1, <2>2 DEF WriteNotNone
<1>6. SubSeq(<<f, Value(n), FieldStop>>, 1, 1) = <<f>>
  BY FirstOfThree
<1> HIDE DEF whole, f, args
<1>7. /\ <<b>> \o <<f, Value(n), FieldStop>> = <<b, f, Value(n), FieldStop>>
      /\ <<b>> \o <<FieldStop>> = <<b, FieldStop>> /\ <<b>> \o <<f>> = <<b, f>>
      /\ <<b, f>> \o <<Length>> = <<b, f, Length>>
      /\ <<b, f>> \o <<Elements>> = <<b, f, Elements>>
  BY CatTwo, CatThree, CatFour
<1>8. kind \in {"good", "foreign"} => Request(c, name, n, kind) = <<b, f, Value(n), FieldStop>>
  BY <1>3, <1>4, <1>7
<1>9. kind = "none" => Request(c, name, n, kind) = <<b, FieldStop>>
  BY <1>3, <1>5, <1>7
<1>10. kind = "wrong" => Request(c, name, n, kind) = <<b, f>>
  BY <1>3, <1>4, <1>6, <1>7
<1>11. kind = "unicode" => Request(c, name, n, kind) = <<b, f, Length>>
  BY <1>3, <1>4, <1>6, <1>7
<1>12. kind = "element" => Request(c, name, n, kind) = <<b, f, Elements>>
  BY <1>3, <1>4, <1>6, <1>7
<1>13. QED
  BY <1>8, <1>9, <1>10, <1>11, <1>12 DEF F, f

\* A request is a header, and behind it no header but at most one field, with
\* its value or a part of it, and a stop only at the end.
LEMMA RequestShape ==
  ASSUME NEW c \in Client, NEW name \in Methods, NEW n \in Nat \ {0},
         NEW kind \in {"good", "foreign", "none", "wrong", "unicode", "element"}
  PROVE  \E T \in {"string", "list", "i32"} : LET f == FieldBegin(Field(1, T))
                               b == MessageBegin("call", name, n) IN
           Request(c, name, n, kind) \in
             {<<b, f, Value(n), FieldStop>>, <<b, FieldStop>>, <<b, f>>, <<b, f, Length>>,
              <<b, f, Elements>>}
<1>1. Lang[c] \in {"cpp", "py"}
  BY LangAssumption
<1>2. PICK T \in {"string", "list", "i32"} : ArgOf(c, name, T)
  BY <1>1, OneArgument, Zenon DEF ArgOf
<1>3. PICK b : b = MessageBegin("call", name, n)
  OBVIOUS
<1>4. Request(c, name, n, kind) \in
        {<<b, FieldBegin(Field(1, T)), Value(n), FieldStop>>, <<b, FieldStop>>,
         <<b, FieldBegin(Field(1, T))>>, <<b, FieldBegin(Field(1, T)), Length>>,
         <<b, FieldBegin(Field(1, T)), Elements>>}
  BY <1>2, <1>3, RequestIs
<1>5. QED
  BY <1>3, <1>4

-----------------------------------------------------------------------------
(* Streams of calls. *)

LEMMA StreamEmpty ==
  ASSUME NEW low \in Nat, NEW high \in Nat
  PROVE  CallStream(<< >>, low, high)
<1>1. << >> \in Seq(Token) /\ DOMAIN << >> = {}
  BY EmptySeq
<1>2. QED
  BY <1>1 DEF CallStream

LEMMA StreamWider ==
  ASSUME NEW s, NEW low \in Nat, NEW high \in Nat, CallStream(s, low, high),
         NEW l \in Nat, NEW h \in Nat, l <= low, high <= h
  PROVE  CallStream(s, l, h)
<1>1. \A i \in DOMAIN s : s[i].t = "begin" => s[i].n \in Nat
  <2>1. \A i \in DOMAIN s : s[i] \in Token
    BY LenProperties, ElementOfSeq DEF CallStream
  <2>2. \A x \in Token : x.t = "begin" => x.n \in Nat
    BY DEF Token, Length, Elements, FieldStop
  <2>3. QED
    BY <2>1, <2>2
<1>2. \A i \in DOMAIN s : s[i].t = "begin" => l < s[i].n /\ s[i].n <= h
  BY <1>1 DEF CallStream
<1>3. QED
  BY <1>2 DEF CallStream

\* One stream behind another.
LEMMA StreamConcat ==
  ASSUME NEW s, NEW u, NEW l \in Nat, NEW k \in Nat, NEW h \in Nat, l <= k, k <= h,
         CallStream(s, l, k), CallStream(u, k, h)
  PROVE  CallStream(s \o u, l, h)
<1>1. /\ s \in Seq(Token) /\ u \in Seq(Token)
      /\ CallStream(s, l, h) /\ CallStream(u, l, h)
  <2>1. CallStream(s, l, h) /\ CallStream(u, l, h)
    BY StreamWider
  <2>2. QED
    BY <2>1 DEF CallStream
<1>2. PICK m \in Nat, n \in Nat : m = Len(s) /\ n = Len(u)
  BY <1>1, LenProperties
<1>3. PICK r \in Seq(Token) :
        /\ r = s \o u /\ Len(r) = m + n
        /\ \A i \in 1..(m + n) : r[i] = IF i <= m THEN s[i] ELSE u[i - m]
  <2>1. /\ s \o u \in Seq(Token) /\ Len(s \o u) = m + n
        /\ \A i \in 1..(m + n) : (s \o u)[i] = IF i <= m THEN s[i] ELSE u[i - m]
    BY <1>1, <1>2, ConcatProperties
  <2>2. QED
    BY <2>1, Zenon
<1>4. DOMAIN s = 1..m /\ DOMAIN u = 1..n /\ DOMAIN r = 1..(m + n)
  BY <1>1, <1>2, <1>3, LenProperties
<1>5. \A i \in 1..(m + n) :
        \/ i \in 1..m /\ r[i] = s[i]
        \/ ~(i \in 1..m) /\ i - m \in 1..n /\ m < i /\ r[i] = u[i - m]
  BY <1>3
<1>6. r # << >> => r[1].t = "begin"
  <2>1. CASE m = 0 /\ n = 0
    <3>1. Len(r) = 0
      BY <1>3, <2>1
    <3>2. r = << >>
      BY <3>1, EmptySeq
    <3>3. QED
      BY <3>2
  <2>2. CASE m = 0 /\ n # 0
    <3>1. r[1] = u[1] /\ u # << >>
      <4>1. 1 \in 1..(m + n) /\ ~(1 <= m) /\ 1 - m = 1
        BY <2>2
      <4>2. r[1] = u[1]
        BY <1>3, <4>1
      <4>3. u # << >>
        BY <1>2, <2>2, EmptySeq
      <4>4. QED
        BY <4>2, <4>3
    <3>2. QED
      BY <3>1 DEF CallStream
  <2>3. CASE m # 0
    <3>1. r[1] = s[1] /\ s # << >>
      <4>1. 1 \in 1..(m + n) /\ 1 <= m
        BY <2>3
      <4>2. r[1] = s[1]
        BY <1>3, <4>1
      <4>3. s # << >>
        BY <1>2, <2>3, EmptySeq
      <4>4. QED
        BY <4>2, <4>3
    <3>2. QED
      BY <3>1 DEF CallStream
  <2>4. QED
    BY <2>1, <2>2, <2>3
<1>7. ASSUME NEW i \in DOMAIN r, r[i].t = "stop", i < Len(r)
      PROVE  r[i + 1].t = "begin"
  <2>1. i \in 1..(m + n) /\ i < m + n /\ i + 1 \in 1..(m + n)
    BY <1>3, <1>4, <1>7
  <2>2. CASE i \in 1..m /\ i < m
    <3>1. r[i] = s[i] /\ i + 1 <= m /\ r[i + 1] = s[i + 1]
      <4>1. i <= m /\ i + 1 <= m
        BY <2>1, <2>2
      <4>2. QED
        BY <1>3, <2>1, <4>1
    <3>2. QED
      BY <1>2, <1>4, <1>7, <2>2, <3>1 DEF CallStream
  <2>3. CASE i = m
    <3>1. ~(i + 1 <= m) /\ (i + 1) - m = 1 /\ n # 0
      BY <2>1, <2>3
    <3>2. r[i + 1] = u[1]
      BY <1>3, <2>1, <3>1
    <3>3. u # << >>
      BY <1>2, <3>1, EmptySeq
    <3>4. QED
      BY <3>2, <3>3 DEF CallStream
  <2>4. CASE ~(i \in 1..m)
    <3>1. PICK j \in 1..n : j = i - m
      BY <1>5, <2>1, <2>4
    <3>2. j < n /\ ~(i + 1 <= m) /\ (i + 1) - m = j + 1
      BY <2>1, <3>1
    <3>3. r[i] = u[j] /\ r[i + 1] = u[j + 1]
      BY <1>3, <1>5, <2>1, <2>4, <3>1, <3>2
    <3>4. QED
      BY <1>2, <1>4, <1>7, <3>2, <3>3 DEF CallStream
  <2>5. QED
    BY <2>1, <2>2, <2>3, <2>4
<1>8. \A i \in DOMAIN r : r[i].t = "begin" => l < r[i].n /\ r[i].n <= h
  BY <1>1, <1>4, <1>5 DEF CallStream
<1>9. ASSUME NEW i \in DOMAIN r, NEW j \in DOMAIN r, i < j, r[i].t = "begin", r[j].t = "begin"
      PROVE  r[i].n < r[j].n
  <2>1. CASE j \in 1..m
    <3>1. i \in 1..m
      BY <1>4, <1>9, <2>1
    <3>2. r[i] = s[i] /\ r[j] = s[j]
      BY <1>4, <1>5, <2>1, <3>1
    <3>3. QED
      BY <1>4, <1>9, <2>1, <3>1, <3>2 DEF CallStream
  <2>2. CASE i \in 1..m /\ ~(j \in 1..m)
    <3>1. PICK b \in 1..n : r[j] = u[b]
      BY <1>4, <1>5, <2>2
    <3>2. r[i] = s[i]
      BY <1>4, <1>5, <2>2
    <3>3. r[i].n <= k /\ k < r[j].n
      BY <1>4, <1>9, <2>2, <3>1, <3>2 DEF CallStream
    <3>4. r[i].n \in Nat /\ r[j].n \in Nat
      <4>1. r[i] \in Token /\ r[j] \in Token
        BY <1>3, <1>4, ElementOfSeq
      <4>2. \A x \in Token : x.t = "begin" => x.n \in Nat
        BY DEF Token, Length, Elements, FieldStop
      <4>3. QED
        BY <1>9, <4>1, <4>2
    <3>5. QED
      BY <3>3, <3>4
  <2>3. CASE ~(i \in 1..m) /\ ~(j \in 1..m)
    <3>1. PICK a \in 1..n, b \in 1..n : a = i - m /\ b = j - m /\ r[i] = u[a] /\ r[j] = u[b]
      BY <1>4, <1>5, <2>3
    <3>2. a < b
      BY <1>4, <1>9, <3>1
    <3>3. QED
      BY <1>4, <1>9, <3>1, <3>2 DEF CallStream
  <2>4. QED
    BY <2>1, <2>2, <2>3
<1>10. CallStream(r, l, h)
  BY <1>6, <1>7, <1>8, <1>9 DEF CallStream
<1>11. QED
  BY <1>3, <1>10

\* A part of a stream, from its beginning or from behind the end of a call:
\* what is behind its first call comes after that call.
LEMMA StreamPart ==
  ASSUME NEW s, NEW l \in Nat, NEW h \in Nat, CallStream(s, l, h),
         NEW a \in Nat, NEW b \in Nat, b <= Len(s),
         a # 0 => a \in DOMAIN s /\ s[a].t = "stop"
  PROVE  /\ CallStream(SubSeq(s, a + 1, b), l, h)
         /\ a # 0 => CallStream(SubSeq(s, a + 1, b), s[1].n, h)
<1>1. PICK m \in Nat : m = Len(s) /\ DOMAIN s = 1..m /\ s \in Seq(Token)
  BY LenProperties DEF CallStream
<1>2. \A i \in (a + 1)..b : s[i] \in Token
  <2>1. \A i \in (a + 1)..b : i \in 1..m
    BY <1>1
  <2>2. QED
    BY <1>1, <2>1, ElementOfSeq
<1>3. PICK f \in Int : f = a + 1
  OBVIOUS
<1>4. PICK r \in Seq(Token) :
        /\ r = SubSeq(s, a + 1, b)
        /\ Len(r) = IF f <= b THEN b - f + 1 ELSE 0
        /\ \A i \in 1..(b - f + 1) : r[i] = s[f + i - 1]
  <2>1. /\ SubSeq(s, f, b) \in Seq(Token)
        /\ Len(SubSeq(s, f, b)) = IF f <= b THEN b - f + 1 ELSE 0
        /\ \A i \in 1..(b - f + 1) : SubSeq(s, f, b)[i] = s[f + i - 1]
    BY <1>2, <1>3, SubSeqProperties
  <2>2. QED
    BY <1>3, <2>1, Zenon
<1>5. PICK n \in Nat : n = Len(r) /\ DOMAIN r = 1..n
  BY <1>4, LenProperties
<1>6. \A i \in 1..n : i \in 1..(b - f + 1) /\ f + i - 1 = a + i /\ a + i \in 1..m /\ a + i <= b
  BY <1>1, <1>3, <1>4, <1>5
<1>7. \A i \in 1..n : r[i] = s[a + i] /\ a + i \in DOMAIN s
  BY <1>1, <1>4, <1>6
<1>8. r # << >> => r[1].t = "begin"
  <2>1. r # << >> => n # 0
    BY <1>4, <1>5, EmptySeq
  <2>2. n # 0 => 1 \in 1..n /\ s # << >>
    <3>1. n # 0 => a + 1 \in 1..m /\ 1 \in 1..n
      BY <1>6
    <3>2. QED
      BY <1>1, <3>1, EmptySeq
  <2>3. CASE a = 0
    <3>1. a + 1 = 1
      BY <2>3
    <3>2. QED
      BY <1>7, <2>1, <2>2, <3>1 DEF CallStream
  <2>4. CASE a # 0
    <3>1. n # 0 => a < Len(s)
      BY <1>1, <1>6
    <3>2. QED
      BY <1>7, <2>1, <2>2, <2>4, <3>1 DEF CallStream
  <2>5. QED
    BY <2>3, <2>4
<1>9. ASSUME NEW i \in DOMAIN r, r[i].t = "stop", i < Len(r)
      PROVE  r[i + 1].t = "begin"
  <2>1. i \in 1..n /\ i + 1 \in 1..n
    BY <1>5, <1>9
  <2>2. a + i < Len(s) /\ a + (i + 1) = (a + i) + 1
    <3>1. PICK i1 \in 1..n : i1 = i + 1
      BY <2>1
    <3>2. a + i1 \in 1..m
      BY <1>6
    <3>3. a + (i + 1) <= m
      BY <3>1, <3>2
    <3>4. i \in Nat
      BY <2>1
    <3>5. QED
      BY <1>1, <3>3, <3>4
  <2>3. r[i] = s[a + i] /\ a + i \in DOMAIN s /\ r[i + 1] = s[(a + i) + 1]
    <3>1. r[i + 1] = s[a + (i + 1)]
      BY <1>7, <2>1
    <3>2. QED
      BY <1>7, <2>1, <2>2, <3>1
  <2>4. QED
    BY <1>9, <2>2, <2>3 DEF CallStream
<1>10. \A i \in DOMAIN r : r[i].t = "begin" => l < r[i].n /\ r[i].n <= h
  BY <1>5, <1>7 DEF CallStream
<1>11. ASSUME NEW i \in DOMAIN r, NEW j \in DOMAIN r, i < j, r[i].t = "begin", r[j].t = "begin"
       PROVE  r[i].n < r[j].n
  <2>1. a + i < a + j
    BY <1>5, <1>11
  <2>2. QED
    BY <1>5, <1>7, <1>11, <2>1, ZenonT(30) DEF CallStream
<1>12. ASSUME a # 0 PROVE \A i \in DOMAIN r : r[i].t = "begin" => s[1].n < r[i].n
  <2>1. 1 \in DOMAIN s /\ s[1].t = "begin"
    <3>1. m # 0
      BY <1>1, <1>12
    <3>2. 1 \in DOMAIN s /\ s # << >>
      BY <1>1, <3>1, EmptySeq
    <3>3. QED
      BY <3>2 DEF CallStream
  <2>2. \A i \in 1..n : 1 < a + i
    BY <1>12
  <2>3. QED
    BY <1>5, <1>7, <2>1, <2>2 DEF CallStream
<1>13. QED
  BY <1>4, <1>8, <1>9, <1>10, <1>11, <1>12 DEF CallStream

\* A request is a stream of one call.
LEMMA StreamRequest ==
  ASSUME NEW c \in Client, NEW name \in Methods, NEW n \in Nat \ {0}, NEW k \in Nat, k < n,
         NEW kind \in {"good", "foreign", "none", "wrong", "unicode", "element"}
  PROVE  CallStream(Request(c, name, n, kind), k, n)
<1>1. PICK T \in {"string", "list", "i32"} :
        LET f == FieldBegin(Field(1, T))
            b == MessageBegin("call", name, n) IN
        Request(c, name, n, kind) \in
          {<<b, f, Value(n), FieldStop>>, <<b, FieldStop>>, <<b, f>>, <<b, f, Length>>,
           <<b, f, Elements>>}
  BY RequestShape
<1>2. PICK b, f, v, e, len, els :
        /\ b = MessageBegin("call", name, n) /\ f = FieldBegin(Field(1, T))
        /\ v = Value(n) /\ e = FieldStop /\ len = Length /\ els = Elements
  OBVIOUS
<1>3. PICK q : /\ q = Request(c, name, n, kind)
               /\ q \in {<<b, f, v, e>>, <<b, e>>, <<b, f>>, <<b, f, len>>, <<b, f, els>>}
  BY <1>1, <1>2
<1>4. /\ b \in Token /\ f \in Token /\ v \in Token /\ e \in Token
      /\ len \in Token /\ els \in Token
      /\ b.t = "begin" /\ b.n = n /\ f.t = "field" /\ v.t = "value" /\ e.t = "stop"
      /\ len.t = "length" /\ els.t = "elements"
  BY <1>2 DEF MessageBegin, FieldBegin, Field, Value, FieldStop, Length, Elements, Token
<1>5. ASSUME NEW m \in Nat \ {0}, q \in Seq(Token), Len(q) = m, q[1] = b,
             \A i \in 2..m : q[i].t # "begin", \A i \in 1..m : i < m => q[i].t # "stop"
      PROVE  CallStream(q, k, n)
  <2>1. DOMAIN q = 1..m
    BY <1>5, LenProperties
  <2>2. \A i \in DOMAIN q : q[i].t = "begin" => i = 1
    BY <1>5, <2>1
  <2>3. \A i \in DOMAIN q : ~(q[i].t = "stop" /\ i < Len(q))
    BY <1>5, <2>1
  <2>4. k < n /\ n <= n /\ ~(1 < 1)
    OBVIOUS
  <2>5. QED
    BY <1>4, <1>5, <2>2, <2>3, <2>4 DEF CallStream
<1>6. CASE q = <<b, f, v, e>>
  <2>1. /\ q \in Seq(Token) /\ Len(q) = 4 /\ q[1] = b /\ q[2] = f /\ q[3] = v /\ q[4] = e
    BY <1>4, <1>6
  <2>2. (\A i \in 2..4 : i = 2 \/ i = 3 \/ i = 4)
        /\ \A i \in 1..4 : i < 4 => i = 1 \/ i = 2 \/ i = 3
    OBVIOUS
  <2>3. /\ \A i \in 2..4 : q[i].t # "begin"
        /\ \A i \in 1..4 : i < 4 => q[i].t # "stop"
    BY <1>4, <2>1, <2>2
  <2>4. 4 \in Nat \ {0}
    OBVIOUS
  <2>5. CallStream(q, k, n)
    BY <1>5, <2>1, <2>3, <2>4
  <2>6. QED
    BY <1>3, <2>5
<1>7. CASE q = <<b, e>>
  <2>1. /\ q \in Seq(Token) /\ Len(q) = 2 /\ q[1] = b /\ q[2] = e
    BY <1>4, <1>7
  <2>2. (\A i \in 2..2 : i = 2)
        /\ \A i \in 1..2 : i < 2 => i = 1
    OBVIOUS
  <2>3. /\ \A i \in 2..2 : q[i].t # "begin"
        /\ \A i \in 1..2 : i < 2 => q[i].t # "stop"
    BY <1>4, <2>1, <2>2
  <2>4. 2 \in Nat \ {0}
    OBVIOUS
  <2>5. CallStream(q, k, n)
    BY <1>5, <2>1, <2>3, <2>4
  <2>6. QED
    BY <1>3, <2>5
<1>8. CASE q = <<b, f>>
  <2>1. /\ q \in Seq(Token) /\ Len(q) = 2 /\ q[1] = b /\ q[2] = f
    BY <1>4, <1>8
  <2>2. (\A i \in 2..2 : i = 2)
        /\ \A i \in 1..2 : i < 2 => i = 1
    OBVIOUS
  <2>3. /\ \A i \in 2..2 : q[i].t # "begin"
        /\ \A i \in 1..2 : i < 2 => q[i].t # "stop"
    BY <1>4, <2>1, <2>2
  <2>4. 2 \in Nat \ {0}
    OBVIOUS
  <2>5. CallStream(q, k, n)
    BY <1>5, <2>1, <2>3, <2>4
  <2>6. QED
    BY <1>3, <2>5
<1>9. CASE q \in {<<b, f, len>>, <<b, f, els>>}
  <2>. PICK x \in {len, els} : q = <<b, f, x>>
    BY <1>9
  <2>0. x \in Token /\ x.t \notin {"begin", "stop"}
    BY <1>4
  <2>1. /\ q \in Seq(Token) /\ Len(q) = 3 /\ q[1] = b /\ q[2] = f /\ q[3] = x
    BY <1>4, <2>0
  <2>2. (\A i \in 2..3 : i = 2 \/ i = 3)
        /\ \A i \in 1..3 : i < 3 => i = 1 \/ i = 2
    OBVIOUS
  <2>3. /\ \A i \in 2..3 : q[i].t # "begin"
        /\ \A i \in 1..3 : i < 3 => q[i].t # "stop"
    BY <1>4, <2>0, <2>1, <2>2
  <2>4. 3 \in Nat \ {0}
    OBVIOUS
  <2>5. CallStream(q, k, n)
    BY <1>5, <2>1, <2>3, <2>4
  <2>6. QED
    BY <1>3, <2>5
<1>10. QED
  BY <1>3, <1>6, <1>7, <1>8, <1>9

-----------------------------------------------------------------------------
(* The parts of the invariant. *)

\* The connections and their workers.
ConnPart ==
  /\ phase \in {"serving", "stopping", "stopped", "dead"}
  /\ conn \in [Client -> {"backlog", "queued", "served", "closed"}]
  /\ job = [c \in Client |-> job[c]]
  /\ IsFiniteSet({c \in Client : conn[c] = "served"})
  /\ Cardinality({c \in Client : conn[c] = "served"}) <= Workers
  /\ \A c \in Client : conn[c] = "backlog" => phase = "serving"
  /\ \A c \in Client : job[c] # NoJob => conn[c] = "served"
  /\ StopWaits

\* The clients' calls and what they came to.
CallPart ==
  /\ pc \in [Client -> {"idle", "waiting", "gone"}]
  /\ call = [c \in Client |-> [name |-> call[c].name, v |-> call[c].v,
                                res |-> call[c].res, back |-> call[c].back]]
  /\ \A c \in Client :
       /\ call[c].res \in {"", "none", "returned", "ouch", "app", "encode", "transport"}
       /\ pc[c] = "waiting" <=> call[c].res = ""

\* How many there are.
CountPart ==
  /\ faults \in 0..MaxFaults /\ made \in [Client -> Nat]
  /\ raised = [c \in Client |-> raised[c]]
  /\ \A c \in Client : made[c] <= MaxCalls[c] /\ raised[c] \subseteq 1..made[c]

\* How the last run ended.
RanPart ==
  /\ ran = [c \in Client |-> ran[c]]
  /\ \A c \in Client : ran[c].how \in {"none", "returned", "ouch", "std"}

\* A client's streams, calls and runs.
RunsAt(u, w, m, ts) == \E l, k \in 0..m :
  /\ l <= k
  /\ CallStream(u, l, k) /\ CallStream(w, k, m)
  /\ \A n \in DOMAIN ts : ts[n] <= 1 /\ (n > l => ts[n] = 0)

\* What the servers were asked to run, and run.
WorkPart ==
  /\ serves \in {"write", "read", "trav"}
  /\ up = [c \in Client |-> up[c]] /\ wbuf = [c \in Client |-> wbuf[c]]
  /\ job = [c \in Client |-> job[c]] /\ times = [c \in Client |-> times[c]]
  /\ \A c \in Client :
       /\ times[c] \in [1..MaxCalls[c] -> Nat]
       /\ RunsAt(up[c], wbuf[c], made[c], times[c])
       /\ job[c] = [name |-> job[c].name, n |-> job[c].n, v |-> job[c].v]
       /\ job[c] # NoJob =>
            job[c].name \in Methods /\ job[c].n \in 1..made[c] /\ times[c][job[c].n] > 0

LEMMA NoJobIs == NoJob.name = "" /\ NoJob.n = 0 /\ NoJob = [name |-> "", n |-> 0, v |-> NoJob.v]
BY DEF NoJob

LEMMA PartsMake ==
  ASSUME ConnPart, CallPart, CountPart, RanPart, WorkPart
  PROVE  RpcInv
<1>1. \A c \in Client : made[c] \in 0..MaxCalls[c]
  BY RpcBoundAssumption DEF CountPart
<1>2. \A c \in Client : JobInv(c) /\ RunsInv(c)
  BY DEF WorkPart, JobInv, RunsInv, RunsAt
<1>3. \A c \in Client : job[c].name \in Methods \cup {""} /\ job[c].n \in 0..made[c]
  <2>1. ASSUME NEW c \in Client PROVE job[c].name \in Methods \cup {""} /\ job[c].n \in 0..made[c]
    <3>1. made[c] \in Nat
      BY DEF CountPart
    <3>2. CASE job[c] = NoJob
      <4>1. job[c].name = "" /\ job[c].n = 0
        BY <3>2, NoJobIs
      <4>2. 0 \in 0..made[c]
        BY <3>1
      <4>3. QED
        BY <4>1, <4>2
    <3>3. CASE job[c] # NoJob
      <4>1. job[c].name \in Methods /\ job[c].n \in 1..made[c]
        BY <3>3 DEF WorkPart
      <4>2. 1..made[c] \subseteq 0..made[c]
        BY <3>1
      <4>3. QED
        BY <4>1, <4>2
    <3>4. QED
      BY <3>2, <3>3
  <2>2. QED
    BY <2>1
<1>4. TypeOK
  BY <1>1, <1>3 DEF TypeOK, ConnPart, CallPart, CountPart, RanPart, WorkPart
<1>5. QED
  BY <1>2, <1>4 DEF RpcInv, ConnPart, CallPart, CountPart, RanPart, WorkPart

LEMMA PartsHold ==
  ASSUME RpcInv
  PROVE  ConnPart /\ CallPart /\ CountPart /\ RanPart /\ WorkPart
<1>1. ConnPart
  BY DEF RpcInv, TypeOK, ConnPart
<1>2. CallPart
  BY DEF RpcInv, TypeOK, CallPart
<1>3. CountPart
  <2>1. ASSUME NEW c \in Client PROVE made[c] <= MaxCalls[c]
    <3>1. made[c] \in 0..MaxCalls[c]
      BY DEF RpcInv, TypeOK
    <3>2. MaxCalls[c] \in Nat
      BY RpcBoundAssumption
    <3>3. QED
      BY <3>1, <3>2
  <2>2. QED
    BY <2>1 DEF RpcInv, TypeOK, CountPart
<1>4. RanPart
  BY DEF RpcInv, TypeOK, RanPart
<1>5. WorkPart
  <2>1. \A c \in Client : RunsAt(up[c], wbuf[c], made[c], times[c])
    BY DEF RpcInv, RunsInv, RunsAt
  <2>2. \A c \in Client : /\ job[c] = [name |-> job[c].name, n |-> job[c].n, v |-> job[c].v]
                          /\ job[c] # NoJob => job[c].name \in Methods /\ job[c].n \in 1..made[c]
    BY DEF RpcInv, JobInv
  <2>3. \A c \in Client : job[c] # NoJob => times[c][job[c].n] > 0
    BY DEF RpcInv, TypeOK
  <2>4. QED
    BY <2>1, <2>2, <2>3 DEF RpcInv, WorkPart
<1>6. QED
  BY <1>1, <1>2, <1>3, <1>4, <1>5

-----------------------------------------------------------------------------
(* The connections. *)

LEMMA FewerServed ==
  ASSUME ConnPart, NEW new \in [Client -> {"backlog", "queued", "served", "closed"}],
         \A d \in Client : new[d] = "served" => conn[d] = "served"
  PROVE  /\ IsFiniteSet({d \in Client : new[d] = "served"})
         /\ Cardinality({d \in Client : new[d] = "served"}) <= Workers
<1> DEFINE S == {d \in Client : conn[d] = "served"}
           T == {d \in Client : new[d] = "served"}
<1>1. T \subseteq S
  OBVIOUS
<1>2. IsFiniteSet(S) /\ Cardinality(S) <= Workers
  BY DEF ConnPart
<1> HIDE DEF S, T
<1>3. IsFiniteSet(T) /\ Cardinality(T) <= Cardinality(S)
  BY <1>1, <1>2, FS_Subset
<1>4. Cardinality(T) \in Nat /\ Cardinality(S) \in Nat
  BY <1>2, <1>3, FS_CardinalityType
<1>5. Cardinality(T) <= Workers
  BY <1>2, <1>3, <1>4, PoolAssumption
<1>6. QED
  BY <1>3, <1>5 DEF T

\* A worker that has no run any more keeps its connection or ends it.
LEMMA WorkerEnds ==
  ASSUME ConnPart, NEW c \in Client, conn[c] = "served", phase' = phase,
         Hangup(c) \/ conn' = conn,
         job' = [job EXCEPT ![c] = NoJob]
  PROVE  ConnPart'
<1>1. conn' \in [Client -> {"backlog", "queued", "served", "closed"}]
  BY DEF ConnPart, Hangup
<1>2. /\ \A d \in Client : d # c => conn'[d] = conn[d] /\ job'[d] = job[d]
      /\ conn'[c] \in {"served", "closed"} /\ job'[c] = NoJob
  BY DEF ConnPart, Hangup
<1>3. \A d \in Client : conn'[d] = "served" => conn[d] = "served"
  BY <1>2
<1>4. \A d \in Client : conn'[d] = "backlog" => conn[d] = "backlog"
  BY <1>2
<1>5. job' = [d \in Client |-> job'[d]]
  BY <1>2 DEF ConnPart
<1>6. \A d \in Client : job'[d] # NoJob => conn'[d] = "served"
  BY <1>2 DEF ConnPart
<1>7. StopWaits'
  <2>1. phase # "stopped"
    BY DEF ConnPart, StopWaits
  <2>2. QED
    BY <2>1 DEF StopWaits
<1>8. QED
  BY <1>1, <1>3, <1>4, <1>5, <1>6, <1>7, FewerServed DEF ConnPart

\* A connection that has a call to read is served, and its worker is free.
LEMMA IncomingServed ==
  ASSUME NEW c \in Client, Incoming(c) # {}
  PROVE  conn[c] = "served" /\ job[c] = NoJob /\ up[c] # << >>
BY DEF Incoming

LEMMA ConnStep ==
  ASSUME ConnPart, [Next]_rpcvars
  PROVE  ConnPart'
<1>0. \A c \in Client : job[c] = NoJob => [job EXCEPT ![c] = NoJob] = job
  BY DEF ConnPart
<1>1. ASSUME UNCHANGED <<phase, conn, job>> PROVE ConnPart'
  BY <1>1 DEF ConnPart, StopWaits
<1>2. ASSUME NEW c \in Client, Call(c) \/ CallRaises(c) \/ Hear(c) \/ Leave(c) \/ Break(c)
      PROVE  ConnPart'
  <2>1. UNCHANGED <<phase, conn, job>>
    BY <1>2 DEF Call, CallRaises, Hear, ReceiveReply, LoseReply, Leave, Break, server
  <2>2. QED
    BY <1>1, <2>1
<1>3. ASSUME NEW c \in Client, Accept(c) PROVE ConnPart'
  <2>1. /\ phase = "serving" /\ phase' = phase /\ job' = job
        /\ conn[c] = "backlog" /\ conn' = [conn EXCEPT ![c] = "queued"]
    BY <1>3 DEF Accept, server
  <2>2. conn' \in [Client -> {"backlog", "queued", "served", "closed"}]
    BY <2>1 DEF ConnPart
  <2>3. \A d \in Client : conn'[d] = "served" => conn[d] = "served"
    BY <2>1 DEF ConnPart
  <2>4. \A d \in Client : conn[d] = "served" => conn'[d] = "served"
    BY <2>1 DEF ConnPart
  <2>5. QED
    BY <2>1, <2>2, <2>3, <2>4, FewerServed DEF ConnPart, StopWaits
<1>4. ASSUME NEW c \in Client, Take(c) PROVE ConnPart'
  <2>1. /\ phase' = phase /\ job' = job
        /\ conn[c] = "queued" /\ conn' = [conn EXCEPT ![c] = "served"]
        /\ Cardinality({d \in Client : conn[d] = "served"}) < Workers
    BY <1>4 DEF Take, server
  <2>2. conn' \in [Client -> {"backlog", "queued", "served", "closed"}]
    BY <2>1 DEF ConnPart
  <2>3. \A d \in Client : conn'[d] = IF d = c THEN "served" ELSE conn[d]
    BY <2>1 DEF ConnPart
  <2>4. PICK S : S = {d \in Client : conn[d] = "served"}
    OBVIOUS
  <2>5. {d \in Client : conn'[d] = "served"} = S \cup {c}
    BY <2>3, <2>4
  <2>6. c \notin S /\ IsFiniteSet(S)
    BY <2>1, <2>4 DEF ConnPart
  <2>7. IsFiniteSet(S \cup {c}) /\ Cardinality(S \cup {c}) = Cardinality(S) + 1
    BY <2>6, FS_AddElement
  <2>8. Cardinality(S) < Workers /\ Cardinality(S) \in Nat
    BY <2>1, <2>4, <2>6, FS_CardinalityType
  <2>9. Cardinality(S \cup {c}) <= Workers
    BY <2>7, <2>8, PoolAssumption
  <2>10. StopWaits'
    <3>1. phase # "stopped"
      BY <2>1 DEF ConnPart, StopWaits
    <3>2. QED
      BY <2>1, <3>1 DEF StopWaits
  <2>11. \A d \in Client : (conn'[d] = "backlog" => conn[d] = "backlog")
                           /\ (conn[d] = "served" => conn'[d] = "served")
    BY <2>3
  <2>12. IsFiniteSet({d \in Client : conn'[d] = "served"})
         /\ Cardinality({d \in Client : conn'[d] = "served"}) <= Workers
    BY <2>5, <2>7, <2>9
  <2>13. QED
    BY <2>1, <2>2, <2>10, <2>11, <2>12 DEF ConnPart
<1>5. ASSUME NEW c \in Client, Receive(c) PROVE ConnPart'
  <2>1. conn[c] = "served"
    BY <1>5, IncomingServed DEF Receive
  <2>2. /\ phase' = phase /\ conn' = conn
        /\ \A d \in Client : d # c => job'[d] = job[d]
        /\ job' = [d \in Client |-> job'[d]]
    BY <1>5 DEF Receive, server, ConnPart
  <2>3. phase # "stopped"
    BY <2>1 DEF ConnPart, StopWaits
  <2>4. \A d \in Client : job'[d] # NoJob => conn'[d] = "served"
    BY <2>1, <2>2 DEF ConnPart
  <2>5. QED
    BY <2>2, <2>3, <2>4 DEF ConnPart, StopWaits
<1>6. ASSUME NEW c \in Client, Unknown(c) \/ Misread(c) \/ Swallow(c) \/ EndOfInput(c)
      PROVE  ConnPart'
  <2>1. conn[c] = "served" /\ job[c] = NoJob
    BY <1>6, IncomingServed DEF Unknown, Misread, Swallow, EndOfInput
  <2>2. phase' = phase /\ job' = job /\ (Hangup(c) \/ conn' = conn)
    BY <1>6 DEF Unknown, Misread, Swallow, EndOfInput, server
  <2>3. job' = [job EXCEPT ![c] = NoJob]
    BY <1>0, <2>1, <2>2
  <2>4. QED
    BY <2>1, <2>2, <2>3, WorkerEnds
<1>7. ASSUME NEW c \in Client, Respond(c) PROVE ConnPart'
  <2>1. /\ conn[c] = "served" /\ phase' = phase /\ job' = [job EXCEPT ![c] = NoJob]
        /\ Hangup(c) \/ conn' = conn
    BY <1>7 DEF Respond, server
  <2>2. QED
    BY <2>1, WorkerEnds
<1>8. ASSUME Stop PROVE ConnPart'
  <2>1. /\ phase = "serving" /\ phase' = "stopping" /\ job' = job
        /\ conn' = [d \in Client |-> IF conn[d] = "backlog" THEN "closed" ELSE conn[d]]
    BY <1>8 DEF Stop
  <2>2. conn' \in [Client -> {"backlog", "queued", "served", "closed"}]
    BY <2>1 DEF ConnPart
  <2>3. \A d \in Client : /\ conn'[d] = "served" <=> conn[d] = "served"
                          /\ conn'[d] # "backlog"
    BY <2>1
  <2>4. QED
    BY <2>1, <2>2, <2>3, FewerServed DEF ConnPart, StopWaits
<1>9. ASSUME Join PROVE ConnPart'
  <2>1. /\ phase = "stopping" /\ phase' = "stopped" /\ job' = job /\ conn' = conn
        /\ \A d \in Client : conn[d] \notin {"queued", "served"}
    BY <1>9 DEF Join
  <2>2. \A d \in Client : conn[d] \in {"backlog", "queued", "served", "closed"}
                          /\ conn[d] # "backlog"
    BY <2>1 DEF ConnPart
  <2>3. \A d \in Client : conn[d] = "closed" /\ job[d] = NoJob
    BY <2>1, <2>2 DEF ConnPart
  <2>4. QED
    BY <2>1, <2>3 DEF ConnPart, StopWaits
<1>10. ASSUME Die PROVE ConnPart'
  <2>1. /\ phase' = "dead" /\ conn' = [d \in Client |-> "closed"]
        /\ job' = [d \in Client |-> NoJob]
    BY <1>10 DEF Die
  <2>2. conn' \in [Client -> {"backlog", "queued", "served", "closed"}]
    BY <2>1
  <2>3. \A d \in Client : conn'[d] = "closed" /\ job'[d] = NoJob
    BY <2>1
  <2>4. job' = [d \in Client |-> job'[d]]
    BY <2>1
  <2>5. QED
    BY <2>1, <2>2, <2>3, <2>4, FewerServed DEF ConnPart, StopWaits
<1>11. CASE UNCHANGED rpcvars
  BY <1>1, <1>11 DEF rpcvars
<1>12. QED
  BY <1>2, <1>3, <1>4, <1>5, <1>6, <1>7, <1>8, <1>9, <1>10, <1>11 DEF Next, Serve

-----------------------------------------------------------------------------
(* The calls, their numbers, and how the runs end. *)

LEMMA OutcomeRes ==
  ASSUME NEW c, NEW set
  PROVE  Outcome(c, set).res \in {"app", "returned", "ouch"}
<1> DEFINE m == down[c][1].mtype
<1>1. CASE m = "exception"
  BY <1>1 DEF Outcome
<1>2. CASE m = "reply" /\ 0 \in DOMAIN set
  BY <1>2 DEF Outcome
<1>3. CASE m = "reply" /\ 0 \notin DOMAIN set /\ 1 \in DOMAIN set
  BY <1>3 DEF Outcome
<1>4. CASE ~(m = "exception") /\ ~(m = "reply" /\ 0 \in DOMAIN set)
           /\ ~(m = "reply" /\ 0 \notin DOMAIN set /\ 1 \in DOMAIN set)
  BY <1>4 DEF Outcome
<1>5. QED
  BY <1>1, <1>2, <1>3, <1>4

\* A client's call becomes new, and its state becomes at.
LEMMA CallBecomes ==
  ASSUME CallPart, NEW c \in Client, NEW new, NEW at \in {"idle", "waiting", "gone"},
         pc' = [pc EXCEPT ![c] = at], call' = [call EXCEPT ![c] = new],
         new = [name |-> new.name, v |-> new.v, res |-> new.res, back |-> new.back],
         new.res \in {"", "none", "returned", "ouch", "app", "encode", "transport"},
         at = "waiting" <=> new.res = ""
  PROVE  CallPart'
<1>1. pc' \in [Client -> {"idle", "waiting", "gone"}] /\ pc'[c] = at
  BY DEF CallPart
<1>2. call'[c] = new /\ DOMAIN call' = Client
  BY DEF CallPart
<1>3. \A d \in Client : d # c => call'[d] = call[d] /\ pc'[d] = pc[d]
  BY DEF CallPart
<1>4. \A d \in Client : call[d] = [name |-> call[d].name, v |-> call[d].v,
                                   res |-> call[d].res, back |-> call[d].back]
  BY DEF CallPart
<1>5. \A d \in Client : call'[d] = [name |-> call'[d].name, v |-> call'[d].v,
                                    res |-> call'[d].res, back |-> call'[d].back]
  BY <1>2, <1>3, <1>4
<1>6. call' = [d \in Client |-> call'[d]]
  BY <1>2 DEF CallPart
<1>7. call' = [d \in Client |-> [name |-> call'[d].name, v |-> call'[d].v,
                                 res |-> call'[d].res, back |-> call'[d].back]]
  BY <1>5, <1>6
<1>8. \A d \in Client :
        /\ call'[d].res \in {"", "none", "returned", "ouch", "app", "encode", "transport"}
        /\ pc'[d] = "waiting" <=> call'[d].res = ""
  <2>1. ASSUME NEW d \in Client
        PROVE  /\ call'[d].res \in {"", "none", "returned", "ouch", "app", "encode", "transport"}
               /\ pc'[d] = "waiting" <=> call'[d].res = ""
    <3>1. CASE d = c
      <4>1. call'[d] = new /\ pc'[d] = at
        BY <1>1, <1>2, <3>1
      <4>2. QED
        BY <4>1
    <3>2. CASE d # c
      <4>1. call'[d] = call[d] /\ pc'[d] = pc[d]
        BY <1>3, <3>2
      <4>2. /\ call[d].res \in {"", "none", "returned", "ouch", "app", "encode", "transport"}
            /\ pc[d] = "waiting" <=> call[d].res = ""
        BY Zenon DEF CallPart
      <4>3. QED
        BY <4>1, <4>2
    <3>3. QED
      BY <3>1, <3>2
  <2>2. QED
    BY <2>1
<1>9. QED
  BY <1>1, <1>7, <1>8 DEF CallPart

LEMMA CallStep ==
  ASSUME CallPart, [Next]_rpcvars
  PROVE  CallPart'
<1>1. ASSUME UNCHANGED <<pc, call>> PROVE CallPart'
  BY <1>1 DEF CallPart
<1>2. \A c \in Client : pc[c] = "idle" => pc = [pc EXCEPT ![c] = "idle"]
  BY DEF CallPart
<1>3. ASSUME NEW c \in Client, Call(c) PROVE CallPart'
  <2>1. PICK kind, name : call' = [call EXCEPT ![c] = CallOf(c, name, kind, "")]
    BY <1>3 DEF Call
  <2>2. PICK new : new = CallOf(c, name, kind, "")
    OBVIOUS
  <2>3. /\ new = [name |-> new.name, v |-> new.v, res |-> new.res, back |-> new.back]
        /\ new.res = ""
    BY <2>2 DEF CallOf
  <2>4. pc' = [pc EXCEPT ![c] = "waiting"]
    BY <1>3 DEF Call
  <2>5. QED
    BY <2>1, <2>2, <2>3, <2>4, CallBecomes
<1>4. ASSUME NEW c \in Client, CallRaises(c) PROVE CallPart'
  <2>1. PICK kind, name : Makes(c, kind) /\ call' = [call EXCEPT ![c] = CallOf(c, name, kind, "encode")]
    BY <1>4 DEF CallRaises
  <2>2. PICK new : new = CallOf(c, name, kind, "encode")
    OBVIOUS
  <2>3. /\ new = [name |-> new.name, v |-> new.v, res |-> new.res, back |-> new.back]
        /\ new.res = "encode"
    BY <2>2 DEF CallOf
  <2>4. pc' = [pc EXCEPT ![c] = "idle"]
    <3>1. pc' = pc /\ pc[c] = "idle"
      BY <1>4, <2>1 DEF CallRaises, Makes
    <3>2. QED
      BY <1>2, <3>1
  <2>5. QED
    BY <2>1, <2>2, <2>3, <2>4, CallBecomes
<1>5. ASSUME NEW c \in Client, ReceiveReply(c) PROVE CallPart'
  <2>1. PICK m : call' = [call EXCEPT ![c] = Told(c, m.set)]
    BY <1>5 DEF ReceiveReply
  <2>2. PICK o : o = Outcome(c, m.set) /\ o.res \in {"app", "returned", "ouch"}
    BY OutcomeRes
  <2>3. PICK old : old = call[c] /\ old = [name |-> old.name, v |-> old.v,
                                           res |-> old.res, back |-> old.back]
    BY DEF CallPart
  <2>4. PICK new : new = Told(c, m.set)
    OBVIOUS
  <2>5. new = [name |-> old.name, v |-> old.v, res |-> o.res, back |-> o.back]
    <3>1. new = [old EXCEPT !.res = o.res, !.back = o.back]
      BY <2>2, <2>3, <2>4 DEF Told
    <3>2. QED
      BY <2>3, <3>1
  <2>6. /\ new = [name |-> new.name, v |-> new.v, res |-> new.res, back |-> new.back]
        /\ new.res = o.res
    BY <2>5
  <2>7. pc' = [pc EXCEPT ![c] = "idle"]
    BY <1>5 DEF ReceiveReply
  <2>8. QED
    BY <2>1, <2>2, <2>4, <2>6, <2>7, CallBecomes
<1>6. ASSUME NEW c \in Client, LoseReply(c) PROVE CallPart'
  <2>1. PICK old : old = call[c] /\ old = [name |-> old.name, v |-> old.v,
                                           res |-> old.res, back |-> old.back]
    BY DEF CallPart
  <2>2. PICK new : new = [old EXCEPT !.res = "transport"]
    OBVIOUS
  <2>3. call' = [call EXCEPT ![c] = new] /\ pc' = [pc EXCEPT ![c] = "idle"]
    BY <1>6, <2>1, <2>2 DEF LoseReply
  <2>4. /\ new = [name |-> new.name, v |-> new.v, res |-> new.res, back |-> new.back]
        /\ new.res = "transport"
    BY <2>1, <2>2
  <2>5. QED
    BY <2>3, <2>4, CallBecomes
<1>7. ASSUME NEW c \in Client, Leave(c) PROVE CallPart'
  <2>1. call' = [call EXCEPT ![c] = NoCall] /\ pc' = [pc EXCEPT ![c] = "gone"]
    BY <1>7 DEF Leave
  <2>2. PICK new : new = NoCall
    OBVIOUS
  <2>3. /\ new = [name |-> new.name, v |-> new.v, res |-> new.res, back |-> new.back]
        /\ new.res = "none"
    BY <2>2 DEF NoCall
  <2>4. QED
    BY <2>1, <2>2, <2>3, CallBecomes
<1>8. ASSUME NEW c \in Client, Serve(c) \/ Break(c) PROVE CallPart'
  <2>1. UNCHANGED <<pc, call>>
    BY <1>8 DEF Serve, Accept, Take, Receive, Unknown, Misread, Swallow, EndOfInput, Respond,
                Break, client
  <2>2. QED
    BY <1>1, <2>1
<1>9. CASE Stop \/ Join \/ Die
  <2>1. UNCHANGED <<pc, call>>
    BY <1>9 DEF Stop, Join, Die, client
  <2>2. QED
    BY <1>1, <2>1
<1>10. CASE UNCHANGED rpcvars
  BY <1>1, <1>10 DEF rpcvars
<1>11. QED
  BY <1>3, <1>4, <1>5, <1>6, <1>7, <1>8, <1>9, <1>10 DEF Next, Hear

LEMMA CountStep ==
  ASSUME CountPart, [Next]_rpcvars
  PROVE  CountPart'
<1>1. ASSUME UNCHANGED <<made, raised>>, faults' \in 0..MaxFaults PROVE CountPart'
  BY <1>1 DEF CountPart
<1>2. faults \in 0..MaxFaults /\ faults \in Nat /\ MaxFaults \in Nat
  BY RpcBoundAssumption DEF CountPart
<1>3. ASSUME NEW c \in Client, Call(c) \/ CallRaises(c) PROVE CountPart'
  <2>1. PICK kind : Makes(c, kind)
    BY <1>3 DEF Call, CallRaises
  <2>2. /\ made[c] < MaxCalls[c] /\ made' = [made EXCEPT ![c] = @ + 1]
        /\ faults' = (IF kind = "good" THEN faults ELSE faults + 1) /\ faults' <= MaxFaults
    BY <2>1 DEF Makes
  <2>3. faults' \in 0..MaxFaults
    BY <1>2, <2>2
  <2>4. PICK m \in Nat : m = made[c]
    BY DEF CountPart
  <2>5. /\ made' \in [Client -> Nat] /\ made'[c] = m + 1
        /\ \A d \in Client : d # c => made'[d] = made[d]
    BY <2>2, <2>4 DEF CountPart
  <2>6. made'[c] <= MaxCalls[c]
    BY <2>2, <2>4, <2>5, RpcBoundAssumption
  <2>7. raised' = raised \/ raised' = [raised EXCEPT ![c] = @ \cup {m + 1}]
    BY <1>3, <2>4 DEF Call, CallRaises
  <2>8. /\ raised' = [d \in Client |-> raised'[d]]
        /\ raised'[c] \subseteq raised[c] \cup {m + 1}
        /\ \A d \in Client : d # c => raised'[d] = raised[d]
    BY <2>7 DEF CountPart
  <2>9. raised[c] \subseteq 1..m
    BY <2>4 DEF CountPart
  <2>10. raised'[c] \subseteq 1..(m + 1)
    <3>1. 1..m \subseteq 1..(m + 1) /\ m + 1 \in 1..(m + 1)
      OBVIOUS
    <3>2. QED
      BY <2>8, <2>9, <3>1
  <2>11. QED
    BY <2>3, <2>5, <2>6, <2>8, <2>10 DEF CountPart
<1>4. ASSUME NEW c \in Client, Hear(c) \/ Leave(c) \/ Serve(c) PROVE CountPart'
  <2>1. UNCHANGED <<made, raised, faults>>
    BY <1>4 DEF Hear, ReceiveReply, LoseReply, Leave, Serve, Accept, Take, Receive, Unknown,
                Misread, Swallow, EndOfInput, Respond, client
  <2>2. QED
    BY <1>1, <1>2, <2>1
<1>5. ASSUME NEW c \in Client, Break(c) PROVE CountPart'
  <2>1. UNCHANGED <<made, raised>> /\ faults < MaxFaults /\ faults' = faults + 1
    BY <1>5 DEF Break, client
  <2>2. faults' \in 0..MaxFaults
    BY <1>2, <2>1
  <2>3. QED
    BY <1>1, <2>1, <2>2
<1>6. CASE Stop \/ Join \/ Die
  <2>1. UNCHANGED <<made, raised>> /\ (faults' = faults \/ (faults < MaxFaults /\ faults' = faults + 1))
    BY <1>6 DEF Stop, Join, Die, client
  <2>2. faults' \in 0..MaxFaults
    BY <1>2, <2>1
  <2>3. QED
    BY <1>1, <2>1, <2>2
<1>7. CASE UNCHANGED rpcvars
  <2>1. UNCHANGED <<made, raised, faults>>
    BY <1>7 DEF rpcvars
  <2>2. QED
    BY <1>1, <1>2, <2>1
<1>8. QED
  BY <1>3, <1>4, <1>5, <1>6, <1>7 DEF Next

\* What a handler may throw.
LEMMA Throws ==
  \A name \in Methods : Processes[name].throws \subseteq {"ouch", "std"}
<1>1. Methods = {"put", "puts", "get", "gets", "next_kv"}
  BY DEF Methods, Processes
<1>2. /\ process_put.throws \subseteq {"ouch", "std"} /\ process_puts.throws \subseteq {"ouch", "std"}
      /\ process_get.throws \subseteq {"ouch", "std"} /\ process_gets.throws \subseteq {"ouch", "std"}
      /\ process_next_kv.throws \subseteq {"ouch", "std"}
  BY DEF process_put, process_puts, process_get, process_gets, process_next_kv, Process
<1>3. /\ Processes["put"] = process_put /\ Processes["puts"] = process_puts
      /\ Processes["get"] = process_get /\ Processes["gets"] = process_gets
      /\ Processes["next_kv"] = process_next_kv
  BY DEF Processes
<1>4. QED
  BY <1>1, <1>2, <1>3

LEMMA RanStep ==
  ASSUME RanPart, WorkPart, [Next]_rpcvars
  PROVE  RanPart'
<1>1. ASSUME UNCHANGED ran PROVE RanPart'
  BY <1>1 DEF RanPart
<1>2. ASSUME NEW c \in Client, NEW r, ran' = [ran EXCEPT ![c] = r],
             r.how \in {"none", "returned", "ouch", "std"}
      PROVE  RanPart'
  <2>1. ran' = [d \in Client |-> ran'[d]]
    BY <1>2 DEF RanPart
  <2>2. \A d \in Client : ran'[d] = IF d = c THEN r ELSE ran[d]
    BY <1>2 DEF RanPart
  <2>3. QED
    BY <1>2, <2>1, <2>2 DEF RanPart
<1>3. ASSUME NEW c \in Client, Call(c) PROVE RanPart'
  <2>1. ran' = [ran EXCEPT ![c] = NoRun]
    BY <1>3 DEF Call
  <2>2. NoRun.how = "none"
    BY DEF NoRun
  <2>3. QED
    BY <1>2, <2>1, <2>2
<1>4. ASSUME NEW c \in Client, Respond(c) PROVE RanPart'
  <2>1. PICK how \in {"returned"} \cup Processes[job[c].name].throws :
          ran' = [ran EXCEPT ![c] = [name |-> job[c].name, n |-> job[c].n,
                                     v |-> job[c].v, how |-> how]]
    BY <1>4 DEF Respond
  <2>2. job[c].name \in Methods
    BY <1>4 DEF Respond, WorkPart
  <2>3. how \in {"none", "returned", "ouch", "std"}
    BY <2>2, Throws
  <2>4. [name |-> job[c].name, n |-> job[c].n, v |-> job[c].v, how |-> how].how = how
    OBVIOUS
  <2>5. QED
    BY <1>2, <2>1, <2>3, <2>4
<1>5. ASSUME NEW c \in Client, CallRaises(c) \/ Hear(c) \/ Leave(c) \/ Break(c) PROVE RanPart'
  <2>1. UNCHANGED ran
    BY <1>5 DEF CallRaises, Hear, ReceiveReply, LoseReply, Leave, Break, history
  <2>2. QED
    BY <1>1, <2>1
<1>6. ASSUME NEW c \in Client, Accept(c) \/ Take(c) \/ Receive(c) \/ Unknown(c) \/ Misread(c)
                              \/ Swallow(c) \/ EndOfInput(c)
      PROVE  RanPart'
  <2>1. UNCHANGED ran
    BY <1>6 DEF Accept, Take, Receive, Unknown, Misread, Swallow, EndOfInput, history
  <2>2. QED
    BY <1>1, <2>1
<1>7. CASE Stop \/ Join \/ Die
  <2>1. UNCHANGED ran
    BY <1>7 DEF Stop, Join, Die, history
  <2>2. QED
    BY <1>1, <2>1
<1>8. CASE UNCHANGED rpcvars
  BY <1>1, <1>8 DEF rpcvars
<1>9. QED
  BY <1>3, <1>4, <1>5, <1>6, <1>7, <1>8 DEF Next, Serve

-----------------------------------------------------------------------------
(* What a step does to a client's streams, calls and runs. *)

\* The client makes a call: it is sent behind what was in the buffer, nobody
\* hears it, or it stays in the buffer.
LEMMA RunsCall ==
  ASSUME NEW u, NEW w, NEW m \in Nat, NEW ts, RunsAt(u, w, m, ts),
         NEW q, CallStream(q, m, m + 1)
  PROVE  /\ RunsAt(u \o w \o q, << >>, m + 1, ts)
         /\ RunsAt(u, << >>, m + 1, ts)
         /\ RunsAt(u, w \o q, m + 1, ts)
<1>1. PICK l \in 0..m, k \in 0..m :
        /\ l <= k /\ CallStream(u, l, k) /\ CallStream(w, k, m)
        /\ \A n \in DOMAIN ts : ts[n] <= 1 /\ (n > l => ts[n] = 0)
  BY DEF RunsAt
<1>2. /\ l \in Nat /\ k \in Nat /\ m + 1 \in Nat /\ l <= m /\ k <= m /\ m <= m + 1
      /\ k <= m + 1 /\ m + 1 <= m + 1
      /\ l \in 0..(m + 1) /\ k \in 0..(m + 1) /\ m + 1 \in 0..(m + 1) /\ l <= m + 1
  BY <1>1
<1>3. CallStream(u \o w, l, m)
  BY <1>1, <1>2, StreamConcat
<1>4. PICK n1 \in Nat : n1 = m + 1
  BY <1>2
<1>5. CallStream((u \o w) \o q, l, n1) /\ CallStream(w \o q, k, n1)
  BY <1>1, <1>2, <1>3, <1>4, StreamConcat
<1>6. CallStream(<< >>, n1, n1) /\ CallStream(<< >>, k, n1)
  BY <1>2, StreamEmpty
<1>7. RunsAt(u \o w \o q, << >>, n1, ts)
  BY <1>1, <1>2, <1>4, <1>5, <1>6 DEF RunsAt
<1>8. RunsAt(u, << >>, n1, ts)
  BY <1>1, <1>2, <1>4, <1>6 DEF RunsAt
<1>9. RunsAt(u, w \o q, n1, ts)
  BY <1>1, <1>2, <1>4, <1>5 DEF RunsAt
<1>10. QED
  BY <1>4, <1>7, <1>8, <1>9

\* Something is lost: what is in the buffer, what is on its way, or the end
\* of that.
LEMMA RunsLose ==
  ASSUME NEW u, NEW w, NEW m \in Nat, NEW ts, RunsAt(u, w, m, ts)
  PROVE  /\ RunsAt(u, << >>, m, ts)
         /\ RunsAt(<< >>, w, m, ts)
         /\ \A i \in 0..Len(u) : RunsAt(SubSeq(u, 1, i), w, m, ts)
<1>1. PICK l \in 0..m, k \in 0..m :
        /\ l <= k /\ CallStream(u, l, k) /\ CallStream(w, k, m)
        /\ \A n \in DOMAIN ts : ts[n] <= 1 /\ (n > l => ts[n] = 0)
  BY DEF RunsAt
<1>2. l \in Nat /\ k \in Nat
  BY <1>1
<1>3. CallStream(<< >>, k, m) /\ CallStream(<< >>, l, k)
  BY <1>2, StreamEmpty
<1>4. RunsAt(u, << >>, m, ts) /\ RunsAt(<< >>, w, m, ts)
  BY <1>1, <1>3 DEF RunsAt
<1>5. ASSUME NEW i \in 0..Len(u) PROVE RunsAt(SubSeq(u, 1, i), w, m, ts)
  <2>1. Len(u) \in Nat
    BY <1>1, LenProperties DEF CallStream
  <2>2. i \in Nat /\ i <= Len(u) /\ 0 + 1 = 1 /\ 0 \in Nat
    BY <2>1
  <2>3. CallStream(SubSeq(u, 0 + 1, i), l, k)
    BY <1>1, <1>2, <2>2, StreamPart
  <2>4. CallStream(SubSeq(u, 1, i), l, k)
    BY <2>2, <2>3
  <2>5. QED
    BY <1>1, <2>4 DEF RunsAt
<1>6. QED
  BY <1>4, <1>5

\* The handler runs for the first call on its way: it is one that was made and
\* that never ran, and those that stay on their way come after it.
LEMMA RunsReceive ==
  ASSUME NEW u, NEW w, NEW m \in Nat, NEW M \in Nat, m <= M, NEW ts \in [1..M -> Nat],
         RunsAt(u, w, m, ts), u # << >>
  PROVE  /\ u[1].n \in 1..m
         /\ LET new == [ts EXCEPT ![u[1].n] = @ + 1] IN
            /\ new \in [1..M -> Nat] /\ new[u[1].n] > 0
            /\ RunsAt(<< >>, w, m, new)
            /\ \A a \in DOMAIN u : u[a].t = "stop" =>
                 RunsAt(SubSeq(u, a + 1, Len(u)), w, m, new)
<1>1. PICK l \in 0..m, k \in 0..m :
        /\ l <= k /\ CallStream(u, l, k) /\ CallStream(w, k, m)
        /\ \A n \in DOMAIN ts : ts[n] <= 1 /\ (n > l => ts[n] = 0)
  BY DEF RunsAt
<1>2. u \in Seq(Token) /\ u[1].t = "begin"
  BY <1>1 DEF CallStream
<1>3. PICK z \in Nat : z = Len(u) /\ DOMAIN u = 1..z
  BY <1>2, LenProperties
<1>4. 1 \in DOMAIN u
  <2>1. z # 0
    BY <1>2, <1>3, EmptySeq
  <2>2. QED
    BY <1>3, <2>1
<1>5. PICK n \in Nat : n = u[1].n
  <2>1. u[1] \in Token
    BY <1>2, <1>3, <1>4, ElementOfSeq
  <2>2. \A x \in Token : x.t = "begin" => x.n \in Nat
    BY DEF Token, Length, Elements, FieldStop
  <2>3. QED
    BY <1>2, <2>1, <2>2
<1>6. l < n /\ n <= k
  BY <1>1, <1>2, <1>4, <1>5 DEF CallStream
<1>7. n \in 1..m /\ n \in 1..M /\ n \in 0..m /\ n <= k /\ k \in Nat
  BY <1>1, <1>6
<1>8. PICK new \in [1..M -> Nat] : new = [ts EXCEPT ![n] = @ + 1]
  <2>1. ts[n] + 1 \in Nat
    BY <1>7
  <2>2. [ts EXCEPT ![n] = @ + 1] \in [1..M -> Nat]
    BY <2>1
  <2>3. QED
    BY <2>2, Zenon
<1>9. ts[n] = 0
  BY <1>1, <1>6, <1>7
<1>10. new[n] = 1 /\ \A i \in 1..M : i # n => new[i] = ts[i]
  BY <1>7, <1>8, <1>9
<1>11. \A i \in DOMAIN new : new[i] <= 1 /\ (i > n => new[i] = 0)
  <2>1. DOMAIN new = 1..M /\ DOMAIN ts = 1..M
    BY <1>8
  <2>2. ASSUME NEW i \in 1..M PROVE new[i] <= 1 /\ (i > n => new[i] = 0)
    <3>1. CASE i = n
      BY <1>10, <3>1
    <3>2. CASE i # n
      <4>1. new[i] = ts[i] /\ ts[i] <= 1 /\ (i > l => ts[i] = 0)
        BY <1>1, <1>10, <2>1, <3>2
      <4>2. i > n => i > l
        BY <1>1, <1>6
      <4>3. QED
        BY <4>1, <4>2
    <3>3. QED
      BY <3>1, <3>2
  <2>3. QED
    BY <2>1, <2>2
<1>12. RunsAt(<< >>, w, m, new)
  <2>1. CallStream(<< >>, n, k)
    BY <1>7, StreamEmpty
  <2>2. QED
    BY <1>1, <1>7, <1>11, <2>1 DEF RunsAt
<1>13. ASSUME NEW a \in DOMAIN u, u[a].t = "stop"
       PROVE  RunsAt(SubSeq(u, a + 1, Len(u)), w, m, new)
  <2>1. a \in Nat /\ a # 0 /\ z <= Len(u) /\ l \in Nat
    BY <1>1, <1>3
  <2>2. CallStream(SubSeq(u, a + 1, z), n, k)
    BY <1>1, <1>5, <1>7, <1>13, <2>1, StreamPart
  <2>3. CallStream(SubSeq(u, a + 1, Len(u)), n, k)
    BY <1>3, <2>2
  <2>4. QED
    BY <1>1, <1>7, <1>11, <2>3 DEF RunsAt
<1>14. new[n] > 0
  BY <1>10
<1>15. QED
  BY <1>5, <1>7, <1>8, <1>12, <1>13, <1>14

\* A worker's struct that is read well ends with a stop behind the header.
LEMMA IncomingEnds ==
  ASSUME NEW u \in Seq(Token), u # << >>, NEW s, NEW m \in ReadStruct(s, Tail(u)), m.end = "ok"
  PROVE  /\ m.used + 1 \in DOMAIN u /\ u[m.used + 1].t = "stop"
         /\ m.used + 2 = (m.used + 1) + 1
<1>1. PICK e : e = m.used /\ e \in DOMAIN Tail(u) /\ Tail(u)[e].t = "stop"
  BY ReadEnds
<1>2. PICK z \in Nat : z = Len(u) /\ DOMAIN u = 1..z
  BY LenProperties
<1>3. Tail(u) \in Seq(Token) /\ Len(Tail(u)) = z - 1 /\ \A i \in 1..(z - 1) : Tail(u)[i] = u[i + 1]
  BY <1>2, HeadTailProperties
<1>4. z # 0
  BY <1>2, EmptySeq
<1>5. DOMAIN Tail(u) = 1..(z - 1)
  BY <1>3, LenProperties
<1>6. e \in 1..(z - 1)
  BY <1>1, <1>5
<1>7. e + 1 \in 1..z /\ u[e + 1] = Tail(u)[e] /\ e + 2 = (e + 1) + 1
  BY <1>3, <1>4, <1>6
<1>8. QED
  BY <1>1, <1>2, <1>7

\* A step that changes the streams, calls and runs of one client at most.
LEMMA WorkBecomes ==
  ASSUME WorkPart, NEW c \in Client, serves' = serves,
         NEW u, up' = [up EXCEPT ![c] = u], NEW w, wbuf' = [wbuf EXCEPT ![c] = w],
         NEW ts \in [1..MaxCalls[c] -> Nat], times' = [times EXCEPT ![c] = ts],
         NEW j, job' = [job EXCEPT ![c] = j],
         NEW m, made'[c] = m, \A d \in Client : d # c => made'[d] = made[d],
         RunsAt(u, w, m, ts), j = [name |-> j.name, n |-> j.n, v |-> j.v],
         j # NoJob => j.name \in Methods /\ j.n \in 1..m /\ ts[j.n] > 0
  PROVE  WorkPart'
<1>1. /\ up'[c] = u /\ wbuf'[c] = w /\ times'[c] = ts /\ job'[c] = j
      /\ \A d \in Client : d # c => /\ up'[d] = up[d] /\ wbuf'[d] = wbuf[d]
                                    /\ times'[d] = times[d] /\ job'[d] = job[d]
  BY DEF WorkPart
<1>2. /\ up' = [d \in Client |-> up'[d]] /\ wbuf' = [d \in Client |-> wbuf'[d]]
      /\ times' = [d \in Client |-> times'[d]] /\ job' = [d \in Client |-> job'[d]]
  BY DEF WorkPart
<1>3. ASSUME NEW d \in Client
      PROVE  /\ times'[d] \in [1..MaxCalls[d] -> Nat]
             /\ RunsAt(up'[d], wbuf'[d], made'[d], times'[d])
             /\ job'[d] = [name |-> job'[d].name, n |-> job'[d].n, v |-> job'[d].v]
             /\ job'[d] # NoJob => /\ job'[d].name \in Methods /\ job'[d].n \in 1..made'[d]
                                   /\ times'[d][job'[d].n] > 0
  <2>1. CASE d = c
    BY <1>1, <2>1
  <2>2. CASE d # c
    <3>1. /\ up'[d] = up[d] /\ wbuf'[d] = wbuf[d] /\ times'[d] = times[d]
          /\ job'[d] = job[d] /\ made'[d] = made[d]
      BY <1>1, <2>2
    <3>2. /\ times[d] \in [1..MaxCalls[d] -> Nat]
          /\ RunsAt(up[d], wbuf[d], made[d], times[d])
          /\ job[d] = [name |-> job[d].name, n |-> job[d].n, v |-> job[d].v]
          /\ job[d] # NoJob => /\ job[d].name \in Methods /\ job[d].n \in 1..made[d]
                               /\ times[d][job[d].n] > 0
      BY DEF WorkPart
    <3>3. QED
      BY <3>1, <3>2
  <2>3. QED
    BY <2>1, <2>2
<1>4. serves' \in {"write", "read", "trav"}
  BY DEF WorkPart
<1>5. QED
  BY <1>2, <1>3, <1>4 DEF WorkPart

\* What a client's part may stay as it is.
LEMMA Stays ==
  ASSUME WorkPart, NEW c \in Client
  PROVE  /\ up = [up EXCEPT ![c] = up[c]] /\ wbuf = [wbuf EXCEPT ![c] = wbuf[c]]
         /\ times = [times EXCEPT ![c] = times[c]] /\ job = [job EXCEPT ![c] = job[c]]
         /\ times[c] \in [1..MaxCalls[c] -> Nat]
         /\ RunsAt(up[c], wbuf[c], made[c], times[c])
         /\ job[c] = [name |-> job[c].name, n |-> job[c].n, v |-> job[c].v]
         /\ job[c] # NoJob =>
              job[c].name \in Methods /\ job[c].n \in 1..made[c] /\ times[c][job[c].n] > 0
BY DEF WorkPart

\* The methods that a client may call, and those of a service, are methods.
LEMMA Callable ==
  ASSUME WorkPart
  PROVE  /\ processMap \subseteq Methods
         /\ \A c, kind : Calls(c, kind) \subseteq Methods
<1>1. Methods = {"put", "puts", "get", "gets", "next_kv"}
  BY DEF Methods, Processes
<1>2. processMap \in {{"put", "puts"}, {"get", "gets"}, {"next_kv"}}
  BY DEF WorkPart, processMap, write_map, read_map, trav_map
<1>3. processMap \subseteq Methods
  BY <1>1, <1>2
<1>4. \A c, kind : Calls(c, kind) \in {Methods \ processMap, processMap,
        {name \in processMap : ArgType(name) \in {"string", "list"}},
        {name \in processMap : ArgType(name) = "list"}}
  BY Zenon DEF Calls
<1>5. QED
  BY <1>3, <1>4

LEMMA WorkCalls ==
  ASSUME WorkPart, CountPart, NEW c \in Client, Call(c) \/ CallRaises(c)
  PROVE  WorkPart'
<1>1. PICK kind \in {"good", "none", "foreign", "wrong", "unicode", "element"} :
        /\ Makes(c, kind)
        /\ \/ /\ kind \in {"good", "none", "foreign"} /\ wbuf' = [wbuf EXCEPT ![c] = << >>]
              /\ \E name \in Calls(c, kind) : up' = [up EXCEPT ![c] = IF Reachable(c)
                   THEN @ \o wbuf[c] \o Request(c, name, made[c] + 1, kind) ELSE @]
           \/ \E name \in Calls(c, kind) : /\ up' = up
                /\ wbuf' = [wbuf EXCEPT ![c] = @ \o Request(c, name, made[c] + 1, kind)]
  BY DEF Call, CallRaises, stream
<1>2. serves' = serves /\ job' = job /\ times' = times
  BY DEF Call, CallRaises, server, history
<1>3. PICK m \in Nat : m = made[c]
  BY DEF CountPart
<1>4. made'[c] = m + 1 /\ \A d \in Client : d # c => made'[d] = made[d]
  BY <1>1, <1>3 DEF Makes, CountPart
<1>5. PICK name \in Methods :
        \/ /\ wbuf' = [wbuf EXCEPT ![c] = << >>]
           /\ up' = [up EXCEPT ![c] = IF Reachable(c)
                THEN @ \o wbuf[c] \o Request(c, name, m + 1, kind) ELSE @]
        \/ /\ up' = up
           /\ wbuf' = [wbuf EXCEPT ![c] = @ \o Request(c, name, m + 1, kind)]
  BY <1>1, <1>3, Callable
<1>6. PICK q : q = Request(c, name, m + 1, kind)
  OBVIOUS
<1>7. CallStream(q, m, m + 1)
  <2>1. m + 1 \in Nat \ {0} /\ m < m + 1
    OBVIOUS
  <2>2. PICK n1 \in Nat \ {0} : n1 = m + 1 /\ m < n1
    BY <2>1
  <2>3. CallStream(Request(c, name, n1, kind), m, n1)
    BY <2>2, StreamRequest
  <2>4. QED
    BY <1>6, <2>2, <2>3
<1>8. /\ RunsAt(up[c] \o wbuf[c] \o q, << >>, m + 1, times[c])
      /\ RunsAt(up[c], << >>, m + 1, times[c])
      /\ RunsAt(up[c], wbuf[c] \o q, m + 1, times[c])
  <2>1. RunsAt(up[c], wbuf[c], m, times[c])
    BY <1>3, Stays
  <2>2. QED
    BY <1>7, <2>1, RunsCall
<1>9. job[c] # NoJob =>
        job[c].name \in Methods /\ job[c].n \in 1..(m + 1) /\ times[c][job[c].n] > 0
  <2>1. 1..m \subseteq 1..(m + 1)
    OBVIOUS
  <2>2. QED
    BY <1>3, <2>1, Stays
<1>10. PICK u, w : /\ up' = [up EXCEPT ![c] = u] /\ wbuf' = [wbuf EXCEPT ![c] = w]
                   /\ RunsAt(u, w, m + 1, times[c])
  <2>1. CASE /\ wbuf' = [wbuf EXCEPT ![c] = << >>] /\ Reachable(c)
             /\ up' = [up EXCEPT ![c] = @ \o wbuf[c] \o q]
    BY <1>8, <2>1
  <2>2. CASE wbuf' = [wbuf EXCEPT ![c] = << >>] /\ up' = up
    BY <1>8, <2>2, Stays
  <2>3. CASE up' = up /\ wbuf' = [wbuf EXCEPT ![c] = @ \o q]
    BY <1>8, <2>3, Stays
  <2>4. ~Reachable(c) /\ up' = [up EXCEPT ![c] = IF Reachable(c) THEN @ \o wbuf[c] \o q ELSE @]
          => up' = up
    BY DEF WorkPart
  <2>5. QED
    BY <1>5, <1>6, <2>1, <2>2, <2>3, <2>4
<1>11. /\ times' = [times EXCEPT ![c] = times[c]] /\ job' = [job EXCEPT ![c] = job[c]]
       /\ times[c] \in [1..MaxCalls[c] -> Nat]
       /\ job[c] = [name |-> job[c].name, n |-> job[c].n, v |-> job[c].v]
  BY <1>2, Stays
<1>12. QED
  BY <1>2, <1>4, <1>9, <1>10, <1>11, WorkBecomes

LEMMA WorkReceives ==
  ASSUME WorkPart, CountPart, NEW c \in Client, Receive(c)
  PROVE  WorkPart'
<1>1. PICK m \in Incoming(c) :
        /\ m.end \in {"ok", "junk"} /\ up[c][1].name \in processMap
        /\ \E v : job' = [job EXCEPT ![c] = [name |-> up[c][1].name, n |-> up[c][1].n, v |-> v]]
        /\ times' = [times EXCEPT ![c][up[c][1].n] = @ + 1]
        /\ up'   = [up EXCEPT ![c] =
             IF m.end = "junk" THEN << >> ELSE SubSeq(@, m.used + 2, Len(@))]
  BY DEF Receive
<1>2. serves' = serves /\ wbuf' = wbuf /\ made' = made
  BY DEF Receive, server, client
<1>3. PICK k \in Nat : k = made[c]
  BY DEF CountPart
<1>4. PICK M \in Nat : M = MaxCalls[c]
  BY RpcBoundAssumption
<1>5. PICK u, w, ts : u = up[c] /\ w = wbuf[c] /\ ts = times[c]
  OBVIOUS
<1>6. u # << >> /\ RunsAt(u, w, k, ts) /\ ts \in [1..M -> Nat] /\ k <= M
  BY <1>1, <1>3, <1>4, <1>5, Stays, IncomingServed DEF CountPart
<1>7. PICK n, new : n = u[1].n /\ new = [ts EXCEPT ![n] = @ + 1]
  OBVIOUS
<1>8. /\ n \in 1..k /\ new \in [1..M -> Nat] /\ new[n] > 0
      /\ RunsAt(<< >>, w, k, new)
      /\ \A a \in DOMAIN u : u[a].t = "stop" => RunsAt(SubSeq(u, a + 1, Len(u)), w, k, new)
  BY <1>6, <1>7, RunsReceive
<1>9. PICK rest : /\ up' = [up EXCEPT ![c] = rest] /\ RunsAt(rest, w, k, new)
  <2>1. CASE m.end = "junk"
    <3>1. up' = [up EXCEPT ![c] = << >>]
      BY <1>1, <2>1
    <3>2. QED
      BY <1>8, <3>1
  <2>2. CASE m.end = "ok"
    <3>1. up' = [up EXCEPT ![c] = SubSeq(u, m.used + 2, Len(u))]
      BY <1>1, <1>5, <2>2
    <3>2. u \in Seq(Token)
      BY <1>6 DEF RunsAt, CallStream
    <3>3. PICK s : m \in ReadStruct(s, Tail(u))
      BY <1>1, <1>5 DEF Incoming
    <3>4. /\ m.used + 1 \in DOMAIN u /\ u[m.used + 1].t = "stop"
          /\ m.used + 2 = (m.used + 1) + 1
      BY <1>6, <2>2, <3>2, <3>3, IncomingEnds
    <3>5. RunsAt(SubSeq(u, m.used + 2, Len(u)), w, k, new)
      BY <1>8, <3>4
    <3>6. QED
      BY <3>1, <3>5
  <2>3. QED
    BY <1>1, <2>1, <2>2
<1>10. PICK j : /\ job' = [job EXCEPT ![c] = j] /\ j.name \in Methods /\ j.n = n
               /\ j = [name |-> j.name, n |-> j.n, v |-> j.v]
  <2>1. PICK v : job' = [job EXCEPT ![c] = [name |-> up[c][1].name, n |-> up[c][1].n, v |-> v]]
    BY <1>1
  <2>2. up[c][1].name \in Methods /\ up[c][1].n = n
    BY <1>1, <1>5, <1>7, Callable
  <2>3. PICK j : j = [name |-> up[c][1].name, n |-> up[c][1].n, v |-> v]
    OBVIOUS
  <2>4. /\ j.name \in Methods /\ j.n = n
        /\ j = [name |-> j.name, n |-> j.n, v |-> j.v]
    BY <2>2, <2>3
  <2>5. job' = [job EXCEPT ![c] = j]
    BY <2>1, <2>3
  <2>6. QED
    BY <2>4, <2>5
<1>11. times' = [times EXCEPT ![c] = new]
  <2>1. times' = [times EXCEPT ![c] = [times[c] EXCEPT ![up[c][1].n] = @ + 1]]
    BY <1>1
  <2>2. QED
    BY <1>5, <1>7, <2>1
<1>12. wbuf' = [wbuf EXCEPT ![c] = w]
  BY <1>2, <1>5, Stays
<1>13. made'[c] = k /\ \A d \in Client : d # c => made'[d] = made[d]
  BY <1>2, <1>3
<1>14. QED
  BY <1>2, <1>4, <1>8, <1>9, <1>10, <1>11, <1>12, <1>13, WorkBecomes

\* A step that leaves the runs and the number of calls alone: something is
\* lost at most, or a run ends.
Loses(c) ==
  /\ serves' = serves /\ made' = made /\ times' = times
  /\ \/ up' = up
     \/ up' = [up EXCEPT ![c] = << >>]
     \/ \E i \in 0..Len(up[c]) : up' = [up EXCEPT ![c] = SubSeq(@, 1, i)]
  /\ wbuf' = wbuf \/ (up' = up /\ wbuf' = [wbuf EXCEPT ![c] = << >>])
  /\ job' = job \/ job' = [job EXCEPT ![c] = NoJob]

LEMMA WorkLoses ==
  ASSUME WorkPart, CountPart, NEW c \in Client, Loses(c)
  PROVE  WorkPart'
<1>1. made[c] \in Nat /\ RunsAt(up[c], wbuf[c], made[c], times[c])
  BY DEF CountPart, WorkPart
<1>2. /\ RunsAt(up[c], << >>, made[c], times[c])
      /\ RunsAt(<< >>, wbuf[c], made[c], times[c])
      /\ \A i \in 0..Len(up[c]) : RunsAt(SubSeq(up[c], 1, i), wbuf[c], made[c], times[c])
  BY <1>1, RunsLose
<1>3. PICK u, w : /\ up' = [up EXCEPT ![c] = u] /\ wbuf' = [wbuf EXCEPT ![c] = w]
                  /\ RunsAt(u, w, made[c], times[c])
  <2>1. CASE up' = up /\ wbuf' = wbuf
    BY <1>1, <2>1, Stays
  <2>2. CASE up' = up /\ wbuf' = [wbuf EXCEPT ![c] = << >>]
    BY <1>2, <2>2, Stays
  <2>3. CASE up' = [up EXCEPT ![c] = << >>] /\ wbuf' = wbuf
    BY <1>2, <2>3, Stays
  <2>4. ASSUME NEW i \in 0..Len(up[c]), up' = [up EXCEPT ![c] = SubSeq(@, 1, i)], wbuf' = wbuf
        PROVE  \E u, w : /\ up' = [up EXCEPT ![c] = u] /\ wbuf' = [wbuf EXCEPT ![c] = w]
                         /\ RunsAt(u, w, made[c], times[c])
    <3>1. up' = [up EXCEPT ![c] = SubSeq(up[c], 1, i)]
      BY <2>4
    <3>2. wbuf' = [wbuf EXCEPT ![c] = wbuf[c]]
      BY <2>4, Stays
    <3>3. QED
      BY <1>2, <3>1, <3>2
  <2>5. QED
    BY <2>1, <2>2, <2>3, <2>4 DEF Loses
<1>4. PICK j : /\ job' = [job EXCEPT ![c] = j]
               /\ j = [name |-> j.name, n |-> j.n, v |-> j.v]
               /\ j # NoJob => j.name \in Methods /\ j.n \in 1..made[c] /\ times[c][j.n] > 0
  <2>1. CASE job' = job
    BY <2>1, Stays
  <2>2. CASE job' = [job EXCEPT ![c] = NoJob]
    BY <2>2, NoJobIs
  <2>3. QED
    BY <2>1, <2>2 DEF Loses
<1>5. times' = [times EXCEPT ![c] = times[c]] /\ times[c] \in [1..MaxCalls[c] -> Nat]
  BY Stays DEF Loses
<1>6. made'[c] = made[c] /\ \A d \in Client : d # c => made'[d] = made[d]
  BY DEF Loses
<1>7. serves' = serves
  BY DEF Loses
<1>8. QED
  BY <1>3, <1>4, <1>5, <1>6, <1>7, WorkBecomes

LEMMA WorkStep ==
  ASSUME WorkPart, CountPart, [Next]_rpcvars
  PROVE  WorkPart'
<1>1. ASSUME UNCHANGED <<serves, up, wbuf, times, job, made>> PROVE WorkPart'
  BY <1>1 DEF WorkPart
<1>2. ASSUME NEW c \in Client, Call(c) \/ CallRaises(c) PROVE WorkPart'
  BY <1>2, WorkCalls
<1>3. ASSUME NEW c \in Client, Hear(c) \/ Accept(c) \/ Take(c) \/ EndOfInput(c) PROVE WorkPart'
  <2>1. UNCHANGED <<serves, up, wbuf, times, job, made>>
    BY <1>3 DEF Hear, ReceiveReply, LoseReply, Accept, Take, EndOfInput,
                server, stream, client, history
  <2>2. QED
    BY <1>1, <2>1
<1>4. ASSUME NEW c \in Client, Leave(c) PROVE WorkPart'
  <2>1. /\ serves' = serves /\ made' = made /\ times' = times /\ up' = up /\ job' = job
        /\ wbuf' = [wbuf EXCEPT ![c] = << >>]
    BY <1>4 DEF Leave, server, stream, history
  <2>2. QED
    BY <2>1, WorkLoses DEF Loses
<1>5. ASSUME NEW c \in Client, Receive(c) PROVE WorkPart'
  BY <1>5, WorkReceives
<1>6. ASSUME NEW c \in Client, Unknown(c) \/ Misread(c) \/ Swallow(c) PROVE WorkPart'
  <2>1. /\ serves' = serves /\ made' = made /\ times' = times /\ wbuf' = wbuf /\ job' = job
        /\ up' = [up EXCEPT ![c] = << >>]
    BY <1>6 DEF Unknown, Misread, Swallow, server, client, history
  <2>2. QED
    BY <2>1, WorkLoses DEF Loses
<1>7. ASSUME NEW c \in Client, Respond(c) PROVE WorkPart'
  <2>1. /\ serves' = serves /\ made' = made /\ times' = times /\ wbuf' = wbuf /\ up' = up
        /\ job' = [job EXCEPT ![c] = NoJob]
    BY <1>7 DEF Respond, server, client
  <2>2. QED
    BY <2>1, WorkLoses DEF Loses
<1>8. ASSUME NEW c \in Client, Break(c) PROVE WorkPart'
  <2>1. /\ serves' = serves /\ made' = made /\ times' = times /\ wbuf' = wbuf /\ job' = job
        /\ \E i \in 0..Len(up[c]) : up' = [up EXCEPT ![c] = SubSeq(@, 1, i)]
    BY <1>8 DEF Break, server, client, history
  <2>2. QED
    BY <2>1, WorkLoses DEF Loses
<1>9. CASE Stop \/ Join
  <2>1. UNCHANGED <<serves, up, wbuf, times, job, made>>
    BY <1>9 DEF Stop, Join, stream, client, history
  <2>2. QED
    BY <1>1, <2>1
<1>10. CASE Die
  <2>1. /\ serves' = serves /\ made' = made /\ times' = times /\ wbuf' = wbuf
        /\ job' = [d \in Client |-> NoJob] /\ up' = [d \in Client |-> << >>]
    BY <1>10 DEF Die, client, history
  <2>2. ASSUME NEW d \in Client
        PROVE  /\ times'[d] \in [1..MaxCalls[d] -> Nat]
               /\ RunsAt(up'[d], wbuf'[d], made'[d], times'[d])
               /\ job'[d] = NoJob
    <3>1. made[d] \in Nat /\ RunsAt(up[d], wbuf[d], made[d], times[d])
      BY DEF CountPart, WorkPart
    <3>2. RunsAt(<< >>, wbuf[d], made[d], times[d])
      BY <3>1, RunsLose
    <3>3. up'[d] = << >> /\ job'[d] = NoJob
      BY <2>1
    <3>4. times[d] \in [1..MaxCalls[d] -> Nat]
      BY DEF WorkPart
    <3>5. QED
      BY <2>1, <3>2, <3>3, <3>4
  <2>3. job' = [d \in Client |-> job'[d]] /\ up' = [d \in Client |-> up'[d]]
    BY <2>1
  <2>4. \A d \in Client : job'[d] = [name |-> job'[d].name, n |-> job'[d].n, v |-> job'[d].v]
    BY <2>2, NoJobIs
  <2>5. QED
    BY <2>1, <2>2, <2>3, <2>4 DEF WorkPart
<1>11. CASE UNCHANGED rpcvars
  BY <1>1, <1>11 DEF rpcvars
<1>12. QED
  BY <1>2, <1>3, <1>4, <1>5, <1>6, <1>7, <1>8, <1>9, <1>10, <1>11 DEF Next, Serve

-----------------------------------------------------------------------------
(* The invariant and what follows from it. *)

LEMMA RpcInit == ASSUME Init PROVE RpcInv
<1>1. ConnPart
  <2>1. /\ phase = "serving" /\ conn = [c \in Client |-> "backlog"]
        /\ job = [c \in Client |-> NoJob]
    BY DEF Init
  <2>2. {c \in Client : conn[c] = "served"} = {}
    BY <2>1
  <2>3. IsFiniteSet({}) /\ Cardinality({}) = 0
    BY FS_EmptySet
  <2>4. 0 <= Workers
    BY PoolAssumption
  <2>5. QED
    BY <2>1, <2>2, <2>3, <2>4 DEF ConnPart, StopWaits
<1>2. CallPart
  <2>1. pc = [c \in Client |-> "idle"] /\ call = [c \in Client |-> NoCall]
    BY DEF Init
  <2>2. /\ NoCall = [name |-> NoCall.name, v |-> NoCall.v, res |-> NoCall.res, back |-> NoCall.back]
        /\ NoCall.res = "none"
    BY DEF NoCall
  <2>3. QED
    BY <2>1, <2>2 DEF CallPart
<1>3. CountPart
  <2>1. /\ faults = 0 /\ made = [c \in Client |-> 0] /\ raised = [c \in Client |-> {}]
    BY DEF Init
  <2>2. 0 \in 0..MaxFaults /\ \A c \in Client : 0 <= MaxCalls[c]
    BY RpcBoundAssumption
  <2>3. QED
    BY <2>1, <2>2 DEF CountPart
<1>4. RanPart
  <2>1. ran = [c \in Client |-> NoRun]
    BY DEF Init
  <2>2. NoRun.how = "none"
    BY DEF NoRun
  <2>3. QED
    BY <2>1, <2>2 DEF RanPart
<1>5. WorkPart
  <2>1. /\ serves \in {"write", "read", "trav"}
        /\ up = [c \in Client |-> << >>] /\ wbuf = [c \in Client |-> << >>]
        /\ made = [c \in Client |-> 0] /\ job = [c \in Client |-> NoJob]
        /\ times = [c \in Client |-> [n \in 1..MaxCalls[c] |-> 0]]
    BY DEF Init
  <2>2. ASSUME NEW c \in Client
        PROVE  /\ times[c] \in [1..MaxCalls[c] -> Nat]
               /\ RunsAt(up[c], wbuf[c], made[c], times[c])
    <3>1. /\ up[c] = << >> /\ wbuf[c] = << >> /\ made[c] = 0
          /\ times[c] = [n \in 1..MaxCalls[c] |-> 0]
      BY <2>1
    <3>2. CallStream(<< >>, 0, 0)
      BY StreamEmpty
    <3>3. \A n \in DOMAIN times[c] : times[c][n] <= 1 /\ (n > 0 => times[c][n] = 0)
      BY <3>1
    <3>4. 0 \in 0..0 /\ 0 <= 0
      OBVIOUS
    <3>5. RunsAt(<< >>, << >>, 0, times[c])
      BY <3>2, <3>3, <3>4 DEF RunsAt
    <3>6. QED
      BY <3>1, <3>5
  <2>3. \A c \in Client : job[c] = NoJob
    BY <2>1
  <2>4. QED
    BY <2>1, <2>2, <2>3, NoJobIs DEF WorkPart
<1>6. QED
  BY <1>1, <1>2, <1>3, <1>4, <1>5, PartsMake

\* The invariant holds of every number of clients and workers: what is on its
\* way to the server and in the clients' buffers are calls in their order, none
\* of which has run, and the workers run calls of connections that are served.
THEOREM RpcCorrect == Spec => []RpcInv
<1>1. Init => RpcInv
  BY RpcInit
<1>2. RpcInv /\ [Next]_rpcvars => RpcInv'
  <2>1. SUFFICES ASSUME RpcInv, [Next]_rpcvars PROVE RpcInv'
    OBVIOUS
  <2>2. ConnPart /\ CallPart /\ CountPart /\ RanPart /\ WorkPart
    BY <2>1, PartsHold
  <2>3. ConnPart' /\ CallPart' /\ CountPart' /\ RanPart' /\ WorkPart'
    BY <2>1, <2>2, ConnStep, CallStep, CountStep, RanStep, WorkStep
  <2>4. QED
    BY <2>3, PartsMake, PTL
<1>3. QED
  BY <1>1, <1>2, PTL DEF Spec

\* Every variable keeps its type, no more connections are served than there are
\* workers, and a call is waited for exactly as long as it has no answer.
THEOREM RpcTypes == Spec => []TypeOK
<1>1. RpcInv => TypeOK
  BY DEF RpcInv
<1>2. QED
  BY <1>1, RpcCorrect, PTL

\* No call makes the handler run twice: not where the connection breaks or the
\* server dies, and not where the client sends, behind the bytes that an earlier
\* failure left in its buffer, the next call.
THEOREM RunsOnce == Spec => []AtMostOnce
<1>1. RpcInv => AtMostOnce
  BY DEF RpcInv, RunsInv, AtMostOnce
<1>2. QED
  BY <1>1, RpcCorrect, PTL

\* serve() returns only when no worker runs a handler and no connection waits
\* for one, so the destructor of the handler meets nobody.
THEOREM StopsClean == Spec => []StopWaits
<1>1. RpcInv => StopWaits
  BY DEF RpcInv
<1>2. QED
  BY <1>1, RpcCorrect, PTL

-----------------------------------------------------------------------------
(* The answers. *)

Args(name)   == Processes[name].args
Result(name) == Processes[name].result

\* The client and the server have the same structs for a method.
LEMMA SameStructs ==
  ASSUME NEW lang \in {"cpp", "py"}, NEW name \in Methods
  PROVE  Stubs[lang][name].args = Args(name) /\ Stubs[lang][name].result = Result(name)
<1>1. name \in {"put", "puts", "get", "gets", "next_kv"}
  BY DEF Methods, Processes
<1>2. /\ Processes["put"] = process_put /\ Processes["puts"] = process_puts
      /\ Processes["get"] = process_get /\ Processes["gets"] = process_gets
      /\ Processes["next_kv"] = process_next_kv
  BY DEF Processes
<1>3. CASE lang = "cpp"
  <2>1. /\ Stubs["cpp"]["put"] = cpp_put /\ Stubs["cpp"]["puts"] = cpp_puts
        /\ Stubs["cpp"]["get"] = cpp_get /\ Stubs["cpp"]["gets"] = cpp_gets
        /\ Stubs["cpp"]["next_kv"] = cpp_next_kv
    BY DEF Stubs
  <2>2. /\ cpp_put.args = process_put.args /\ cpp_put.result = process_put.result
        /\ cpp_puts.args = process_puts.args /\ cpp_puts.result = process_puts.result
        /\ cpp_get.args = process_get.args /\ cpp_get.result = process_get.result
        /\ cpp_gets.args = process_gets.args /\ cpp_gets.result = process_gets.result
        /\ cpp_next_kv.args = process_next_kv.args
        /\ cpp_next_kv.result = process_next_kv.result
    BY DEF cpp_put, cpp_puts, cpp_get, cpp_gets, cpp_next_kv, Stub, Process,
           process_put, process_puts, process_get, process_gets, process_next_kv
  <2>3. QED
    BY <1>1, <1>2, <1>3, <2>1, <2>2 DEF Args, Result
<1>4. CASE lang = "py"
  <2>1. /\ Stubs["py"]["put"] = py_put /\ Stubs["py"]["puts"] = py_puts
        /\ Stubs["py"]["get"] = py_get /\ Stubs["py"]["gets"] = py_gets
        /\ Stubs["py"]["next_kv"] = py_next_kv
    BY DEF Stubs
  <2>2. /\ py_put.args = process_put.args /\ py_put.result = process_put.result
        /\ py_puts.args = process_puts.args /\ py_puts.result = process_puts.result
        /\ py_get.args = process_get.args /\ py_get.result = process_get.result
        /\ py_gets.args = process_gets.args /\ py_gets.result = process_gets.result
    <3>1. /\ py_put_args = put_args /\ py_put_result = put_result
          /\ py_puts_args = puts_args /\ py_puts_result = puts_result
          /\ py_get_args = get_args /\ py_get_result = get_result
          /\ py_gets_args = gets_args /\ py_gets_result = gets_result
      BY DEF py_put_args, put_args, py_put_result, put_result, py_puts_args, puts_args,
             py_puts_result, puts_result, py_get_args, get_args, py_get_result, get_result,
             py_gets_args, gets_args, py_gets_result, gets_result
    <3>2. QED
      BY <3>1 DEF py_put, py_puts, py_get, py_gets, Stub, Process,
             process_put, process_puts, process_get, process_gets
  <2>3. py_next_kv.args = process_next_kv.args /\ py_next_kv.result = process_next_kv.result
    <3>1. py_next_kv_args = next_kv_args /\ py_next_kv_result = next_kv_result
      BY DEF py_next_kv_args, next_kv_args, py_next_kv_result, next_kv_result
    <3>2. QED
      BY <3>1 DEF py_next_kv, Stub, Process, process_next_kv
  <2>4. QED
    BY <1>1, <1>2, <1>4, <2>1, <2>2, <2>3 DEF Args, Result
<1>5. QED
  BY <1>3, <1>4

\* What a method's result holds, and how its handler may end.
LEMMA ResultIs ==
  ASSUME NEW name \in Methods
  PROVE  /\ name \in {"put", "puts"} => Result(name) = <<Field(1, "struct")>>
         /\ name = "get" => Result(name) = <<Field(0, "string"), Field(1, "struct")>>
         /\ name = "gets" => Result(name) = <<Field(0, "list"), Field(1, "struct")>>
         /\ name = "next_kv" => Result(name) = <<Field(0, "struct")>>
         /\ Processes[name].throws \subseteq {"ouch", "std"}
         /\ "ouch" \in Processes[name].throws => name \in {"put", "get", "gets"}
<1>1. name \in {"put", "puts", "get", "gets", "next_kv"}
  BY DEF Methods, Processes
<1>2. /\ Processes["put"] = process_put /\ Processes["puts"] = process_puts
      /\ Processes["get"] = process_get /\ Processes["gets"] = process_gets
      /\ Processes["next_kv"] = process_next_kv
  BY DEF Processes
<1>3. /\ process_put.result = <<Field(1, "struct")>> /\ process_puts.result = <<Field(1, "struct")>>
      /\ process_get.result = <<Field(0, "string"), Field(1, "struct")>>
      /\ process_gets.result = <<Field(0, "list"), Field(1, "struct")>>
      /\ process_next_kv.result = <<Field(0, "struct")>>
  BY DEF process_put, process_puts, process_get, process_gets, process_next_kv, Process,
         put_result, puts_result, get_result, gets_result, next_kv_result
<1>4. /\ process_put.throws = {"ouch"} /\ process_puts.throws = {}
      /\ process_get.throws = {"ouch", "std"} /\ process_gets.throws = {"ouch", "std"}
      /\ process_next_kv.throws = {"std"}
  BY DEF process_put, process_puts, process_get, process_gets, process_next_kv, Process
<1>5. /\ name \in {"put", "puts"} => Result(name) = <<Field(1, "struct")>>
      /\ name = "get" => Result(name) = <<Field(0, "string"), Field(1, "struct")>>
      /\ name = "gets" => Result(name) = <<Field(0, "list"), Field(1, "struct")>>
      /\ name = "next_kv" => Result(name) = <<Field(0, "struct")>>
  BY <1>2, <1>3 DEF Result
<1>6. Processes[name].throws \subseteq {"ouch", "std"}
  BY <1>1, <1>2, <1>4
<1>7. "ouch" \in Processes[name].throws => name \in {"put", "get", "gets"}
  BY <1>1, <1>2, <1>4
<1>8. QED
  BY <1>5, <1>6, <1>7

\* The success is written as the one field of the result, the OZException too.
LEMMA ResultFields ==
  ASSUME NEW name \in Methods, NEW set
  PROVE  /\ 0 \in Ids(Result(name)) <=> name \notin {"put", "puts"}
         /\ DOMAIN set = {0} /\ name \notin {"put", "puts"} =>
              WriteResult(Result(name), set) =
                <<FieldBegin(Result(name)[1]), Value(set[0]), FieldStop>>
         /\ DOMAIN set = {1} /\ name # "next_kv" =>
              WriteResult(Result(name), set) =
                <<FieldBegin(Field(1, "struct")), Value(set[1]), FieldStop>>
         /\ DOMAIN set = {} => WriteResult(Result(name), set) = <<FieldStop>>
<1>1. name \in {"put", "puts", "get", "gets", "next_kv"}
  BY DEF Methods, Processes
<1>2. PICK F, G, res : /\ F \in {Field(0, "string"), Field(0, "list"), Field(0, "struct")}
                       /\ G = Field(1, "struct") /\ res = Result(name)
                       /\ name \in {"put", "puts"} => res = <<G>>
                       /\ name \in {"get", "gets"} => res = <<F, G>>
                       /\ name = "next_kv" => res = <<F>>
  <2>1. PICK T \in {"string", "list", "struct"} :
          name = IF T = "string" THEN "get" ELSE IF T = "list" THEN "gets" ELSE
                 IF name \in {"put", "puts"} THEN name ELSE "next_kv"
    BY <1>1
  <2>2. PICK F, G, res : F = Field(0, T) /\ G = Field(1, "struct") /\ res = Result(name)
    OBVIOUS
  <2>3. /\ name \in {"put", "puts"} => res = <<G>>
        /\ name \in {"get", "gets"} => res = <<F, G>>
        /\ name = "next_kv" => res = <<F>>
    BY <2>1, <2>2, ResultIs
  <2>4. F \in {Field(0, "string"), Field(0, "list"), Field(0, "struct")}
    BY <2>1, <2>2
  <2>5. QED
    BY <2>2, <2>3, <2>4
<1>3. F.id = 0 /\ G.id = 1
  BY <1>2, FieldIs
<1>4. PICK f, g : f = FieldBegin(F) /\ g = FieldBegin(G)
  OBVIOUS
<1>5. WriteResult(res, set) = WriteFields(res, IF 0 \in DOMAIN set THEN {0} ELSE DOMAIN set, set)
  BY Zenon DEF WriteResult
<1>6. CASE name \in {"put", "puts"}
  <2>1. res = <<G>> /\ DOMAIN <<G>> = {1} /\ <<G>>[1] = G
    BY <1>2, <1>6
  <2>2. Ids(res) = {1}
    BY <1>3, <2>1 DEF Ids
  <2>3. DOMAIN set = {1} => WriteFields(<<G>>, {1}, set) = <<g, Value(set[1]), FieldStop>>
    BY <1>3, <1>4, WriteOne
  <2>4. DOMAIN set = {} => WriteFields(<<G>>, {}, set) = <<FieldStop>>
    BY <1>3, WriteOne
  <2>5. /\ DOMAIN set = {1} => WriteResult(res, set) = <<g, Value(set[1]), FieldStop>>
        /\ DOMAIN set = {} => WriteResult(res, set) = <<FieldStop>>
    BY <1>5, <2>1, <2>3, <2>4
  <2>6. QED
    BY <1>2, <1>4, <1>6, <2>2, <2>5
<1>7. CASE name = "next_kv"
  <2>1. res = <<F>> /\ DOMAIN <<F>> = {1} /\ <<F>>[1] = F
    BY <1>2, <1>7
  <2>2. Ids(res) = {0}
    BY <1>3, <2>1 DEF Ids
  <2>3. DOMAIN set = {0} => WriteFields(<<F>>, {0}, set) = <<f, Value(set[0]), FieldStop>>
    BY <1>3, <1>4, WriteOne
  <2>4. DOMAIN set = {} => WriteFields(<<F>>, {}, set) = <<FieldStop>>
    BY <1>3, WriteOne
  <2>5. /\ DOMAIN set = {0} => WriteResult(res, set) = <<f, Value(set[0]), FieldStop>>
        /\ DOMAIN set = {} => WriteResult(res, set) = <<FieldStop>>
    BY <1>5, <2>1, <2>3, <2>4
  <2>6. res[1] = F
    BY <2>1
  <2>7. QED
    BY <1>2, <1>4, <1>7, <2>2, <2>5, <2>6
<1>8. CASE name \in {"get", "gets"}
  <2>1. res = <<F, G>> /\ DOMAIN <<F, G>> = {1, 2} /\ <<F, G>>[1] = F /\ <<F, G>>[2] = G
    BY <1>2, <1>8
  <2>2. Ids(res) = {0, 1}
    BY <1>3, <2>1 DEF Ids
  <2>3. \A ids : WriteFields(<<F, G>>, ids, set) =
                   (Piece(F, ids, set) \o Piece(G, ids, set)) \o <<FieldStop>>
    BY WriteTwo
  <2>4. PICK z, p, q : /\ z = FieldStop /\ p = Value(set[0]) /\ q = Value(set[1])
    OBVIOUS
  <2>5. /\ (<<f, p>> \o << >>) \o <<z>> = <<f, p, z>>
        /\ (<< >> \o <<g, q>>) \o <<z>> = <<g, q, z>>
        /\ (<< >> \o << >>) \o <<z>> = <<z>>
    BY CatEmpty, CatThree
  <2>6. ASSUME DOMAIN set = {0} PROVE WriteResult(res, set) = <<f, Value(set[0]), FieldStop>>
    <3>1. Piece(F, {0}, set) = <<f, p>> /\ Piece(G, {0}, set) = << >>
      BY <1>3, <1>4, <2>4, <2>6 DEF Piece
    <3>2. WriteResult(res, set) = WriteFields(<<F, G>>, {0}, set)
      BY <1>5, <2>1, <2>6
    <3>3. QED
      BY <2>3, <2>4, <2>5, <3>1, <3>2
  <2>7. ASSUME DOMAIN set = {1} PROVE WriteResult(res, set) = <<g, Value(set[1]), FieldStop>>
    <3>1. Piece(F, {1}, set) = << >> /\ Piece(G, {1}, set) = <<g, q>>
      BY <1>3, <1>4, <2>4, <2>7 DEF Piece
    <3>2. WriteResult(res, set) = WriteFields(<<F, G>>, {1}, set)
      BY <1>5, <2>1, <2>7
    <3>3. QED
      BY <2>3, <2>4, <2>5, <3>1, <3>2
  <2>8. ASSUME DOMAIN set = {} PROVE WriteResult(res, set) = <<FieldStop>>
    <3>1. Piece(F, {}, set) = << >> /\ Piece(G, {}, set) = << >>
      BY DEF Piece
    <3>2. WriteResult(res, set) = WriteFields(<<F, G>>, {}, set)
      BY <1>5, <2>1, <2>8
    <3>3. QED
      BY <2>3, <2>4, <2>5, <3>1, <3>2
  <2>9. res[1] = F
    BY <2>1
  <2>10. QED
    BY <1>2, <1>4, <1>8, <2>2, <2>6, <2>7, <2>8, <2>9
<1>9. QED
  BY <1>1, <1>2, <1>6, <1>7, <1>8

\* What a handler that returned gives: a pair is written as a struct.
Given(name, v) == IF name = "next_kv" THEN WriteAll(TravPair, <<v, v, v>>) ELSE v

\* The header of the answer to a run that ended so.
Header(run, how) ==
  MessageBegin(IF how = "std" THEN "exception" ELSE "reply", run.name, run.n)

\* This run of the method may end so.
Ended(run, name, v, how) ==
  /\ name \in Methods /\ run.name = name /\ run.v = v
  /\ how \in {"returned"} \cup Processes[name].throws

LEMMA AnswerIs ==
  ASSUME NEW run, NEW name, NEW v, NEW how, Ended(run, name, v, how), NEW b, b = Header(run, how)
  PROVE  /\ how \in {"returned", "ouch", "std"}
         /\ how = "std" => Answer(run, how) =
              <<b, FieldBegin(Field(1, "string")), Value(v),
                   FieldBegin(Field(2, "i32")), Value(0), FieldStop>>
         /\ how = "ouch" => name \in {"put", "get", "gets"} /\ Answer(run, how) =
              <<b, FieldBegin(Field(1, "struct")), Value(Ouch(v)), FieldStop>>
         /\ how = "returned" /\ name \in {"put", "puts"} => Answer(run, how) = <<b, FieldStop>>
         /\ how = "returned" /\ name \notin {"put", "puts"} => Answer(run, how) =
              <<b, FieldBegin(Result(name)[1]), Value(Given(name, v)), FieldStop>>
<1> DEFINE res == Result(name)
           given == Given(name, v)
           held == Ouch(v)
           success == IF 0 \in Ids(res) THEN [id \in {0} |-> given] ELSE << >>
<1>1. PICK n : n = run.n
  OBVIOUS
<1>2. /\ name \in Methods /\ run.name = name /\ run.v = v
      /\ how \in {"returned", "ouch", "std"} /\ (how = "ouch" => name \in {"put", "get", "gets"})
  BY ResultIs DEF Ended
<1>3. Answer(run, how) =
        CASE how = "returned" -> <<MessageBegin("reply", name, n)>> \o WriteResult(res, success)
          [] how = "ouch" -> <<MessageBegin("reply", name, n)>> \o WriteResult(res, <<held>>)
          [] how = "std" -> <<MessageBegin("exception", name, n)>> \o
                            WriteAll(TApplicationException, <<v, 0>>)
  BY <1>1, <1>2, Zenon DEF Answer, Given, Ouch, Result
<1> HIDE DEF given, held
<1>4. DOMAIN <<held>> = {1} /\ <<held>>[1] = held
  OBVIOUS
<1>5. CASE how = "std"
  <2>1. Answer(run, how) = <<b>> \o WriteAll(TApplicationException, <<v, 0>>)
    BY <1>1, <1>2, <1>3, <1>5 DEF Header
  <2>2. QED
    BY <1>2, <1>5, <2>1, ExceptionIs
<1>6. CASE how = "ouch"
  <2>1. Answer(run, how) = <<b>> \o WriteResult(res, <<held>>)
    BY <1>1, <1>2, <1>3, <1>6 DEF Header
  <2>2. WriteResult(res, <<held>>) = <<FieldBegin(Field(1, "struct")), Value(held), FieldStop>>
    BY <1>2, <1>4, <1>6, ResultFields
  <2>3. Answer(run, how) = <<b, FieldBegin(Field(1, "struct")), Value(held), FieldStop>>
    BY <2>1, <2>2, CatFour
  <2>4. QED
    BY <1>2, <1>6, <2>3 DEF held
<1>7. CASE how = "returned"
  <2>1. Answer(run, how) = <<b>> \o WriteResult(res, success)
    BY <1>1, <1>2, <1>3, <1>7 DEF Header
  <2>2. ASSUME name \in {"put", "puts"} PROVE Answer(run, how) = <<b, FieldStop>>
    <3>1. success = << >> /\ DOMAIN success = {}
      BY <2>2, <1>2, ResultFields
    <3>2. WriteResult(res, success) = <<FieldStop>>
      BY <3>1, <1>2, ResultFields
    <3>3. QED
      BY <2>1, <3>2, CatTwo
  <2>3. ASSUME name \notin {"put", "puts"}
        PROVE  Answer(run, how) = <<b, FieldBegin(res[1]), Value(given), FieldStop>>
    <3>1. success = [id \in {0} |-> given]
      BY <2>3, <1>2, ResultFields
    <3>2. DOMAIN success = {0} /\ success[0] = given
      BY <3>1
    <3> HIDE DEF success
    <3>3. WriteResult(res, success) = <<FieldBegin(res[1]), Value(given), FieldStop>>
      BY <2>3, <3>2, <1>2, ResultFields
    <3>4. QED
      BY <2>1, <3>3, CatFour
  <2>4. QED
    BY <1>7, <2>2, <2>3 DEF given
<1>8. QED
  BY <1>2, <1>5, <1>6, <1>7

-----------------------------------------------------------------------------
(* A client reads an answer for what it is.                                *)

LEMMA ReplyIs ==
  ASSUME NEW c \in Client, NEW e, Message(down[c], e), NEW s,
         s = IF down[c][1].mtype = "exception" THEN TApplicationException
             ELSE Stubs[Lang[c]][call[c].name].result
  PROVE  /\ Reply(c) # {}
         /\ \A m \in Reply(c) : /\ m.set = Content(s, Tail(down[c]), e)
                                /\ SubSeq(down[c], m.used + 2, Len(down[c])) = << >>
<1>1. PICK ts, set : ts = Tail(down[c]) /\ set = Content(s, ts, e)
  OBVIOUS
<1>2. /\ ReadStruct(s, ts) = {[end |-> "ok", used |-> e, set |-> set]}
      /\ SubSeq(down[c], e + 2, Len(down[c])) = << >> /\ down[c] # << >>
  BY <1>1, MessageRead
<1>3. Reply(c) = {m \in ReadStruct(s, ts) : m.end = "ok"}
  BY <1>1, <1>2, Zenon DEF Reply
<1>4. Reply(c) = {[end |-> "ok", used |-> e, set |-> set]}
  BY <1>2, <1>3
<1>5. QED
  BY <1>1, <1>2, <1>4

\* This is the method c has called.
Named(c, name) == name \in Methods /\ call[c].name = name

\* What recv_ makes of a message and of a struct it holds.
LEMMA OutcomeIs ==
  ASSUME NEW c \in Client, NEW set, NEW name, Named(c, name)
  PROVE  /\ down[c][1].mtype = "exception" =>
              Outcome(c, set).res = "app" /\ Outcome(c, set).back = set[1]
         /\ down[c][1].mtype = "reply" /\ 0 \in DOMAIN set =>
              /\ Outcome(c, set).res = "returned"
              /\ name = "next_kv" => Outcome(c, set).back = Held(py_TravPair, set[0], 2)
              /\ name # "next_kv" => Outcome(c, set).back = set[0]
         /\ down[c][1].mtype = "reply" /\ 0 \notin DOMAIN set /\ 1 \in DOMAIN set =>
              Outcome(c, set).res = "ouch" /\ Outcome(c, set).back = Held(py_OZException, set[1], 1)
         /\ down[c][1].mtype = "reply" /\ 0 \notin DOMAIN set /\ 1 \notin DOMAIN set
            /\ name \in {"put", "puts"} => Outcome(c, set).res = "returned"
<1>1. PICK k : k = down[c][1].mtype /\ call[c].name = name /\ name \in Methods
  BY DEF Named
<1>2. CASE k = "exception"
  <2>1. Outcome(c, set) = [res |-> "app", back |-> set[1]]
    BY <1>1, <1>2 DEF Outcome
  <2>2. k # "reply"
    BY <1>2
  <2>3. QED
    BY <1>1, <2>1, <2>2
<1>3. CASE k = "reply"
  <2>1. k # "exception"
    BY <1>3
  <2>2. 0 \in DOMAIN set => Outcome(c, set) =
          [res |-> "returned",
           back |-> IF name = "next_kv" THEN Held(py_TravPair, set[0], 2) ELSE set[0]]
    BY <1>1, <1>3, <2>1 DEF Outcome
  <2>3. 0 \notin DOMAIN set /\ 1 \in DOMAIN set => Outcome(c, set) =
          [res |-> "ouch", back |-> Held(py_OZException, set[1], 1)]
    BY <1>1, <1>3, <2>1 DEF Outcome
  <2>4. 0 \notin DOMAIN set /\ 1 \notin DOMAIN set => Outcome(c, set) =
          [res |-> IF 0 \in Ids(Stubs[Lang[c]][name].result) THEN "app" ELSE "returned",
           back |-> Default]
    BY <1>1, <1>3, <2>1 DEF Outcome
  <2>5. Lang[c] \in {"cpp", "py"}
    BY LangAssumption
  <2>6. name \in {"put", "puts"} => 0 \notin Ids(Stubs[Lang[c]][name].result)
    <3>1. Stubs[Lang[c]][name].result = Result(name)
      BY <1>1, <2>5, SameStructs
    <3>2. name \in {"put", "puts"} => 0 \notin Ids(Result(name))
      BY <1>1, ResultFields
    <3>3. QED
      BY <3>1, <3>2
  <2>7. QED
    BY <1>1, <2>1, <2>2, <2>3, <2>4, <2>6
<1>4. QED
  BY <1>1, <1>2, <1>3

\* How a client is told of a run that ended so.
ToldAs(how) == IF how = "std" THEN "app" ELSE how

\* The fields of a result are among its fields.
LEMMA ResultRange ==
  ASSUME NEW name \in Methods
  PROVE  /\ name \in {"put", "get", "gets"} => Field(1, "struct") \in Range(Result(name))
         /\ name \notin {"put", "puts"} =>
              /\ Result(name)[1] \in Range(Result(name))
              /\ Result(name)[1].id = 0
<1>1. name \in {"put", "puts", "get", "gets", "next_kv"}
  BY DEF Methods, Processes
<1>2. PICK F, G, H, K : /\ F = Field(0, "string") /\ G = Field(0, "list")
                        /\ H = Field(0, "struct") /\ K = Field(1, "struct")
  OBVIOUS
<1>3. F.id = 0 /\ G.id = 0 /\ H.id = 0
  BY <1>2, FieldIs
<1>4. PICK res : res = Result(name)
  OBVIOUS
<1>5. /\ name = "put" => res = <<K>>
      /\ name = "get" => res = <<F, K>>
      /\ name = "gets" => res = <<G, K>>
      /\ name = "next_kv" => res = <<H>>
  BY <1>2, <1>4, ResultIs
<1>6. /\ name = "put" => 1 \in DOMAIN res /\ res[1] = K
      /\ name \in {"get", "gets"} => 1 \in DOMAIN res /\ res[1].id = 0 /\ 2 \in DOMAIN res /\ res[2] = K
      /\ name = "next_kv" => 1 \in DOMAIN res /\ res[1].id = 0
  BY <1>3, <1>5
<1>7. \A i \in DOMAIN res : res[i] \in Range(res)
  BY DEF Range
<1>8. QED
  BY <1>1, <1>2, <1>4, <1>6, <1>7

\* What c may read is a whole answer, and it will tell its caller this.
Heard(c, res, v, void) ==
  /\ Reply(c) # {} /\ \E e : Message(down[c], e)
  /\ \A m \in Reply(c) :
       /\ SubSeq(down[c], m.used + 2, Len(down[c])) = << >>
       /\ Outcome(c, m.set).res = res /\ (void \/ Outcome(c, m.set).back = v)

LEMMA HeardIs ==
  ASSUME NEW c \in Client, NEW e, Message(down[c], e), NEW s,
         s = IF down[c][1].mtype = "exception" THEN TApplicationException
             ELSE Stubs[Lang[c]][call[c].name].result,
         NEW set, set = Content(s, Tail(down[c]), e), NEW res, NEW v, NEW void \in BOOLEAN,
         Outcome(c, set).res = res, void \/ Outcome(c, set).back = v
  PROVE  Heard(c, res, v, void)
<1>1. /\ Reply(c) # {}
      /\ \A m \in Reply(c) : /\ m.set = Content(s, Tail(down[c]), e)
                             /\ SubSeq(down[c], m.used + 2, Len(down[c])) = << >>
  BY ReplyIs
<1>2. QED
  BY <1>1, Zenon DEF Heard

\* An exception of Thrift's own.
LEMMA ExceptionHeard ==
  ASSUME NEW c \in Client, NEW name, Named(c, name), NEW b, b.mtype = "exception", NEW v, NEW kind,
         down[c] = <<b>> \o WriteAll(TApplicationException, <<v, kind>>)
  PROVE  Heard(c, "app", v, FALSE)
<1>1. PICK f, x, g, y : /\ f = FieldBegin(Field(1, "string")) /\ x = Value(v)
                        /\ g = FieldBegin(Field(2, "i32")) /\ y = Value(kind)
  OBVIOUS
<1>2. PICK u : u = <<b, f, x, g, y, FieldStop>>
  OBVIOUS
<1>3. down[c] = u
  BY <1>1, <1>2, ExceptionIs
<1>4. f.t = "field" /\ g.t = "field" /\ x.t = "value" /\ y.t = "value"
  BY <1>1 DEF FieldBegin, Value
<1>5. PICK ts : ts = Tail(u)
  OBVIOUS
<1>6. Message(u, 5) /\ ts[1] = f /\ ts[2] = x /\ ts[3] = g /\ ts[4] = y
  BY <1>2, <1>4, <1>5, LongMessage
<1>7. u[1].mtype = "exception"
  BY <1>2
<1>8. Content(TApplicationException, ts, 5)[1] = v
  <2>1. /\ ts[1] = FieldBegin(Field(1, "string")) /\ ts[2] = Value(v)
        /\ ts[3] = FieldBegin(Field(2, "i32")) /\ ts[4] = Value(kind)
    BY <1>1, <1>6
  <2>2. QED
    BY <2>1, ExceptionContent
<1>9. PICK s, e, set : s = TApplicationException /\ e = 5 /\ set = Content(s, ts, e)
  OBVIOUS
<1>10. Outcome(c, set).res = "app" /\ Outcome(c, set).back = v
  <2>1. down[c][1].mtype = "exception" /\ set[1] = v
    BY <1>3, <1>7, <1>8, <1>9
  <2>2. QED
    BY <2>1, OutcomeIs
<1>11. /\ Message(down[c], e) /\ set = Content(s, Tail(down[c]), e)
       /\ s = IF down[c][1].mtype = "exception" THEN TApplicationException
              ELSE Stubs[Lang[c]][call[c].name].result
  BY <1>3, <1>5, <1>6, <1>7, <1>9
<1>12. QED
  BY <1>10, <1>11, HeardIs

\* A result u with one field, that its reader takes for v, and as res.
OneField(u, b, name, F, w) ==
  /\ b.mtype = "reply" /\ F \in Range(Result(name)) /\ F.id \in {0, 1}
  /\ u = <<b, FieldBegin(F), Value(w), FieldStop>>

Means(name, id, w, v, res) ==
  \/ id = 0 /\ res = "returned" /\ v = IF name = "next_kv" THEN Held(py_TravPair, w, 2) ELSE w
  \/ id = 1 /\ res = "ouch" /\ v = Held(py_OZException, w, 1)

LEMMA FieldHeard ==
  ASSUME NEW c \in Client, NEW name, Named(c, name), NEW b, NEW F, NEW w, NEW v, NEW res,
         OneField(down[c], b, name, F, w), Means(name, F.id, w, v, res)
  PROVE  Heard(c, res, v, FALSE)
<1>1. PICK f, x, u : f = FieldBegin(F) /\ x = Value(w) /\ u = <<b, f, x, FieldStop>> /\ down[c] = u
                     /\ b.mtype = "reply" /\ F \in Range(Result(name)) /\ F.id \in {0, 1}
  BY DEF OneField
<1>2. f.t = "field" /\ x.t = "value"
  BY <1>1 DEF FieldBegin, Value
<1>3. PICK ts : ts = Tail(u)
  OBVIOUS
<1>4. Message(u, 3) /\ ts[1] = f /\ ts[2] = x
  BY <1>1, <1>2, <1>3, PairMessage
<1>5. u[1].mtype = "reply" /\ down[c] = u
  BY <1>1
<1>6. PICK s, e : s = Result(name) /\ e = 3
  OBVIOUS
<1>7. PICK set : set = Content(s, ts, 3)
  OBVIOUS
<1>8. PICK id : id = F.id
  OBVIOUS
<1>9. (\A d : d \in DOMAIN set <=> d = id) /\ set[id] = w
  <2>1. ts[1] = FieldBegin(F) /\ ts[2] = Value(w) /\ F \in Range(s)
    BY <1>1, <1>4, <1>6
  <2>2. QED
    BY <1>7, <1>8, <2>1, PairContent
<1>10. Stubs[Lang[c]][call[c].name].result = s
  <2>1. Lang[c] \in {"cpp", "py"}
    BY LangAssumption
  <2>2. Stubs[Lang[c]][name].result = Result(name)
    BY <2>1, SameStructs DEF Named
  <2>3. QED
    BY <1>6, <2>2 DEF Named
<1>11. Outcome(c, set).res = res /\ Outcome(c, set).back = v
  <2>1. down[c][1].mtype = "reply"
    BY <1>5
  <2>2. CASE id = 0
    <3>1. 0 \in DOMAIN set /\ set[0] = w
      BY <1>9, <2>2
    <3>2. res = "returned" /\ v = IF name = "next_kv" THEN Held(py_TravPair, w, 2) ELSE w
      BY <1>8, <2>2 DEF Means
    <3>3. QED
      BY <2>1, <3>1, <3>2, OutcomeIs
  <2>3. CASE id = 1
    <3>1. 0 \notin DOMAIN set /\ 1 \in DOMAIN set /\ set[1] = w
      BY <1>9, <2>3
    <3>2. res = "ouch" /\ v = Held(py_OZException, w, 1)
      BY <1>8, <2>3 DEF Means
    <3>3. QED
      BY <2>1, <3>1, <3>2, OutcomeIs
  <2>4. QED
    BY <1>1, <1>8, <2>2, <2>3
<1>12. /\ Message(down[c], e) /\ set = Content(s, Tail(down[c]), e)
       /\ s = IF down[c][1].mtype = "exception" THEN TApplicationException
              ELSE Stubs[Lang[c]][call[c].name].result
  BY <1>3, <1>4, <1>5, <1>6, <1>7, <1>10
<1>13. QED
  BY <1>11, <1>12, HeardIs

\* The empty result of a void method.
LEMMA NothingHeard ==
  ASSUME NEW c \in Client, NEW name, Named(c, name), name \in {"put", "puts"},
         NEW b, b.mtype = "reply", down[c] = <<b, FieldStop>>, NEW v
  PROVE  Heard(c, "returned", v, TRUE)
<1>1. PICK e : e = 1
  OBVIOUS
<1>2. Message(down[c], e)
  BY <1>1, ShortMessage
<1>3. down[c][1].mtype = "reply"
  OBVIOUS
<1>4. PICK s : s = Stubs[Lang[c]][call[c].name].result
  OBVIOUS
<1>5. PICK set : set = Content(s, Tail(down[c]), e)
  OBVIOUS
<1>6. DOMAIN set = {}
  BY <1>1, <1>5, NoContent
<1>7. Outcome(c, set).res = "returned"
  BY <1>3, <1>6, OutcomeIs
<1>8. s = IF down[c][1].mtype = "exception" THEN TApplicationException
          ELSE Stubs[Lang[c]][call[c].name].result
  BY <1>3, <1>4
<1>9. PICK void \in BOOLEAN : void = TRUE
  OBVIOUS
<1>10. Heard(c, "returned", v, void)
  BY <1>2, <1>5, <1>7, <1>8, <1>9, HeardIs
<1>11. QED
  BY <1>9, <1>10

\* An answer of the server, to whichever method, in C++ or Python, is all read by
\* the client, and it tells its caller how the handler ended and what it gave.
THEOREM AnswerHeard ==
  ASSUME NEW c \in Client, NEW name, Named(c, name), NEW run, NEW v, NEW how,
         Ended(run, name, v, how), down[c] = Answer(run, how)
  PROVE  Heard(c, ToldAs(how), v, how = "returned" /\ name \in {"put", "puts"})
<1>1. PICK b : b = Header(run, how)
  OBVIOUS
<1>2. name \in Methods
  BY DEF Named
<1>3. b.mtype = IF how = "std" THEN "exception" ELSE "reply"
  BY <1>1, Zenon DEF Header, MessageBegin
<1>4. how \in {"returned", "ouch", "std"}
  BY <1>1, AnswerIs
<1>5. CASE how = "std"
  <2>1. Answer(run, how) = <<b>> \o WriteAll(TApplicationException, <<v, 0>>)
    <3>1. Answer(run, how) = <<b, FieldBegin(Field(1, "string")), Value(v),
                               FieldBegin(Field(2, "i32")), Value(0), FieldStop>>
      BY <1>1, <1>5, AnswerIs
    <3>2. QED
      BY <3>1, ExceptionIs
  <2>2. Heard(c, "app", v, FALSE)
    BY <1>3, <1>5, <2>1, ExceptionHeard
  <2>3. ToldAs(how) = "app" /\ (how = "returned" /\ name \in {"put", "puts"}) = FALSE
    BY <1>5 DEF ToldAs
  <2>4. QED
    BY <2>2, <2>3
<1>6. CASE how = "ouch"
  <2>1. PICK F, f, w, x : /\ F = Field(1, "struct") /\ f = FieldBegin(F)
                          /\ w = Ouch(v) /\ x = Value(w)
    OBVIOUS
  <2>2. name \in {"put", "get", "gets"} /\ Answer(run, how) = <<b, f, x, FieldStop>>
    BY <1>1, <1>6, <2>1, AnswerIs
  <2>3. F \in Range(Result(name)) /\ F.id = 1
    BY <1>2, <2>1, <2>2, ResultRange, FieldIs
  <2>4. Held(py_OZException, w, 1) = v
    BY <2>1, OZExceptionHeld
  <2>5. Heard(c, "ouch", v, FALSE)
    <3>1. OneField(down[c], b, name, F, w)
      <4>1. b.mtype = "reply"
        BY <1>3, <1>6
      <4>2. QED
        BY <2>1, <2>2, <2>3, <4>1 DEF OneField
    <3>2. Means(name, F.id, w, v, "ouch")
      BY <2>3, <2>4 DEF Means
    <3>3. QED
      BY <3>1, <3>2, FieldHeard
  <2>6. ToldAs(how) = "ouch" /\ (how = "returned" /\ name \in {"put", "puts"}) = FALSE
    BY <1>6 DEF ToldAs
  <2>7. QED
    BY <2>5, <2>6
<1>7. CASE how = "returned" /\ name \in {"put", "puts"}
  <2>1. down[c] = <<b, FieldStop>> /\ b.mtype = "reply"
    BY <1>1, <1>3, <1>7, AnswerIs
  <2>2. Heard(c, "returned", v, TRUE)
    BY <1>7, <2>1, NothingHeard
  <2>3. ToldAs(how) = "returned" /\ (how = "returned" /\ name \in {"put", "puts"}) = TRUE
    BY <1>7 DEF ToldAs
  <2>4. QED
    BY <2>2, <2>3
<1>8. CASE how = "returned" /\ name \notin {"put", "puts"}
  <2>1. PICK F, f, w, x : /\ F = Result(name)[1] /\ f = FieldBegin(F)
                          /\ w = Given(name, v) /\ x = Value(w)
    OBVIOUS
  <2>2. down[c] = <<b, f, x, FieldStop>> /\ b.mtype = "reply"
    BY <1>1, <1>3, <1>8, <2>1, AnswerIs
  <2>3. F \in Range(Result(name)) /\ F.id = 0
    BY <1>2, <1>8, <2>1, ResultRange
  <2>4. v = IF name = "next_kv" THEN Held(py_TravPair, w, 2) ELSE w
    BY <2>1, <2>3, TravPairHeld DEF Given
  <2>5. Heard(c, "returned", v, FALSE)
    <3>1. OneField(down[c], b, name, F, w)
      BY <2>1, <2>2, <2>3 DEF OneField
    <3>2. Means(name, F.id, w, v, "returned")
      BY <2>3, <2>4 DEF Means
    <3>3. QED
      BY <3>1, <3>2, FieldHeard
  <2>6. ToldAs(how) = "returned" /\ (how = "returned" /\ name \in {"put", "puts"}) = FALSE
    BY <1>8 DEF ToldAs
  <2>7. QED
    BY <2>5, <2>6
<1>9. QED
  BY <1>4, <1>5, <1>6, <1>7, <1>8

-----------------------------------------------------------------------------
(* What the server reads of requests, whole, cut and behind halves. *)

LEMMA MessageCut ==
  ASSUME NEW u, NEW e, Message(u, e), NEW i \in 0..Len(u), i # Len(u)
  PROVE  Unreadable(SubSeq(u, 1, i)) /\ Fruitless(SubSeq(u, 1, i))
<1>1. PICK S : u \in Seq(S)
  BY DEF Message
<1>2. CASE SubSeq(u, 1, i) = << >>
  BY <1>2 DEF Unreadable, Fruitless
<1>3. CASE SubSeq(u, 1, i) # << >>
  <2>1. \A d \in Turns(Tail(SubSeq(u, 1, i))) : d \in Turns(Tail(u)) /\ d < i
    BY <1>1, <1>3, TurnsCut
  <2>2. Turns(Tail(u)) = {e} /\ Len(u) = e + 1 /\ e \in Nat
    BY DEF Message
  <2>3. i <= e
    BY <2>2
  <2>4. Turns(Tail(SubSeq(u, 1, i))) = {}
    BY <2>1, <2>2, <2>3
  <2>5. QED
    BY <2>4 DEF Unreadable, Fruitless
<1>4. QED
  BY <1>2, <1>3

LEMMA FruitlessCut ==
  ASSUME NEW S, NEW u \in Seq(S), Fruitless(u), NEW i \in 0..Len(u)
  PROVE  Fruitless(SubSeq(u, 1, i))
<1>1. CASE SubSeq(u, 1, i) = << >>
  BY <1>1 DEF Fruitless
<1>2. CASE SubSeq(u, 1, i) # << >>
  <2>1. PICK p : p = SubSeq(u, 1, i)
    OBVIOUS
  <2>2. /\ u # << >> /\ \A e \in Turns(Tail(p)) : e \in Turns(Tail(u)) /\ e < i
        /\ \A j \in 1..i : p[j] = u[j]
    BY <1>2, <2>1, TurnsCut
  <2>3. ASSUME NEW e \in Turns(Tail(p))
        PROVE  e = 2 /\ EndsIn(p[2], p[3])
    <3>1. e = 2 /\ EndsIn(u[2], u[3]) /\ e < i
      BY <2>2 DEF Fruitless
    <3>2. i \in Nat
      BY LenProperties
    <3>3. 2 \in 1..i /\ 3 \in 1..i
      BY <3>1, <3>2
    <3>4. QED
      BY <2>2, <3>1, <3>3
  <2>4. QED
    BY <2>1, <2>3 DEF Fruitless
<1>3. QED
  BY <1>1, <1>2

\* What a call with this argument gives its handler.
Meant(n, kind) == IF kind = "none" THEN Default ELSE n

\* All of u is one message, the call n of the method, with argument v.
Whole(u, name, n, v) ==
  /\ u # << >> /\ u[1].t = "begin" /\ u[1].name = name /\ u[1].n = n
  /\ \E e : Message(u, e)
  /\ \A s : \A m \in ReadStruct(s, Tail(u)) :
       /\ m.end = "ok" /\ SubSeq(u, m.used + 2, Len(u)) = << >>
       /\ s = Args(name) => v = IF 1 \in DOMAIN m.set THEN m.set[1] ELSE Default

LEMMA WholeIs ==
  ASSUME NEW u, NEW e, Message(u, e), u[1].t = "begin", NEW name, u[1].name = name,
         NEW n, u[1].n = n, NEW v, NEW set, set = Content(Args(name), Tail(u), e),
         v = IF 1 \in DOMAIN set THEN set[1] ELSE Default
  PROVE  Whole(u, name, n, v)
<1>1. /\ \A s : ReadStruct(s, Tail(u)) = {[end |-> "ok", used |-> e, set |-> Content(s, Tail(u), e)]}
      /\ SubSeq(u, e + 2, Len(u)) = << >> /\ u # << >>
  BY MessageRead
<1>2. ASSUME NEW s, NEW m \in ReadStruct(s, Tail(u))
      PROVE  /\ m.end = "ok" /\ SubSeq(u, m.used + 2, Len(u)) = << >>
             /\ s = Args(name) => v = IF 1 \in DOMAIN m.set THEN m.set[1] ELSE Default
  <2>1. m = [end |-> "ok", used |-> e, set |-> Content(s, Tail(u), e)]
    BY <1>1, <1>2
  <2>2. m.end = "ok" /\ m.used = e /\ m.set = Content(s, Tail(u), e)
    BY <2>1
  <2>3. s = Args(name) => m.set = set
    BY <2>2
  <2>4. QED
    BY <1>1, <2>2, <2>3
<1>3. QED
  BY <1>1, <1>2, Zenon DEF Whole

\* A call of a stub, of whichever method, in C++ or Python, whole on the wire, is
\* all read by the server, as this call with this argument.
THEOREM RequestWhole ==
  ASSUME NEW c \in Client, NEW name \in Methods, NEW n, NEW kind \in {"good", "none", "foreign"}
  PROVE  Whole(Request(c, name, n, kind), name, n, Meant(n, kind))
<1>1. Lang[c] \in {"cpp", "py"}
  BY LangAssumption
<1>2. PICK T \in {"string", "list", "i32"} : ArgOf(c, name, T)
  BY <1>1, OneArgument, Zenon DEF ArgOf
<1>3. PICK F, s : F = Field(1, T) /\ s = Args(name) /\ s = <<F>>
  <2>1. Args(name) = <<Field(1, T)>>
    BY <1>1, <1>2, SameStructs DEF ArgOf
  <2>2. QED
    BY <2>1
<1>4. F \in Range(s) /\ F.id = 1
  <2>1. 1 \in DOMAIN s /\ s[1] = F
    BY <1>3
  <2>2. QED
    BY <1>3, <2>1, FieldIs DEF Range
<1>5. PICK b : b = MessageBegin("call", name, n)
  OBVIOUS
<1>6. b.t = "begin" /\ b.name = name /\ b.n = n
  BY <1>5 DEF MessageBegin
<1>7. PICK u : u = Request(c, name, n, kind)
  OBVIOUS
<1>8. CASE kind = "none"
  <2>1. u = <<b, FieldStop>>
    BY <1>2, <1>5, <1>7, <1>8, RequestIs
  <2>2. PICK e : e = 1
    OBVIOUS
  <2>3. Message(u, e)
    BY <2>1, <2>2, ShortMessage
  <2>4. u[1] = b
    BY <2>1
  <2>5. PICK set : set = Content(s, Tail(u), e)
    OBVIOUS
  <2>6. 1 \notin DOMAIN set
    BY <2>2, <2>5, NoContent
  <2>7. Whole(u, name, n, Default)
    <3>1. Default = IF 1 \in DOMAIN set THEN set[1] ELSE Default
      BY <2>6
    <3>2. u[1].t = "begin" /\ u[1].name = name /\ u[1].n = n
      BY <1>6, <2>4
    <3>3. set = Content(Args(name), Tail(u), e)
      BY <1>3, <2>5
    <3>4. QED
      BY <2>3, <3>1, <3>2, <3>3, WholeIs
  <2>8. QED
    BY <1>7, <1>8, <2>7 DEF Meant
<1>9. CASE kind # "none"
  <2>1. PICK f, x : f = FieldBegin(F) /\ x = Value(n) /\ u = <<b, f, x, FieldStop>>
    BY <1>2, <1>3, <1>5, <1>7, <1>9, RequestIs
  <2>2. f.t = "field" /\ x.t = "value"
    BY <2>1 DEF FieldBegin, Value
  <2>3. PICK e, ts : e = 3 /\ ts = Tail(u)
    OBVIOUS
  <2>4. Message(u, e) /\ ts[1] = f /\ ts[2] = x
    BY <2>1, <2>2, <2>3, PairMessage
  <2>5. u[1] = b
    BY <2>1
  <2>6. PICK set : set = Content(s, ts, e)
    OBVIOUS
  <2>7. 1 \in DOMAIN set /\ set[1] = n
    <3>1. PICK id : id = F.id
      OBVIOUS
    <3>2. ts[1] = FieldBegin(F) /\ ts[2] = Value(n) /\ set = Content(s, ts, 3)
      BY <2>1, <2>3, <2>4, <2>6
    <3>3. (\A d : d \in DOMAIN set <=> d = id) /\ set[id] = n
      BY <1>4, <3>1, <3>2, PairContent
    <3>4. QED
      BY <1>4, <3>1, <3>3
  <2>8. Whole(u, name, n, n)
    <3>1. n = IF 1 \in DOMAIN set THEN set[1] ELSE Default
      BY <2>7
    <3>2. u[1].t = "begin" /\ u[1].name = name /\ u[1].n = n
      BY <1>6, <2>5
    <3>3. set = Content(Args(name), Tail(u), e)
      BY <1>3, <2>3, <2>6
    <3>4. QED
      BY <2>4, <3>1, <3>2, <3>3, WholeIs
  <2>9. QED
    BY <1>7, <1>9, <2>8 DEF Meant
<1>10. QED
  BY <1>8, <1>9

\* Nothing is read of what is not readable, and of what is fruitless no call.
LEMMA UnreadableRead ==
  ASSUME NEW u, u # << >>, Unreadable(u), NEW s
  PROVE  ReadStruct(s, Tail(u)) = {}
<1>1. Turns(Tail(u)) = {}
  BY DEF Unreadable
<1>2. QED
  BY <1>1 DEF ReadStruct

LEMMA FruitlessRead ==
  ASSUME NEW S, NEW u \in Seq(S), u # << >>, Fruitless(u), NEW s, NEW m \in ReadStruct(s, Tail(u))
  PROVE  m.end = "closed"
<1>1. PICK ts : ts = Tail(u) /\ ts \in Seq(S) /\ DOMAIN ts = 1..Len(ts)
                /\ \A i \in DOMAIN ts : ts[i] = u[i + 1]
  <2>1. /\ Tail(u) \in Seq(S) /\ \A i \in 1..Len(Tail(u)) : Tail(u)[i] = u[i + 1]
    BY HeadTailProperties
  <2>2. DOMAIN Tail(u) = 1..Len(Tail(u))
    BY <2>1, LenProperties
  <2>3. QED
    BY <2>1, <2>2
<1>2. PICK e \in Turns(ts) : m = ReadTo(s, ts, e)
  BY <1>1 DEF ReadStruct
<1>3. e = 2 /\ EndsIn(u[2], u[3])
  BY <1>1, <1>2 DEF Fruitless
<1>4. 2 \in DOMAIN ts /\ 1 \in DOMAIN ts
  <2>1. 2 \in 1..Len(ts) /\ Len(ts) \in Nat
    BY <1>1, <1>2, <1>3, LenProperties DEF Turns
  <2>2. 1 \in 1..Len(ts)
    BY <2>1
  <2>3. QED
    BY <1>1, <2>1, <2>2
<1>5. (ts[2].t = "begin" /\ ts[1].type = "string") \/ ts[2].t = "elements"
  <2>1. ts[2] = u[2 + 1] /\ ts[1] = u[1 + 1] /\ 2 + 1 = 3 /\ 1 + 1 = 2
    BY <1>1, <1>4
  <2>2. QED
    BY <1>3, <2>1 DEF EndsIn, Elements
<1>6. m = [end |-> "closed", used |-> 2, set |-> << >>]
  <2>1. 2 - 1 = 1
    OBVIOUS
  <2>2. ReadTo(s, ts, 2) = [end |-> "closed", used |-> 2, set |-> << >>]
    BY <1>5, <2>1 DEF ReadTo
  <2>3. QED
    BY <1>2, <1>3, <2>2
<1>7. QED
  BY <1>6

\* Half a call with a string, or with some of a list of them.
LEMMA HalfIs ==
  ASSUME NEW c \in Client, NEW name \in Methods, NEW n, NEW kind,
         (kind = "wrong" /\ ArgType(name) = "string") \/ kind = "element"
  PROVE  Request(c, name, n, kind) # << >> /\ Halves(Request(c, name, n, kind))
<1>1. Lang[c] \in {"cpp", "py"}
  BY LangAssumption
<1>2. PICK T \in {"string", "list", "i32"} : ArgOf(c, name, T)
  BY <1>1, OneArgument, Zenon DEF ArgOf
<1>3. Args(name) = <<Field(1, T)>>
  BY <1>1, <1>2, SameStructs DEF ArgOf
<1>4. ArgType(name) = T
  <2>1. ArgType(name) = Args(name)[1].type
    BY DEF ArgType, Args
  <2>2. PICK F : F = Field(1, T)
    OBVIOUS
  <2>3. <<F>>[1] = F /\ F.type = T
    BY <2>2, FieldIs
  <2>4. QED
    BY <1>3, <2>1, <2>2, <2>3
<1>5. PICK b, f, els : /\ b = MessageBegin("call", name, n) /\ f = FieldBegin(Field(1, T))
                       /\ els = Elements
  OBVIOUS
<1>6. b.t = "begin" /\ f.t = "field" /\ f.type = T
  BY <1>5, FieldIs DEF MessageBegin
<1>7. CASE kind = "wrong" /\ T = "string"
  <2>1. PICK q : q = <<b, f>>
    OBVIOUS
  <2>2. Request(c, name, n, kind) = q
    BY <1>2, <1>5, <1>7, <2>1, RequestIs
  <2>3. Len(q) = 2 /\ q[1] = b /\ q[2] = f /\ q # << >>
    BY <2>1
  <2>4. Halves(q)
    BY <1>6, <1>7, <2>3 DEF Halves
  <2>5. QED
    BY <2>2, <2>3, <2>4
<1>8. CASE kind = "element"
  <2>1. PICK q : q = <<b, f, els>>
    OBVIOUS
  <2>2. Request(c, name, n, kind) = q
    BY <1>2, <1>5, <1>8, <2>1, RequestIs
  <2>3. Len(q) = 3 /\ q[1] = b /\ q[2] = f /\ q[3] = els /\ q # << >>
    BY <2>1
  <2>4. EndsIn(f, els)
    BY <1>5 DEF EndsIn
  <2>5. Halves(q)
    BY <1>6, <2>3, <2>4 DEF Halves
  <2>6. QED
    BY <2>2, <2>3, <2>5
<1>9. QED
  BY <1>4, <1>7, <1>8

\* Halves of calls one behind the other, and a message behind them.
LEMMA HalvesMore ==
  ASSUME NEW S, NEW w \in Seq(S), Halves(w), NEW q \in Seq(S), Halves(q), q # << >>
  PROVE  Halves(w \o q)
<1>1. PICK l \in Nat : l = Len(q) /\ l > 1 /\ q[1].t = "begin"
  BY LenProperties DEF Halves
<1>2. CASE w = << >>
  <2>1. w \o q = q
    BY <1>2, ConcatEmptySeq
  <2>2. QED
    BY <2>1
<1>3. CASE w # << >>
  <2>1. PICK k \in Nat : k = Len(w)
    BY LenProperties
  <2>2. /\ k > 1 /\ w[1].t = "begin" /\ w[2].t = "field"
        /\ IF k > 2 THEN EndsIn(w[2], w[3]) ELSE w[2].type = "string"
    BY <1>3, <2>1 DEF Halves
  <2>3. PICK r : /\ r = w \o q /\ Len(r) = k + l
                 /\ \A i \in 1..(k + l) : r[i] = IF i <= k THEN w[i] ELSE q[i - k]
    <3>1. /\ Len(w \o q) = k + l
          /\ \A i \in 1..(k + l) : (w \o q)[i] = IF i <= k THEN w[i] ELSE q[i - k]
      BY <1>1, <2>1, ConcatProperties
    <3>2. QED
      BY <3>1
  <2>4. r[1] = w[1] /\ r[2] = w[2]
    <3>1. 1 \in 1..(k + l) /\ 2 \in 1..(k + l) /\ 1 <= k /\ 2 <= k
      BY <1>1, <2>2
    <3>2. QED
      BY <2>3, <3>1
  <2>5. EndsIn(r[2], r[3])
    <3>1. CASE k > 2
      <4>1. 3 \in 1..(k + l) /\ 3 <= k
        BY <1>1, <3>1
      <4>2. r[3] = w[3]
        BY <2>3, <4>1
      <4>3. QED
        BY <2>2, <2>4, <3>1, <4>2
    <3>2. CASE ~(k > 2)
      <4>1. 3 \in 1..(k + l) /\ ~(3 <= k) /\ 3 - k = 1
        BY <1>1, <2>2, <3>2
      <4>2. r[3] = q[1]
        BY <2>3, <4>1
      <4>3. QED
        BY <1>1, <2>2, <2>4, <3>2, <4>2 DEF EndsIn
    <3>3. QED
      BY <3>1, <3>2
  <2>6. Len(r) > 2
    BY <1>1, <2>2, <2>3
  <2>7. QED
    BY <2>2, <2>3, <2>4, <2>5, <2>6 DEF Halves
<1>4. QED
  BY <1>2, <1>3

LEMMA HalvesSpoil ==
  ASSUME NEW S, NEW w \in Seq(S), NEW q \in Seq(S), Halves(w), w # << >>,
         q # << >>, q[1].t = "begin"
  PROVE  Fruitless(w \o q)
<1>1. PICK k \in Nat, l \in Nat : k = Len(w) /\ l = Len(q)
  BY LenProperties
<1>2. /\ k > 1 /\ w[2].t = "field"
      /\ IF k > 2 THEN EndsIn(w[2], w[3]) ELSE w[2].type = "string"
  BY <1>1 DEF Halves
<1>3. l > 0
  BY <1>1, EmptySeq
<1>4. PICK r \in Seq(S) :
        /\ r = w \o q /\ Len(r) = k + l
        /\ \A i \in 1..(k + l) : r[i] = IF i <= k THEN w[i] ELSE q[i - k]
  <2>1. /\ w \o q \in Seq(S) /\ Len(w \o q) = k + l
        /\ \A i \in 1..(k + l) : (w \o q)[i] = IF i <= k THEN w[i] ELSE q[i - k]
    BY <1>1, ConcatProperties
  <2>2. QED
    BY <2>1
<1>5. r[2] = w[2]
  <2>1. 2 \in 1..(k + l) /\ 2 <= k
    BY <1>2
  <2>2. QED
    BY <1>4, <2>1
<1>6. EndsIn(r[2], r[3])
  <2>1. CASE k > 2
    <3>1. 3 \in 1..(k + l) /\ 3 <= k
      BY <2>1
    <3>2. r[3] = w[3]
      BY <1>4, <3>1
    <3>3. QED
      BY <1>2, <1>5, <2>1, <3>2
  <2>2. CASE ~(k > 2)
    <3>1. 3 \in 1..(k + l) /\ ~(3 <= k) /\ 3 - k = 1
      BY <1>2, <1>3, <2>2
    <3>2. r[3] = q[1]
      BY <1>4, <3>1
    <3>3. QED
      BY <1>2, <1>5, <2>2, <3>2 DEF EndsIn
  <2>3. QED
    BY <2>1, <2>2
<1>7. r[2].t = "field" /\ r[3].t \in {"begin", "elements"}
  BY <1>2, <1>5, <1>6 DEF EndsIn, Elements
<1>8. PICK ts \in Seq(S) : ts = Tail(r) /\ Len(ts) = k + l - 1
                           /\ \A i \in 1..(k + l - 1) : ts[i] = r[i + 1]
  <2>1. r # << >>
    <3>1. Len(r) # 0
      BY <1>2, <1>4
    <3>2. QED
      BY <3>1, EmptySeq
  <2>2. Tail(r) \in Seq(S) /\ Len(Tail(r)) = k + l - 1 /\ \A i \in 1..(k + l - 1) : Tail(r)[i] = r[i + 1]
    BY <1>4, <2>1, HeadTailProperties
  <2>3. QED
    BY <2>2, Zenon
<1>9. ts[1] = r[2] /\ ts[2] = r[3]
  <2>1. 1 \in 1..(k + l - 1) /\ 2 \in 1..(k + l - 1) /\ 1 + 1 = 2 /\ 2 + 1 = 3
    BY <1>2, <1>3
  <2>2. QED
    BY <1>8, <2>1
<1>10. ~Turn(ts, 1) /\ Turn(ts, 2)
  <2>1. 1 % 2 = 1 /\ 2 % 2 # 1
    OBVIOUS
  <2>2. ts[1].t = "field" /\ ts[2].t # "value"
    BY <1>7, <1>9
  <2>3. ~Turn(ts, 1)
    BY <2>1, <2>2 DEF Turn
  <2>4. Turn(ts, 2)
    BY <2>1, <2>2 DEF Turn
  <2>5. QED
    BY <2>3, <2>4
<1>11. ASSUME NEW e \in Turns(ts) PROVE e = 2
  <2>1. DOMAIN ts = 1..Len(ts) /\ Len(ts) \in Nat
    BY LenProperties
  <2>2. e \in 1..Len(ts) /\ Turn(ts, e) /\ \A j \in 1..(e - 1) : ~Turn(ts, j)
    BY <1>11, <2>1 DEF Turns
  <2>3. e # 1
    BY <1>10, <2>2
  <2>4. ~(2 \in 1..(e - 1))
    BY <1>10, <2>2
  <2>5. QED
    BY <2>1, <2>2, <2>3, <2>4
<1>12. QED
  BY <1>4, <1>6, <1>8, <1>11 DEF Fruitless

-----------------------------------------------------------------------------
(* What a client that spoiled nothing is told: the steps.                  *)

\* The variables of which RpcInv says nothing are functions.
Shaped == /\ down = [c \in Client |-> down[c]]
          /\ broken = [c \in Client |-> broken[c]]
          /\ spoiled = [c \in Client |-> spoiled[c]]

\* A step that c takes no part in: at most its connection closes.
Apart(c) ==
  /\ serves' = serves /\ pc'[c] = pc[c] /\ call'[c] = call[c] /\ ran'[c] = ran[c]
  /\ made'[c] = made[c] /\ times'[c] = times[c] /\ raised'[c] = raised[c]
  /\ wbuf'[c] = wbuf[c] /\ job'[c] = job[c] /\ down'[c] = down[c] /\ up'[c] = up[c]
  /\ Reachable(c)' => Reachable(c)
  /\ conn[c] = "closed" => conn'[c] = "closed"

\* What is known of the ends of earlier calls stays known.
LEMMA ToldStays ==
  ASSUME NEW c \in Client, ToldRight(c), call'[c] = call[c], ran'[c] = ran[c],
         made'[c] = made[c], times'[c] = times[c], serves' = serves
  PROVE  ToldRight(c)'
BY DEF ToldRight, processMap

LEMMA ToldNothing ==
  ASSUME NEW c \in Client, call'[c].res \in {"transport", "encode"}
  PROVE  ToldRight(c)'
BY DEF ToldRight

LEMMA FallowNext ==
  ASSUME NEW c \in Client, job'[c] = NoJob, Unreadable(down'[c]), Fruitless(up'[c]),
         Reachable(c)' => down'[c] = << >> /\ (up'[c] = << >> \/ pc'[c] = "waiting")
  PROVE  Fallow(c)'
BY DEF Fallow, Unheard

LEMMA EmptyIs == Unreadable(<< >>) /\ Fruitless(<< >>) /\ Halves(<< >>)
BY DEF Unreadable, Fruitless, Halves

LEMMA Apartness ==
  ASSUME NEW c \in Client, ResultsOf(c), Apart(c)
  PROVE  ResultsOf(c)'
<1>1. pc'[c] = "idle" => ToldRight(c)'
  BY ToldStays DEF Apart, ResultsOf
<1>2. \A n \in raised'[c] : times'[c][n] = 0
  BY DEF Apart, ResultsOf
<1>3. Halves(wbuf'[c])
  BY DEF Apart, ResultsOf
<1>4. Unheard(c) => Unheard(c)'
  BY DEF Apart, Unheard
<1>5. Unaware(c) => Unaware(c)'
  BY DEF Apart, Unaware
<1>6. ASSUME Fallow(c) PROVE Fallow(c)'
  BY <1>4, <1>6 DEF Fallow, Apart
<1>7. ASSUME Asked(c) PROVE Asked(c)'
  <2>1. PICK name \in Methods, n \in 1..made[c], kind \in {"good", "none", "foreign"} :
          /\ up[c] = Request(c, name, n, kind)
          /\ n \notin raised[c] /\ times[c][n] = 0
          /\ Reachable(c) => /\ pc[c] = "waiting" /\ n = made[c] /\ call[c].name = name
                             /\ call[c].v = IF kind = "none" THEN Default ELSE n
    BY <1>7 DEF Asked
  <2>2. /\ up'[c] = Request(c, name, n, kind)
        /\ n \notin raised'[c] /\ times'[c][n] = 0
    BY <2>1 DEF Apart
  <2>3. Reachable(c)' => /\ pc'[c] = "waiting" /\ n = made'[c] /\ call'[c].name = name
                         /\ call'[c].v = IF kind = "none" THEN Default ELSE n
    BY <2>1, Zenon DEF Apart
  <2>4. n \in 1..made'[c]
    BY DEF Apart
  <2>5. job'[c] = NoJob /\ Unheard(c)' /\ Unaware(c)'
    BY <1>4, <1>5, <1>7 DEF Asked, Apart
  <2>6. QED
    BY <2>2, <2>3, <2>4, <2>5, Zenon DEF Asked
<1>8. ASSUME Busy(c) PROVE Busy(c)'
  <2>1. job'[c] # NoJob /\ up'[c] = << >> /\ Unheard(c)' /\ Unaware(c)'
    BY <1>4, <1>5, <1>8 DEF Busy, Apart
  <2>2. Reachable(c)' => pc'[c] = "waiting" /\ job'[c] = Awaited(c)' /\ (call[c].name \in processMap)'
    BY <1>8 DEF Busy, Apart, Awaited, processMap
  <2>3. QED
    BY <2>1, <2>2 DEF Busy, Apart
<1>9. ASSUME Replied(c) PROVE Replied(c)'
  BY <1>9 DEF Replied, Apart, Awaited, processMap
<1>10. ASSUME Refused(c) PROVE Refused(c)'
  BY <1>10 DEF Refused, Apart, processMap
<1>11. QED
  BY <1>1, <1>2, <1>3, <1>6, <1>7, <1>8, <1>9, <1>10 DEF ResultsOf

\* What RpcInv says of c that these steps need.
LEMMA Known ==
  ASSUME RpcInv, NEW c \in Client
  PROVE  /\ up[c] \in Seq(Token) /\ wbuf[c] \in Seq(Token) /\ made[c] \in Nat
         /\ made[c] <= MaxCalls[c] /\ MaxCalls[c] \in Nat
         /\ raised[c] \subseteq 1..made[c] /\ times[c] \in [1..MaxCalls[c] -> Nat]
         /\ \A n \in 1..MaxCalls[c] : n > made[c] => times[c][n] = 0
         /\ job[c] # NoJob => conn[c] = "served" /\ job[c].name \in Methods
<1>1. ConnPart /\ CountPart /\ WorkPart
  BY PartsHold
<1>2. made[c] \in Nat /\ made[c] <= MaxCalls[c] /\ raised[c] \subseteq 1..made[c]
  BY <1>1 DEF CountPart
<1>3. MaxCalls[c] \in Nat
  BY RpcBoundAssumption
<1>4. times[c] \in [1..MaxCalls[c] -> Nat] /\ RunsAt(up[c], wbuf[c], made[c], times[c])
  BY <1>1 DEF WorkPart
<1>5. PICK l \in 0..made[c], k \in 0..made[c] :
        /\ CallStream(up[c], l, k) /\ CallStream(wbuf[c], k, made[c])
        /\ \A n \in DOMAIN times[c] : n > l => times[c][n] = 0
  BY <1>4 DEF RunsAt
<1>6. \A n \in 1..MaxCalls[c] : n > made[c] => n > l
  BY <1>2, <1>3
<1>7. \A n \in 1..MaxCalls[c] : n > made[c] => times[c][n] = 0
  BY <1>4, <1>5, <1>6
<1>8. up[c] \in Seq(Token) /\ wbuf[c] \in Seq(Token)
  BY <1>5 DEF CallStream
<1>9. job[c] # NoJob => conn[c] = "served" /\ job[c].name \in Methods
  BY <1>1 DEF ConnPart, WorkPart
<1>10. QED
  BY <1>2, <1>3, <1>4, <1>7, <1>8, <1>9

\* The variables that RpcInv types are functions too.
LEMMA Functions ==
  ASSUME RpcInv
  PROVE  /\ pc = [c \in Client |-> pc[c]] /\ conn = [c \in Client |-> conn[c]]
         /\ job = [c \in Client |-> job[c]] /\ up = [c \in Client |-> up[c]]
         /\ wbuf = [c \in Client |-> wbuf[c]] /\ made = [c \in Client |-> made[c]]
         /\ call = [c \in Client |-> call[c]] /\ ran = [c \in Client |-> ran[c]]
         /\ raised = [c \in Client |-> raised[c]] /\ times = [c \in Client |-> times[c]]
BY DEF RpcInv, TypeOK

\* A client that leaves, or loses what it waited for.
LEMMA ResultsLeave ==
  ASSUME RpcInv, NEW c \in Client, ResultsOf(c), Leave(c)
  PROVE  ResultsOf(c)'
<1>1. /\ pc[c] = "idle" /\ pc'[c] = "gone" /\ wbuf'[c] = << >>
      /\ UNCHANGED <<serves, conn, up, down, broken, job, made, raised, times, ran>>
  BY Functions DEF Leave, server, stream, history
<1>2. pc'[c] # "idle" /\ pc'[c] # "waiting" /\ (Reachable(c)' <=> Reachable(c))
  BY <1>1 DEF Reachable
<1>3. (pc'[c] = "idle" => ToldRight(c)') /\ (\A n \in raised'[c] : times'[c][n] = 0) /\ Halves(wbuf'[c])
  BY <1>1, EmptyIs DEF ResultsOf
<1>4. Unaware(c)' /\ (Unheard(c) => Unheard(c)')
  BY <1>1, <1>2 DEF Unaware, Unheard
<1>5. ASSUME Fallow(c) PROVE Fallow(c)'
  BY <1>1, <1>2, <1>4, <1>5 DEF Fallow
<1>6. ASSUME Asked(c) PROVE Asked(c)'
  <2>1. PICK name \in Methods, n \in 1..made[c], kind \in {"good", "none", "foreign"} :
          /\ up[c] = Request(c, name, n, kind)
          /\ n \notin raised[c] /\ times[c][n] = 0
          /\ Reachable(c) => pc[c] = "waiting"
    BY <1>6 DEF Asked
  <2>2. ~Reachable(c)'
    BY <1>1, <1>2, <2>1
  <2>3. job'[c] = NoJob /\ Unheard(c)'
    BY <1>1, <1>4, <1>6 DEF Asked
  <2>4. n \in 1..made'[c] /\ up'[c] = Request(c, name, n, kind) /\ n \notin raised'[c] /\ times'[c][n] = 0
    BY <1>1, <2>1
  <2>5. QED
    BY <1>4, <2>2, <2>3, <2>4, Zenon DEF Asked
<1>7. ASSUME Busy(c) PROVE Busy(c)'
  BY <1>1, <1>2, <1>4, <1>7 DEF Busy
<1>8. ~Replied(c) /\ ~Refused(c)
  BY <1>1 DEF Replied, Refused
<1>9. QED
  BY <1>3, <1>5, <1>6, <1>7, <1>8 DEF ResultsOf

\* What is there for c to read in each state of the invariant.
LEMMA RepliedHeard ==
  ASSUME RpcInv, NEW c \in Client, Replied(c)
  PROVE  \E how : /\ ran[c] = [name |-> call[c].name, n |-> made[c], v |-> call[c].v, how |-> how]
                  /\ how \in {"returned", "ouch", "std"}
                  /\ Heard(c, ToldAs(how), call[c].v,
                           how = "returned" /\ call[c].name \in {"put", "puts"})
<1>1. PICK name, v : name = call[c].name /\ v = call[c].v
  OBVIOUS
<1>2. name \in Methods
  <2>1. processMap \subseteq Methods
    BY PartsHold, Callable
  <2>2. QED
    BY <1>1, <2>1 DEF Replied
<1>3. PICK how \in {"returned"} \cup Processes[name].throws :
        /\ ran[c] = [name |-> name, n |-> made[c], v |-> v, how |-> how]
        /\ down[c] = Answer(Awaited(c), how)
  BY <1>1 DEF Replied
<1>4. PICK run : run = Awaited(c)
  OBVIOUS
<1>5. Named(c, name) /\ Ended(run, name, v, how)
  BY <1>1, <1>2, <1>3, <1>4 DEF Named, Ended, Awaited
<1>6. Heard(c, ToldAs(how), v, how = "returned" /\ name \in {"put", "puts"})
  BY <1>3, <1>4, <1>5, AnswerHeard
<1>7. how \in {"returned", "ouch", "std"}
  BY <1>2, <1>3, Throws
<1>8. QED
  BY <1>1, <1>3, <1>6, <1>7

LEMMA RefusedHeard ==
  ASSUME NEW c \in Client, Refused(c)
  PROVE  Heard(c, "app", Default, FALSE)
<1>1. PICK name, b, n : name = call[c].name /\ n = made[c] /\ b = MessageBegin("exception", name, n)
  OBVIOUS
<1>2. b.mtype = "exception"
  BY <1>1 DEF MessageBegin
<1>3. down[c] = <<b>> \o WriteAll(TApplicationException, <<Default, 1>>) /\ Named(c, name)
  BY <1>1 DEF Refused, Named
<1>4. QED
  BY <1>2, <1>3, ExceptionHeard

LEMMA NothingThere ==
  ASSUME NEW c \in Client, Fallow(c) \/ Asked(c) \/ Busy(c)
  PROVE  Reply(c) = {}
<1>1. Unreadable(down[c])
  BY DEF Fallow, Asked, Busy, Unheard
<1>2. CASE down[c] = << >>
  BY <1>2 DEF Reply
<1>3. CASE down[c] # << >>
  <2>1. PICK s : s = IF down[c][1].mtype = "exception" THEN TApplicationException
                     ELSE Stubs[Lang[c]][call[c].name].result
    OBVIOUS
  <2>2. ReadStruct(s, Tail(down[c])) = {}
    BY <1>1, <1>3, UnreadableRead
  <2>3. Reply(c) \subseteq ReadStruct(s, Tail(down[c]))
    BY <1>3, <2>1, Zenon DEF Reply
  <2>4. QED
    BY <2>2, <2>3
<1>4. QED
  BY <1>2, <1>3

LEMMA ResultsLose ==
  ASSUME RpcInv, NEW c \in Client, ResultsOf(c), LoseReply(c)
  PROVE  ResultsOf(c)'
<1>1. /\ pc'[c] = "idle" /\ call'[c] = [call[c] EXCEPT !.res = "transport"]
      /\ UNCHANGED <<serves, conn, up, down, broken, job, wbuf, made, raised, times, ran>>
      /\ Reply(c) = {} /\ ~Reachable(c)
  BY Functions DEF LoseReply, server, stream, history
<1>2. call'[c].res = "transport"
  <2>1. call[c] = [name |-> call[c].name, v |-> call[c].v, res |-> call[c].res, back |-> call[c].back]
    BY DEF RpcInv
  <2>2. QED
    BY <1>1, <2>1
<1>3. ~Reachable(c)'
  BY <1>1 DEF Reachable
<1>4. (pc'[c] = "idle" => ToldRight(c)') /\ (\A n \in raised'[c] : times'[c][n] = 0) /\ Halves(wbuf'[c])
  BY <1>1, <1>2, ToldNothing DEF ResultsOf
<1>5. Unaware(c)' /\ (Unheard(c) => Unheard(c)')
  BY <1>1, <1>2, <1>3 DEF Unaware, Unheard
<1>6. ASSUME Fallow(c) PROVE Fallow(c)'
  BY <1>1, <1>3, <1>5, <1>6 DEF Fallow
<1>7. ASSUME Asked(c) PROVE Asked(c)'
  <2>1. PICK name \in Methods, n \in 1..made[c], kind \in {"good", "none", "foreign"} :
          /\ up[c] = Request(c, name, n, kind)
          /\ n \notin raised[c] /\ times[c][n] = 0
    BY <1>7 DEF Asked
  <2>2. job'[c] = NoJob /\ Unheard(c)'
    BY <1>1, <1>5, <1>7 DEF Asked
  <2>3. n \in 1..made'[c] /\ up'[c] = Request(c, name, n, kind) /\ n \notin raised'[c] /\ times'[c][n] = 0
    BY <1>1, <2>1
  <2>4. QED
    BY <1>3, <1>5, <2>2, <2>3, Zenon DEF Asked
<1>8. ASSUME Busy(c) PROVE Busy(c)'
  BY <1>1, <1>3, <1>5, <1>8 DEF Busy
<1>9. ~Replied(c) /\ ~Refused(c)
  BY <1>1, RepliedHeard, RefusedHeard DEF Heard
<1>10. QED
  BY <1>4, <1>6, <1>7, <1>8, <1>9 DEF ResultsOf

\* The client reads its answer.
LEMMA ResultsReply ==
  ASSUME RpcInv, Shaped, NEW c \in Client, ResultsOf(c), ReceiveReply(c)
  PROVE  ResultsOf(c)'
<1>1. PICK m \in Reply(c) : /\ call'[c] = Told(c, m.set)
                            /\ down'[c] = SubSeq(down[c], m.used + 2, Len(down[c]))
  BY Functions DEF ReceiveReply, Shaped
<1>2. /\ pc'[c] = "idle"
      /\ UNCHANGED <<serves, conn, up, broken, job, wbuf, made, raised, times, ran>>
  BY Functions DEF ReceiveReply, server, history
<1>3. ~Fallow(c) /\ ~Asked(c) /\ ~Busy(c)
  BY <1>1, NothingThere
<1>4. PICK old, o : old = call[c] /\ o = Outcome(c, m.set)
  OBVIOUS
<1>5. call'[c] = [name |-> old.name, v |-> old.v, res |-> o.res, back |-> o.back]
  <2>1. old = [name |-> old.name, v |-> old.v, res |-> old.res, back |-> old.back]
    BY <1>4 DEF RpcInv
  <2>2. call'[c] = [old EXCEPT !.res = o.res, !.back = o.back]
    BY <1>1, <1>4 DEF Told
  <2>3. QED
    BY <2>1, <2>2
<1>6. ASSUME NEW res, NEW v, NEW void \in BOOLEAN, Heard(c, res, v, void)
      PROVE  down'[c] = << >> /\ o.res = res /\ (void \/ o.back = v)
  BY <1>1, <1>4, <1>6 DEF Heard
<1>7. ASSUME Replied(c) PROVE ToldRight(c)' /\ down'[c] = << >>
  <2>1. PICK how : /\ ran[c] = [name |-> old.name, n |-> made[c], v |-> old.v, how |-> how]
                   /\ how \in {"returned", "ouch", "std"}
                   /\ Heard(c, ToldAs(how), old.v, how = "returned" /\ old.name \in {"put", "puts"})
    BY <1>4, <1>7, RepliedHeard
  <2>2. PICK void \in BOOLEAN : void = (how = "returned" /\ old.name \in {"put", "puts"})
    OBVIOUS
  <2>3. down'[c] = << >> /\ o.res = ToldAs(how) /\ (void \/ o.back = old.v)
    BY <1>6, <2>1, <2>2
  <2>4. old.name \in processMap
    BY <1>4, <1>7 DEF Replied
  <2>5. ToldRight(c)'
    <3>1. /\ call'[c].name = old.name /\ call'[c].v = old.v /\ call'[c].res = o.res
          /\ call'[c].back = o.back
      BY <1>5
    <3>2. ran'[c] = [name |-> old.name, n |-> made'[c], v |-> old.v, how |-> how]
      BY <1>2, <2>1
    <3>3. processMap' = processMap
      BY <1>2 DEF processMap
    <3>4. CASE how = "returned"
      <4>1. o.res = "returned" /\ (old.name \in {"put", "puts"} \/ o.back = old.v)
        BY <2>2, <2>3, <3>4 DEF ToldAs
      <4>2. QED
        BY <3>1, <3>2, <3>4, <4>1 DEF ToldRight, write_map
    <3>5. CASE how = "ouch"
      <4>1. o.res = "ouch" /\ o.back = old.v
        BY <2>2, <2>3, <3>5 DEF ToldAs
      <4>2. QED
        BY <3>1, <3>2, <3>5, <4>1 DEF ToldRight
    <3>6. CASE how = "std"
      <4>1. o.res = "app" /\ o.back = old.v
        BY <2>2, <2>3, <3>6 DEF ToldAs
      <4>2. QED
        BY <2>4, <3>1, <3>2, <3>3, <3>6, <4>1 DEF ToldRight
    <3>7. QED
      BY <2>1, <3>4, <3>5, <3>6
  <2>6. QED
    BY <2>3, <2>5
<1>8. ASSUME Refused(c) PROVE ToldRight(c)' /\ down'[c] = << >>
  <2>1. Heard(c, "app", Default, FALSE)
    BY <1>8, RefusedHeard
  <2>2. down'[c] = << >> /\ o.res = "app"
    BY <1>6, <2>1
  <2>3. old.name \notin processMap /\ times[c][made[c]] = 0
    BY <1>4, <1>8 DEF Refused
  <2>4. call'[c].name = old.name /\ call'[c].res = "app"
    BY <1>5, <2>2
  <2>5. processMap' = processMap
    BY <1>2 DEF processMap
  <2>6. ToldRight(c)'
    BY <1>2, <2>3, <2>4, <2>5 DEF ToldRight
  <2>7. QED
    BY <2>2, <2>6
<1>9. ToldRight(c)' /\ down'[c] = << >> /\ job'[c] = NoJob /\ up'[c] = << >>
  <2>1. job[c] = NoJob /\ up[c] = << >>
    BY <1>3 DEF ResultsOf, Replied, Refused
  <2>2. Replied(c) \/ Refused(c)
    BY <1>3 DEF ResultsOf
  <2>3. QED
    BY <1>2, <1>7, <1>8, <2>1, <2>2
<1>10. Fallow(c)'
  BY <1>9, EmptyIs, FallowNext
<1>11. (\A n \in raised'[c] : times'[c][n] = 0) /\ Halves(wbuf'[c])
  BY <1>2 DEF ResultsOf
<1>12. QED
  BY <1>9, <1>10, <1>11 DEF ResultsOf

\* The client makes a call.
LEMMA ResultsCall ==
  ASSUME RpcInv, Shaped, NEW c \in Client, ResultsOf(c), Call(c)
  PROVE  ResultsOf(c)'
<1>1. PICK kind \in {"good", "none", "foreign"}, name \in Methods :
        /\ Makes(c, kind)
        /\ up'[c] = IF Reachable(c) THEN up[c] \o wbuf[c] \o Request(c, name, made[c] + 1, kind)
                    ELSE up[c]
        /\ call'[c] = CallOf(c, name, kind, "")
  BY PartsHold, Callable, Functions DEF Call
<1>2. /\ pc'[c] = "waiting" /\ wbuf'[c] = << >>
      /\ UNCHANGED <<serves, conn, broken, down, job, raised, times>>
  BY Functions DEF Call, server
<1>3. PICK m \in Nat, M \in Nat :
        /\ m = made[c] /\ M = MaxCalls[c] /\ raised[c] \subseteq 1..m
        /\ \A k \in 1..M : k > m => times[c][k] = 0
  BY Known
<1>4. m < M /\ pc[c] = "idle"
  BY <1>1, <1>3 DEF Makes
<1>5. PICK n \in Nat : n = m + 1
  OBVIOUS
<1>6. made'[c] = n
  BY <1>1, <1>3, <1>5, Functions DEF Makes
<1>7. /\ n \in 1..n /\ n \notin raised[c] /\ times[c][n] = 0
      /\ \A k \in 1..m : k \in 1..n
  <2>1. n \in 1..M /\ n > m /\ n \notin 1..m
    BY <1>4, <1>5
  <2>2. QED
    BY <1>3, <1>5, <2>1
<1>8. call'[c].name = name /\ call'[c].v = Meant(n, kind)
  <2>1. PICK v : v = Meant(n, kind)
    OBVIOUS
  <2>2. call'[c] = [name |-> name, v |-> v, res |-> "", back |-> Default]
    BY <1>1, <1>3, <1>5, <2>1, Zenon DEF CallOf, Meant
  <2>3. PICK r : r = [name |-> name, v |-> v, res |-> "", back |-> Default]
    OBVIOUS
  <2>4. r.name = name /\ r.v = v
    BY <2>3
  <2>5. QED
    BY <2>1, <2>2, <2>3, <2>4, Zenon
<1>9. (pc'[c] = "idle" => ToldRight(c)') /\ (\A k \in raised'[c] : times'[c][k] = 0) /\ Halves(wbuf'[c])
  BY <1>2, EmptyIs DEF ResultsOf
<1>10. Reachable(c)' <=> Reachable(c)
  BY <1>2 DEF Reachable
<1>11. Unaware(c)' /\ (Unheard(c) => Unheard(c)')
  BY <1>2, <1>10 DEF Unaware, Unheard
<1>12. PICK q : q = Request(c, name, n, kind)
  OBVIOUS
<1>13. CASE ~Reachable(c)
  <2>1. up'[c] = up[c] /\ ~Reachable(c)'
    BY <1>1, <1>10, <1>13
  <2>2. ASSUME Fallow(c) PROVE Fallow(c)'
    BY <1>2, <1>11, <2>1, <2>2 DEF Fallow
  <2>3. ASSUME Asked(c) PROVE Asked(c)'
    <3>1. PICK nm \in Methods, k \in 1..made[c], kd \in {"good", "none", "foreign"} :
            /\ up[c] = Request(c, nm, k, kd)
            /\ k \notin raised[c] /\ times[c][k] = 0
      BY <2>3 DEF Asked
    <3>2. job'[c] = NoJob /\ Unheard(c)'
      BY <1>2, <1>11, <2>3 DEF Asked
    <3>3. k \in 1..made'[c] /\ up'[c] = Request(c, nm, k, kd) /\ k \notin raised'[c] /\ times'[c][k] = 0
      BY <1>2, <1>3, <1>6, <1>7, <2>1, <3>1
    <3>4. QED
      BY <1>11, <2>1, <3>2, <3>3, Zenon DEF Asked
  <2>4. ASSUME Busy(c) PROVE Busy(c)'
    BY <1>2, <1>11, <2>1, <2>4 DEF Busy
  <2>5. ~Replied(c) /\ ~Refused(c)
    BY <1>4 DEF Replied, Refused
  <2>6. QED
    BY <1>9, <2>2, <2>3, <2>4, <2>5 DEF ResultsOf
<1>14. CASE Reachable(c)
  <2>1. Fallow(c)
    BY <1>4, <1>14 DEF ResultsOf, Asked, Busy, Replied, Refused
  <2>2. up[c] = << >> /\ Unheard(c) /\ job[c] = NoJob
    BY <1>4, <1>14, <2>1 DEF Fallow
  <2>3. PICK w \in Seq(Token) : w = wbuf[c] /\ Halves(w)
    BY Known DEF ResultsOf
  <2>4. q \in Seq(Token) /\ q # << >> /\ q[1].t = "begin"
    <3>1. n \in Nat \ {0} /\ m < n
      BY <1>5
    <3>2. PICK kd \in {"good", "foreign", "none", "wrong", "unicode", "element"} : kd = kind
      OBVIOUS
    <3>3. CallStream(Request(c, name, n, kd), m, n)
      BY <3>1, StreamRequest
    <3>4. Whole(q, name, n, Meant(n, kind))
      BY <1>12, RequestWhole
    <3>5. QED
      BY <1>12, <3>2, <3>3, <3>4 DEF CallStream, Whole
  <2>5. up'[c] = w \o q
    <3>1. up'[c] = << >> \o w \o q
      BY <1>1, <1>3, <1>5, <1>12, <1>14, <2>2, <2>3
    <3>2. << >> \o w = w
      BY ConcatEmptySeq
    <3>3. QED
      BY <3>1, <3>2
  <2>6. CASE w = << >>
    <3>1. up'[c] = q
      <4>1. << >> \o q = q
        BY <2>4, ConcatEmptySeq
      <4>2. QED
        BY <2>5, <2>6, <4>1
    <3>2. job'[c] = NoJob /\ Unheard(c)'
      BY <1>2, <1>11, <2>2
    <3>3. n \in 1..made'[c] /\ up'[c] = Request(c, name, n, kind) /\ n \notin raised'[c] /\ times'[c][n] = 0
      BY <1>2, <1>6, <1>7, <1>12, <3>1
    <3>4. /\ pc'[c] = "waiting" /\ n = made'[c] /\ call'[c].name = name
          /\ call'[c].v = IF kind = "none" THEN Default ELSE n
      BY <1>2, <1>6, <1>8 DEF Meant
    <3>5. Asked(c)'
      BY <1>11, <3>2, <3>3, <3>4, Zenon DEF Asked
    <3>6. QED
      BY <1>9, <3>5 DEF ResultsOf
  <2>7. CASE w # << >>
    <3>1. Fruitless(w \o q)
      BY <2>3, <2>4, <2>7, HalvesSpoil
    <3>2. Fallow(c)'
      BY <1>2, <1>11, <2>2, <2>5, <3>1 DEF Fallow
    <3>3. QED
      BY <1>9, <3>2 DEF ResultsOf
  <2>8. QED
    BY <2>6, <2>7
<1>15. QED
  BY <1>13, <1>14

\* Its argument cannot be encoded; this is how that may spoil the stream.
Spoils(kind, name) == kind = "unicode" \/ (kind = "wrong" /\ ArgType(name) # "string")

LEMMA ResultsRaise ==
  ASSUME RpcInv, Shaped, NEW c \in Client, ResultsOf(c), CallRaises(c), ~spoiled'[c]
  PROVE  ResultsOf(c)'
<1>1. PICK kind \in {"wrong", "unicode", "element"}, name \in Methods :
        /\ Makes(c, kind)
        /\ wbuf'[c] = wbuf[c] \o Request(c, name, made[c] + 1, kind)
        /\ call'[c] = CallOf(c, name, kind, "encode")
        /\ spoiled'[c] = (spoiled[c] \/ Spoils(kind, name))
  <2>1. PICK kind \in {"wrong", "unicode", "element"} : Makes(c, kind) /\ \E name \in Calls(c, kind) :
          /\ wbuf' = [wbuf EXCEPT ![c] = @ \o Request(c, name, made[c] + 1, kind)]
          /\ call' = [call EXCEPT ![c] = CallOf(c, name, kind, "encode")]
          /\ spoiled' = [spoiled EXCEPT ![c] = @ \/ Spoils(kind, name)]
    BY DEF CallRaises, Spoils
  <2>2. PICK name \in Methods :
          /\ wbuf' = [wbuf EXCEPT ![c] = @ \o Request(c, name, made[c] + 1, kind)]
          /\ call' = [call EXCEPT ![c] = CallOf(c, name, kind, "encode")]
          /\ spoiled' = [spoiled EXCEPT ![c] = @ \/ Spoils(kind, name)]
    BY <2>1, PartsHold, Callable
  <2>3. /\ wbuf'[c] = wbuf[c] \o Request(c, name, made[c] + 1, kind)
        /\ call'[c] = CallOf(c, name, kind, "encode")
    BY <2>2, Functions
  <2>4. spoiled'[c] = (spoiled[c] \/ Spoils(kind, name))
    BY <2>2, Zenon DEF Shaped
  <2>5. QED
    BY <2>1, <2>3, <2>4
<1>2. (kind = "wrong" /\ ArgType(name) = "string") \/ kind = "element"
  BY <1>1 DEF Spoils
<1>3. raised'[c] = raised[c] \cup {made[c] + 1} /\ UNCHANGED <<serves, conn, up, down, broken, job, pc, times>>
  BY Functions DEF CallRaises, server, stream, history
<1>4. PICK m \in Nat, M \in Nat :
        /\ m = made[c] /\ M = MaxCalls[c] /\ raised[c] \subseteq 1..m
        /\ \A k \in 1..M : k > m => times[c][k] = 0
  BY Known
<1>5. m < M /\ pc[c] = "idle"
  BY <1>1, <1>4 DEF Makes
<1>6. PICK n \in Nat : n = m + 1
  OBVIOUS
<1>7. made'[c] = n
  BY <1>1, <1>4, <1>6, Functions DEF Makes
<1>8. times[c][n] = 0 /\ \A k \in 1..m : k \in 1..n /\ k # n
  <2>1. n \in 1..M /\ n > m
    BY <1>5, <1>6
  <2>2. QED
    BY <1>4, <1>6, <2>1
<1>9. call'[c].res = "encode"
  BY <1>1 DEF CallOf
<1>10. Halves(wbuf'[c])
  <2>1. PICK q : q = Request(c, name, n, kind)
    OBVIOUS
  <2>2. q \in Seq(Token)
    <3>1. n \in Nat \ {0} /\ m < n
      BY <1>6
    <3>2. PICK kd \in {"good", "foreign", "none", "wrong", "unicode", "element"} : kd = kind
      OBVIOUS
    <3>3. CallStream(Request(c, name, n, kd), m, n)
      BY <3>1, StreamRequest
    <3>4. QED
      BY <2>1, <3>2, <3>3 DEF CallStream
  <2>3. PICK w \in Seq(Token) : w = wbuf[c] /\ Halves(w)
    BY Known DEF ResultsOf
  <2>4. q # << >> /\ Halves(q)
    BY <1>2, <2>1, HalfIs
  <2>5. Halves(w \o q)
    BY <2>2, <2>3, <2>4, HalvesMore
  <2>6. wbuf'[c] = w \o q
    BY <1>1, <1>4, <1>6, <2>1, <2>3
  <2>7. QED
    BY <2>5, <2>6
<1>11. ToldRight(c)' /\ \A k \in raised'[c] : times'[c][k] = 0
  <2>1. \A k \in raised'[c] : k \in raised[c] \/ k = n
    BY <1>3, <1>4, <1>6
  <2>2. \A k \in raised[c] : times[c][k] = 0
    BY DEF ResultsOf
  <2>3. QED
    BY <1>3, <1>8, <1>9, <2>1, <2>2, ToldNothing
<1>12. Reachable(c)' <=> Reachable(c)
  BY <1>3 DEF Reachable
<1>13. Unaware(c)' /\ (Unheard(c) => Unheard(c)')
  BY <1>3, <1>9, <1>12 DEF Unaware, Unheard
<1>14. ASSUME Fallow(c) PROVE Fallow(c)'
  BY <1>3, <1>12, <1>13, <1>14 DEF Fallow
<1>15. ASSUME Asked(c) PROVE Asked(c)'
  <2>1. PICK nm \in Methods, k \in 1..made[c], kd \in {"good", "none", "foreign"} :
          /\ up[c] = Request(c, nm, k, kd)
          /\ k \notin raised[c] /\ times[c][k] = 0
          /\ Reachable(c) => pc[c] = "waiting"
    BY <1>15 DEF Asked
  <2>2. ~Reachable(c)'
    BY <1>5, <1>12, <2>1
  <2>3. job'[c] = NoJob /\ Unheard(c)'
    BY <1>3, <1>13, <1>15 DEF Asked
  <2>4. k \in 1..made'[c] /\ up'[c] = Request(c, nm, k, kd) /\ times'[c][k] = 0
    BY <1>3, <1>4, <1>7, <1>8, <2>1
  <2>5. k \notin raised'[c]
    BY <1>3, <1>4, <1>6, <1>8, <2>1
  <2>6. QED
    BY <1>13, <2>2, <2>3, <2>4, <2>5, Zenon DEF Asked
<1>16. ASSUME Busy(c) PROVE Busy(c)'
  <2>1. ~Reachable(c)'
    BY <1>5, <1>12, <1>16 DEF Busy
  <2>2. QED
    BY <1>3, <1>13, <1>16, <2>1 DEF Busy
<1>17. ~Replied(c) /\ ~Refused(c)
  BY <1>5 DEF Replied, Refused
<1>18. QED
  BY <1>10, <1>11, <1>14, <1>15, <1>16, <1>17 DEF ResultsOf

\* What the worker has before it when it reads a message of c.
LEMMA Incomes ==
  ASSUME NEW c \in Client, NEW m \in Incoming(c)
  PROVE  /\ conn[c] = "served" /\ job[c] = NoJob /\ up[c] # << >>
         /\ m \in ReadStruct(IF up[c][1].name \in processMap THEN Args(up[c][1].name) ELSE << >>,
                             Tail(up[c]))
BY DEF Incoming, Args

\* Only of a client that asked a call is read.
LEMMA OnlyAsked ==
  ASSUME RpcInv, NEW c \in Client, ResultsOf(c), NEW m \in Incoming(c), m.end \in {"ok", "junk"}
  PROVE  Asked(c)
<1>1. PICK s : /\ job[c] = NoJob /\ up[c] # << >> /\ m \in ReadStruct(s, Tail(up[c]))
  BY Incomes
<1>2. up[c] \in Seq(Token)
  BY Known
<1>3. ~Fallow(c)
  <2>1. Fruitless(up[c]) => m.end = "closed"
    BY <1>1, <1>2, FruitlessRead
  <2>2. QED
    BY <2>1 DEF Fallow
<1>4. ~Busy(c) /\ ~Replied(c) /\ ~Refused(c)
  BY <1>1 DEF Busy, Replied, Refused
<1>5. QED
  BY <1>3, <1>4 DEF ResultsOf

\* The handler starts.
LEMMA ResultsReceive ==
  ASSUME RpcInv, Shaped, NEW c \in Client, ResultsOf(c), Receive(c)
  PROVE  ResultsOf(c)'
<1>1. PICK m, run :
        /\ m \in Incoming(c)
        /\ m.end \in {"ok", "junk"} /\ up[c][1].name \in processMap
        /\ run = [name |-> up[c][1].name, n |-> up[c][1].n,
                  v |-> IF 1 \in DOMAIN m.set THEN m.set[1] ELSE Default]
        /\ job' = [job EXCEPT ![c] = run]
        /\ times' = [times EXCEPT ![c][run.n] = @ + 1]
        /\ up' = [up EXCEPT ![c] =
             IF m.end = "junk" THEN << >> ELSE SubSeq(@, m.used + 2, Len(@))]
  BY DEF Receive
<1>2. /\ pc'[c] = pc[c] /\ call'[c] = call[c] /\ made'[c] = made[c] /\ raised'[c] = raised[c]
      /\ wbuf'[c] = wbuf[c] /\ down'[c] = down[c] /\ UNCHANGED <<serves, conn, broken, ran>>
  BY DEF Receive, server, client
<1>3. Asked(c)
  BY <1>1, OnlyAsked
<1>4. PICK name \in Methods, n \in 1..made[c], kind \in {"good", "none", "foreign"} :
        /\ up[c] = Request(c, name, n, kind)
        /\ n \notin raised[c] /\ times[c][n] = 0
        /\ Reachable(c) => /\ pc[c] = "waiting" /\ n = made[c] /\ call[c].name = name
                           /\ call[c].v = Meant(n, kind)
  BY <1>3 DEF Asked, Meant
<1>5. PICK u, v : u = up[c] /\ v = Meant(n, kind)
  OBVIOUS
<1>6. Whole(u, name, n, v)
  BY <1>4, <1>5, RequestWhole
<1>7. u[1].name = name /\ u[1].n = n /\ u # << >>
  BY <1>6 DEF Whole
<1>8. m \in ReadStruct(Args(name), Tail(u))
  BY <1>1, <1>5, <1>7, Incomes
<1>9. /\ m.end = "ok" /\ SubSeq(u, m.used + 2, Len(u)) = << >>
      /\ v = IF 1 \in DOMAIN m.set THEN m.set[1] ELSE Default
  BY <1>6, <1>8 DEF Whole
<1>10. up'[c] = << >>
  BY <1>1, <1>5, <1>9, Functions
<1>11. run = [name |-> name, n |-> n, v |-> v] /\ name \in processMap
  BY <1>1, <1>5, <1>7, <1>9
<1>12. job'[c] = run /\ job'[c] # NoJob
  <2>1. job'[c] = run
    BY <1>1, Functions
  <2>2. run.name = name
    BY <1>11
  <2>3. NoJob.name \notin Methods
    BY NoJobIs DEF Methods, Processes
  <2>4. run # NoJob
    BY <2>2, <2>3
  <2>5. QED
    BY <2>1, <2>4
<1>13. \A k \in raised'[c] : times'[c][k] = 0
  <2>1. run.n = n
    BY <1>11
  <2>2. times[c] \in [1..MaxCalls[c] -> Nat] /\ times' = [times EXCEPT ![c] = [times[c] EXCEPT ![n] = @ + 1]]
    BY <1>1, <2>1, Known
  <2>3. times'[c] = [times[c] EXCEPT ![n] = @ + 1]
    BY <2>2, Functions
  <2>4. \A k \in 1..MaxCalls[c] : k # n => times'[c][k] = times[c][k]
    BY <2>2, <2>3
  <2>5. \A k \in raised[c] : k \in 1..MaxCalls[c] /\ k # n /\ times[c][k] = 0
    <3>1. made[c] \in Nat /\ MaxCalls[c] \in Nat /\ made[c] <= MaxCalls[c] /\ raised[c] \subseteq 1..made[c]
      BY Known
    <3>2. \A k \in 1..made[c] : k \in 1..MaxCalls[c]
      BY <3>1
    <3>3. QED
      BY <1>4, <3>1, <3>2 DEF ResultsOf
  <2>6. QED
    BY <1>2, <2>4, <2>5
<1>14. Reachable(c)' <=> Reachable(c)
  BY <1>2 DEF Reachable
<1>15. Unaware(c)' /\ Unheard(c)'
  BY <1>2, <1>3, <1>14 DEF Asked, Unaware, Unheard
<1>16. pc'[c] = "idle" => ToldRight(c)'
  BY <1>15, ToldNothing DEF Unaware
<1>17. Halves(wbuf'[c])
  BY <1>2 DEF ResultsOf
<1>18. Busy(c)'
  <2>1. Reachable(c)' => pc'[c] = "waiting" /\ job'[c] = Awaited(c)' /\ (call[c].name \in processMap)'
    <3>1. ASSUME Reachable(c) PROVE pc[c] = "waiting" /\ run = Awaited(c) /\ call[c].name \in processMap
      BY <1>4, <1>5, <1>11, <3>1 DEF Awaited
    <3>2. Awaited(c)' = Awaited(c) /\ processMap' = processMap
      BY <1>2 DEF Awaited, processMap
    <3>3. QED
      BY <1>2, <1>12, <1>14, <3>1, <3>2
  <2>2. QED
    BY <1>10, <1>12, <1>15, <2>1 DEF Busy
<1>19. QED
  BY <1>13, <1>16, <1>17, <1>18 DEF ResultsOf

\* Steps after which nothing is on its way to the server, no call runs, and the
\* client can read no more than before.
Silent(c) ==
  /\ serves' = serves /\ pc'[c] = pc[c] /\ call'[c] = call[c] /\ ran'[c] = ran[c]
  /\ made'[c] = made[c] /\ times'[c] = times[c] /\ raised'[c] = raised[c]
  /\ wbuf'[c] = wbuf[c] /\ job'[c] = NoJob /\ up'[c] = << >> /\ down'[c] = down[c]
  /\ Reachable(c)' => Reachable(c)

LEMMA Silence ==
  ASSUME NEW c \in Client, ResultsOf(c), Silent(c), Fallow(c) \/ Asked(c) \/ Busy(c)
  PROVE  ResultsOf(c)'
<1>1. pc'[c] = "idle" => ToldRight(c)'
  BY ToldStays DEF Silent, ResultsOf
<1>2. (\A n \in raised'[c] : times'[c][n] = 0) /\ Halves(wbuf'[c])
  BY DEF Silent, ResultsOf
<1>3. Unheard(c)
  BY DEF Fallow, Asked, Busy
<1>4. Fallow(c)'
  BY <1>3, EmptyIs, FallowNext DEF Silent, Unheard
<1>5. QED
  BY <1>1, <1>2, <1>4 DEF ResultsOf

\* Bytes that make no call.
LEMMA ResultsDrop ==
  ASSUME RpcInv, Shaped, NEW c \in Client, ResultsOf(c), Misread(c) \/ Swallow(c)
  PROVE  ResultsOf(c)'
<1>1. /\ up'[c] = << >> /\ job' = job
      /\ UNCHANGED <<serves, broken, down, pc, call, ran, made, times, raised, wbuf>>
  BY Functions DEF Misread, Swallow, server, client, history
<1>2. job[c] = NoJob /\ up[c] # << >>
  <2>1. CASE Misread(c)
    <3>1. PICK m : m \in Incoming(c)
      BY <2>1 DEF Misread
    <3>2. QED
      BY <3>1, Incomes
  <2>2. CASE Swallow(c)
    BY <2>2 DEF Swallow
  <2>3. QED
    BY <2>1, <2>2
<1>3. conn'[c] = conn[c] \/ conn'[c] = "closed"
  BY Functions DEF Misread, Swallow, Hangup
<1>4. Reachable(c)' => Reachable(c)
  BY <1>1, <1>3 DEF Reachable
<1>5. Silent(c)
  BY <1>1, <1>2, <1>4 DEF Silent
<1>6. Fallow(c) \/ Asked(c) \/ Busy(c)
  BY <1>2 DEF ResultsOf, Replied, Refused
<1>7. QED
  BY <1>5, <1>6, Silence

\* The server does not know the method.
LEMMA ResultsUnknown ==
  ASSUME RpcInv, Shaped, NEW c \in Client, ResultsOf(c), Unknown(c)
  PROVE  ResultsOf(c)'
<1>1. PICK m \in Incoming(c) :
        /\ m.end \in {"ok", "junk"} /\ up[c][1].name \notin processMap
        /\ down'[c] = IF broken[c] THEN down[c] ELSE
             down[c] \o <<MessageBegin("exception", up[c][1].name, up[c][1].n)>>
               \o WriteAll(TApplicationException, <<Default, 1>>)
        /\ up'[c] = << >> /\ conn'[c] = "closed"
  BY Functions DEF Unknown, Hangup, Shaped
<1>2. UNCHANGED <<serves, broken, job, pc, call, ran, made, times, raised, wbuf>>
  BY DEF Unknown, server, client, history
<1>3. Asked(c)
  BY <1>1, OnlyAsked
<1>4. conn[c] = "served" /\ job[c] = NoJob
  BY <1>1, Incomes
<1>5. ~Reachable(c)'
  BY <1>1 DEF Reachable
<1>6. CASE broken[c]
  <2>1. Silent(c)
    BY <1>1, <1>2, <1>4, <1>5, <1>6 DEF Silent
  <2>2. QED
    BY <1>3, <2>1, Silence
<1>7. CASE ~broken[c]
  <2>1. Reachable(c)
    BY <1>4, <1>7 DEF Reachable
  <2>2. PICK name \in Methods, n \in 1..made[c], kind \in {"good", "none", "foreign"} :
          /\ up[c] = Request(c, name, n, kind) /\ times[c][n] = 0
          /\ pc[c] = "waiting" /\ n = made[c] /\ call[c].name = name
    BY <1>3, <2>1 DEF Asked
  <2>3. up[c][1].name = name /\ up[c][1].n = n
    <3>1. Whole(up[c], name, n, Meant(n, kind))
      BY <2>2, RequestWhole
    <3>2. QED
      BY <3>1 DEF Whole
  <2>4. down[c] = << >>
    BY <1>3, <2>1 DEF Asked, Unheard
  <2>5. PICK b, t : /\ b = MessageBegin("exception", name, n)
                    /\ t = WriteAll(TApplicationException, <<Default, 1>>)
    OBVIOUS
  <2>6. down'[c] = <<b>> \o t
    <3>1. down'[c] = << >> \o <<b>> \o t
      BY <1>1, <1>7, <2>3, <2>4, <2>5
    <3>2. << >> \o <<b>> = <<b>>
      BY CatEmpty
    <3>3. QED
      BY <3>1, <3>2
  <2>7. /\ pc'[c] = "waiting" /\ job'[c] = NoJob /\ up'[c] = << >> /\ conn'[c] = "closed"
        /\ call'[c].name = name /\ made'[c] = n /\ times'[c][made'[c]] = 0
    BY <1>1, <1>2, <1>4, <2>2
  <2>8. name \in Methods \ processMap' /\ processMap' = processMap
    BY <1>1, <1>2, <2>3 DEF processMap
  <2>9. Refused(c)'
    BY <2>5, <2>6, <2>7, <2>8 DEF Refused
  <2>10. (\A k \in raised'[c] : times'[c][k] = 0) /\ Halves(wbuf'[c])
    BY <1>2 DEF ResultsOf
  <2>11. QED
    BY <2>7, <2>9, <2>10 DEF ResultsOf
<1>8. QED
  BY <1>6, <1>7

\* An answer is a sequence.
LEMMA AnswerSeq ==
  ASSUME NEW run, NEW name, NEW v, NEW how, Ended(run, name, v, how)
  PROVE  \E S : Answer(run, how) \in Seq(S)
<1>1. PICK b : b = Header(run, how)
  OBVIOUS
<1>2. how \in {"returned", "ouch", "std"}
  BY <1>1, AnswerIs
<1>3. CASE how = "std"
  <2>1. PICK f, x, g, y : Answer(run, how) = <<b, f, x, g, y, FieldStop>>
    BY <1>1, <1>3, AnswerIs
  <2>2. <<b, f, x, g, y, FieldStop>> \in Seq({b, f, x, g, y, FieldStop})
    OBVIOUS
  <2>3. QED
    BY <2>1, <2>2, Zenon
<1>4. CASE how = "ouch" \/ (how = "returned" /\ name \notin {"put", "puts"})
  <2>1. PICK f, x : Answer(run, how) = <<b, f, x, FieldStop>>
    BY <1>1, <1>4, AnswerIs
  <2>2. <<b, f, x, FieldStop>> \in Seq({b, f, x, FieldStop})
    OBVIOUS
  <2>3. QED
    BY <2>1, <2>2, Zenon
<1>5. CASE how = "returned" /\ name \in {"put", "puts"}
  <2>1. Answer(run, how) = <<b, FieldStop>>
    BY <1>1, <1>5, AnswerIs
  <2>2. <<b, FieldStop>> \in Seq({b, FieldStop})
    OBVIOUS
  <2>3. QED
    BY <2>1, <2>2, Zenon
<1>6. QED
  BY <1>2, <1>3, <1>4, <1>5

\* The handler has come to its end.
LEMMA ResultsRespond ==
  ASSUME RpcInv, Shaped, NEW c \in Client, ResultsOf(c), Respond(c)
  PROVE  ResultsOf(c)'
<1>1. job[c] # NoJob /\ conn[c] = "served"
  BY DEF Respond
<1>2. PICK how \in {"returned"} \cup Processes[job[c].name].throws :
        /\ ran'[c] = [name |-> job[c].name, n |-> job[c].n, v |-> job[c].v, how |-> how]
        /\ down'[c] = IF broken[c] THEN down[c] ELSE down[c] \o Answer(job[c], how)
  BY Functions DEF Respond, Shaped
<1>3. /\ job'[c] = NoJob /\ UNCHANGED <<serves, broken, up, pc, call, made, times, raised, wbuf>>
  BY Functions DEF Respond, server, client
<1>4. Busy(c)
  BY <1>1 DEF ResultsOf, Fallow, Asked, Replied, Refused
<1>5. up'[c] = << >> /\ Unheard(c) /\ Unaware(c)
  BY <1>3, <1>4 DEF Busy
<1>6. pc'[c] = "idle" => ToldRight(c)'
  BY <1>3, <1>5, ToldNothing DEF Unaware
<1>7. (\A k \in raised'[c] : times'[c][k] = 0) /\ Halves(wbuf'[c])
  BY <1>3 DEF ResultsOf
<1>8. CASE broken[c]
  <2>1. ~Reachable(c)'
    BY <1>3, <1>8 DEF Reachable
  <2>2. Unreadable(down'[c])
    BY <1>2, <1>5, <1>8 DEF Unheard
  <2>3. Fallow(c)'
    BY <1>3, <1>5, <2>1, <2>2, EmptyIs, FallowNext
  <2>4. QED
    BY <1>6, <1>7, <2>3 DEF ResultsOf
<1>9. CASE ~broken[c]
  <2>1. Reachable(c)
    BY <1>1, <1>9 DEF Reachable
  <2>2. pc[c] = "waiting" /\ job[c] = Awaited(c) /\ call[c].name \in processMap /\ down[c] = << >>
    BY <1>4, <1>5, <2>1 DEF Busy, Unheard
  <2>3. PICK name, n, v : name = call[c].name /\ n = made[c] /\ v = call[c].v
    OBVIOUS
  <2>4. PICK run : run = [name |-> name, n |-> n, v |-> v] /\ run = job[c]
    BY <2>2, <2>3 DEF Awaited
  <2>5. run.name = name /\ run.n = n /\ run.v = v
    BY <2>4
  <2>6. name \in Methods
    BY <2>2, <2>3, PartsHold, Callable
  <2>7. down'[c] = Answer(run, how)
    <3>1. PICK z : z = Answer(run, how)
      OBVIOUS
    <3>2. << >> \o z = z
      <4>1. Named(c, name) /\ Ended(run, name, v, how)
        BY <1>2, <2>3, <2>4, <2>5, <2>6 DEF Named, Ended
      <4>2. PICK b : b = Header(run, how)
        OBVIOUS
      <4>3. \E S : z \in Seq(S)
        BY <2>6, <3>1, <4>1, <4>2, AnswerSeq
      <4>4. QED
        BY <4>3, ConcatEmptySeq
    <3>3. QED
      BY <1>2, <1>9, <2>2, <2>4, <3>1, <3>2
  <2>8. /\ pc'[c] = "waiting" /\ call'[c].name = name /\ call'[c].v = v /\ made'[c] = n
    BY <1>3, <2>2, <2>3
  <2>9. Awaited(c)' = run
    BY <2>4, <2>8 DEF Awaited
  <2>10. name \in processMap'
    BY <1>3, <2>2, <2>3 DEF processMap
  <2>11. ran'[c] = [name |-> name, n |-> n, v |-> v, how |-> how]
    BY <1>2, <2>4, <2>5
  <2>12. how \in {"returned"} \cup Processes[name].throws
    BY <1>2, <2>4, <2>5
  <2>13. Replied(c)'
    BY <1>3, <1>5, <2>7, <2>8, <2>9, <2>10, <2>11, <2>12 DEF Replied
  <2>14. QED
    BY <1>7, <2>8, <2>13 DEF ResultsOf
<1>10. QED
  BY <1>8, <1>9

\* The connection breaks.
LEMMA CutEmpty ==
  ASSUME NEW i \in 0..Len(<< >>)
  PROVE  SubSeq(<< >>, 1, i) = << >>
<1>1. i = 0 /\ 1 \in Int /\ 0 < 1
  OBVIOUS
<1>2. QED
  BY <1>1, SubSeqEmpty

LEMMA ResultsBreak ==
  ASSUME RpcInv, Shaped, NEW c \in Client, ResultsOf(c), Break(c)
  PROVE  ResultsOf(c)'
<1>1. PICK i \in 0..Len(up[c]), j \in 0..Len(down[c]) :
        up'[c] = SubSeq(up[c], 1, i) /\ down'[c] = SubSeq(down[c], 1, j)
  BY Functions DEF Break, Shaped
<1>2. /\ ~broken[c] /\ conn[c] # "closed" /\ broken'[c] = TRUE
      /\ UNCHANGED <<serves, conn, job, pc, call, ran, made, times, raised, wbuf>>
  BY DEF Break, Shaped, server, client, history
<1>3. Reachable(c) /\ ~Reachable(c)'
  BY <1>2 DEF Reachable
<1>4. pc'[c] = "idle" => ToldRight(c)'
  BY <1>2, ToldStays DEF ResultsOf
<1>5. (\A n \in raised'[c] : times'[c][n] = 0) /\ Halves(wbuf'[c])
  BY <1>2 DEF ResultsOf
<1>6. up[c] \in Seq(Token)
  BY Known
<1>7. ASSUME Unheard(c) PROVE Unheard(c)'
  <2>1. down[c] = << >>
    BY <1>3, <1>7 DEF Unheard
  <2>2. down'[c] = << >>
    BY <1>1, <2>1, CutEmpty
  <2>3. QED
    BY <2>2, EmptyIs DEF Unheard
<1>8. Unaware(c) => Unaware(c)'
  BY <1>2 DEF Unaware
<1>9. ASSUME Fallow(c) PROVE Fallow(c)'
  <2>1. Fruitless(up'[c])
    BY <1>1, <1>6, <1>9, FruitlessCut DEF Fallow
  <2>2. QED
    BY <1>2, <1>3, <1>7, <1>9, <2>1 DEF Fallow
<1>10. ASSUME Asked(c) PROVE Fallow(c)' \/ Asked(c)'
  <2>1. PICK name \in Methods, n \in 1..made[c], kind \in {"good", "none", "foreign"} :
          /\ up[c] = Request(c, name, n, kind)
          /\ n \notin raised[c] /\ times[c][n] = 0
    BY <1>10 DEF Asked
  <2>2. job'[c] = NoJob /\ Unheard(c)' /\ Unaware(c)'
    BY <1>2, <1>7, <1>8, <1>10 DEF Asked
  <2>3. CASE i = Len(up[c])
    <3>1. up'[c] = up[c]
      BY <1>1, <1>6, <2>3, SubSeqFull
    <3>2. n \in 1..made'[c] /\ up'[c] = Request(c, name, n, kind) /\ n \notin raised'[c] /\ times'[c][n] = 0
      BY <1>2, <2>1, <3>1
    <3>3. Asked(c)'
      BY <1>3, <2>2, <3>2, Zenon DEF Asked
    <3>4. QED
      BY <3>3
  <2>4. CASE i # Len(up[c])
    <3>1. PICK u : u = up[c]
      OBVIOUS
    <3>2. Whole(u, name, n, Meant(n, kind))
      BY <2>1, <3>1, RequestWhole
    <3>3. PICK e : Message(u, e)
      BY <3>2 DEF Whole
    <3>4. Fruitless(SubSeq(u, 1, i))
      BY <2>4, <3>1, <3>3, MessageCut
    <3>5. Fallow(c)'
      BY <1>1, <1>3, <2>2, <3>1, <3>4 DEF Fallow
    <3>6. QED
      BY <3>5
  <2>5. QED
    BY <2>3, <2>4
<1>11. ASSUME Busy(c) PROVE Busy(c)'
  <2>1. up'[c] = << >>
    BY <1>1, <1>11, CutEmpty DEF Busy
  <2>2. QED
    BY <1>2, <1>3, <1>7, <1>8, <1>11, <2>1 DEF Busy
<1>12. ASSUME Replied(c) PROVE Fallow(c)' \/ Replied(c)'
  <2>1. up[c] = << >> /\ job[c] = NoJob
    BY <1>12 DEF Replied
  <2>2. up'[c] = << >>
    BY <1>1, <2>1, CutEmpty
  <2>3. PICK u, e : u = down[c] /\ Message(u, e)
    BY <1>12, RepliedHeard DEF Heard
  <2>4. PICK S : u \in Seq(S)
    BY <2>3 DEF Message
  <2>5. CASE j = Len(u)
    <3>1. down'[c] = down[c]
      BY <1>1, <2>3, <2>4, <2>5, SubSeqFull
    <3>2. Replied(c)'
      BY <1>2, <1>12, <2>2, <3>1 DEF Replied, Awaited, processMap
    <3>3. QED
      BY <3>2
  <2>6. CASE j # Len(u)
    <3>1. Unreadable(down'[c])
      BY <1>1, <2>3, <2>6, MessageCut
    <3>2. Fallow(c)'
      BY <1>2, <1>3, <2>1, <2>2, <3>1, EmptyIs, FallowNext
    <3>3. QED
      BY <3>2
  <2>7. QED
    BY <2>5, <2>6
<1>13. ~Refused(c)
  BY <1>2 DEF Refused
<1>14. QED
  BY <1>4, <1>5, <1>9, <1>10, <1>11, <1>12, <1>13 DEF ResultsOf

\* The server dies.
LEMMA ResultsDie ==
  ASSUME RpcInv, NEW c \in Client, ResultsOf(c), Die
  PROVE  ResultsOf(c)'
<1>1. /\ conn'[c] = "closed" /\ job'[c] = NoJob /\ up'[c] = << >>
      /\ down'[c] = << >> \/ down'[c] = down[c]
      /\ UNCHANGED <<serves, broken, pc, call, ran, made, times, raised, wbuf>>
  BY DEF Die, client, history
<1>2. ~Reachable(c)'
  BY <1>1 DEF Reachable
<1>3. pc'[c] = "idle" => ToldRight(c)'
  BY <1>1, ToldStays DEF ResultsOf
<1>4. (\A n \in raised'[c] : times'[c][n] = 0) /\ Halves(wbuf'[c])
  BY <1>1 DEF ResultsOf
<1>5. ASSUME Unreadable(down'[c]) PROVE Fallow(c)'
  BY <1>1, <1>2, <1>5, EmptyIs, FallowNext
<1>6. CASE Fallow(c) \/ Asked(c) \/ Busy(c)
  <2>1. Unreadable(down[c])
    BY <1>6 DEF Fallow, Asked, Busy, Unheard
  <2>2. Fallow(c)'
    BY <1>1, <1>5, <2>1, EmptyIs
  <2>3. QED
    BY <1>3, <1>4, <2>2 DEF ResultsOf
<1>7. CASE Replied(c) \/ Refused(c)
  <2>1. CASE down'[c] = << >>
    <3>1. Fallow(c)'
      BY <1>5, <2>1, EmptyIs
    <3>2. QED
      BY <1>3, <1>4, <3>1 DEF ResultsOf
  <2>2. CASE down'[c] = down[c]
    <3>1. Replied(c) => Replied(c)'
      BY <1>1, <2>2 DEF Replied, Awaited, processMap
    <3>2. Refused(c) => Refused(c)'
      BY <1>1, <2>2 DEF Refused, processMap
    <3>3. QED
      BY <1>3, <1>4, <1>7, <3>1, <3>2 DEF ResultsOf
  <2>3. QED
    BY <1>1, <2>1, <2>2
<1>8. QED
  BY <1>6, <1>7 DEF ResultsOf

-----------------------------------------------------------------------------
(* The other clients, and the steps together. *)

\* A step of c and its worker.
Acts(c) == \/ Call(c) \/ CallRaises(c) \/ Hear(c) \/ Leave(c) \/ Serve(c) \/ Break(c)

LEMMA Others ==
  ASSUME RpcInv, Shaped, NEW c \in Client, Acts(c), NEW d \in Client, d # c
  PROVE  Apart(d) /\ spoiled'[d] = spoiled[d]
<1>1. CASE Call(c)
  BY <1>1, Functions DEF Call, Makes, server, Shaped, Apart, Reachable
<1>2. CASE CallRaises(c)
  BY <1>2, Functions DEF CallRaises, Makes, server, stream, history, Shaped, Apart, Reachable
<1>3. CASE Hear(c)
  BY <1>3, Functions DEF Hear, ReceiveReply, LoseReply, server, stream, history, Shaped, Apart, Reachable
<1>4. CASE Leave(c)
  BY <1>4, Functions DEF Leave, server, stream, history, Apart, Reachable
<1>5. CASE Accept(c) \/ Take(c) \/ EndOfInput(c)
  BY <1>5, Functions DEF Accept, Take, EndOfInput, Hangup, server, stream, client, history, Apart, Reachable
<1>6. CASE Receive(c)
  BY <1>6, Functions DEF Receive, server, client, Apart, Reachable
<1>7. CASE Unknown(c)
  BY <1>7, Functions DEF Unknown, Hangup, server, client, history, Shaped, Apart, Reachable
<1>8. CASE Misread(c) \/ Swallow(c)
  BY <1>8, Functions DEF Misread, Swallow, Hangup, server, client, history, Apart, Reachable
<1>9. CASE Respond(c)
  BY <1>9, Functions DEF Respond, Hangup, server, client, Shaped, Apart, Reachable
<1>10. CASE Break(c)
  BY <1>10, Functions DEF Break, server, client, history, Shaped, Apart, Reachable
<1>11. QED
  BY <1>1, <1>2, <1>3, <1>4, <1>5, <1>6, <1>7, <1>8, <1>9, <1>10 DEF Acts, Serve

\* Of the steps of c itself those of the connection alone matter as little.
LEMMA ResultsAct ==
  ASSUME RpcInv, Shaped, NEW c \in Client, spoiled[c] \/ ResultsOf(c), Acts(c)
  PROVE  spoiled'[c] \/ ResultsOf(c)'
<1>1. CASE CallRaises(c)
  <2>1. spoiled[c] => spoiled'[c]
    BY <1>1 DEF CallRaises, Shaped
  <2>2. QED
    BY <1>1, <2>1, ResultsRaise
<1>2. CASE ~CallRaises(c)
  <2>1. spoiled' = spoiled
    BY <1>2 DEF Acts, Call, Hear, ReceiveReply, LoseReply, Leave, Serve, Accept, Take, Receive,
                Unknown, Misread, Swallow, EndOfInput, Respond, Break, client
  <2>2. CASE spoiled[c]
    BY <2>1, <2>2
  <2>3. CASE ~spoiled[c]
    <3>1. ResultsOf(c)
      BY <2>3
    <3>2. ASSUME Accept(c) \/ Take(c) \/ EndOfInput(c) PROVE Apart(c)
      BY <3>2, Functions DEF Accept, Take, EndOfInput, Hangup, server, stream, client, history,
                             Apart, Reachable
    <3>3. ResultsOf(c)'
      BY <1>2, <3>1, <3>2, Apartness, ResultsCall, ResultsReply, ResultsLose, ResultsLeave,
         ResultsReceive, ResultsUnknown, ResultsDrop, ResultsRespond, ResultsBreak
         DEF Acts, Hear, Serve
    <3>4. QED
      BY <3>3
  <2>4. QED
    BY <2>2, <2>3
<1>3. QED
  BY <1>1, <1>2

LEMMA ShapedStep ==
  ASSUME Shaped, [Next]_rpcvars
  PROVE  Shaped'
<1>1. ASSUME NEW c \in Client, Acts(c) PROVE Shaped'
  <2>1. down' = [d \in Client |-> down'[d]]
    BY <1>1 DEF Acts, Call, CallRaises, Hear, ReceiveReply, LoseReply, Leave, Serve, Accept, Take,
                Receive, Unknown, Misread, Swallow, EndOfInput, Respond, Break, stream, Shaped
  <2>2. broken' = [d \in Client |-> broken'[d]]
    BY <1>1 DEF Acts, Call, CallRaises, Hear, ReceiveReply, LoseReply, Leave, Serve, Accept, Take,
                Receive, Unknown, Misread, Swallow, EndOfInput, Respond, Break, stream, Shaped
  <2>3. spoiled' = [d \in Client |-> spoiled'[d]]
    BY <1>1 DEF Acts, Call, CallRaises, Hear, ReceiveReply, LoseReply, Leave, Serve, Accept, Take,
                Receive, Unknown, Misread, Swallow, EndOfInput, Respond, Break, client, Shaped
  <2>4. QED
    BY <2>1, <2>2, <2>3 DEF Shaped
<1>2. CASE Stop \/ Join
  BY <1>2 DEF Stop, Join, stream, client, Shaped
<1>3. CASE Die
  BY <1>3 DEF Die, client, Shaped
<1>4. CASE UNCHANGED rpcvars
  BY <1>4 DEF rpcvars, Shaped
<1>5. QED
  BY <1>1, <1>2, <1>3, <1>4 DEF Next, Acts

\* Every step of the clients and the server keeps the results true.
LEMMA ResultsStep ==
  ASSUME RpcInv, Shaped, ResultsInv, [Next]_rpcvars
  PROVE  ResultsInv'
<1>1. ASSUME NEW c \in Client, Acts(c) PROVE ResultsInv'
  <2>1. ASSUME NEW d \in Client, d # c PROVE spoiled'[d] \/ ResultsOf(d)'
    <3>1. Apart(d) /\ spoiled'[d] = spoiled[d]
      BY <1>1, <2>1, Others
    <3>2. spoiled[d] \/ ResultsOf(d)
      BY DEF ResultsInv
    <3>3. ResultsOf(d) => ResultsOf(d)'
      BY <3>1, Apartness
    <3>4. QED
      BY <3>1, <3>2, <3>3
  <2>2. spoiled'[c] \/ ResultsOf(c)'
    BY <1>1, ResultsAct DEF ResultsInv
  <2>3. \A d \in Client : spoiled'[d] \/ ResultsOf(d)'
    BY <2>1, <2>2
  <2>4. QED
    BY <2>3, Zenon DEF ResultsInv
<1>2. CASE Stop \/ Join \/ UNCHANGED rpcvars
  <2>1. ASSUME NEW c \in Client PROVE Apart(c) /\ spoiled'[c] = spoiled[c]
    <3>1. conn'[c] = conn[c] \/ conn'[c] = "closed"
      BY <1>2 DEF Stop, Join, rpcvars
    <3>2. UNCHANGED <<serves, broken, up, down, job, pc, wbuf, made, call, raised, spoiled, times, ran>>
      BY <1>2 DEF Stop, Join, rpcvars, stream, client, history
    <3>3. QED
      BY <3>1, <3>2 DEF Apart, Reachable
  <2>2. ASSUME NEW c \in Client PROVE spoiled'[c] \/ ResultsOf(c)'
    <3>1. spoiled[c] \/ ResultsOf(c)
      BY DEF ResultsInv
    <3>2. QED
      BY <2>1, <3>1, Apartness
  <2>3. QED
    BY <2>2, Zenon DEF ResultsInv
<1>3. CASE Die
  <2>1. ASSUME NEW c \in Client PROVE spoiled'[c] \/ ResultsOf(c)'
    <3>1. spoiled[c] \/ ResultsOf(c)
      BY DEF ResultsInv
    <3>2. spoiled'[c] = spoiled[c]
      BY <1>3 DEF Die, client
    <3>3. QED
      BY <1>3, <3>1, <3>2, ResultsDie
  <2>2. QED
    BY <2>1, Zenon DEF ResultsInv
<1>4. QED
  BY <1>1, <1>2, <1>3 DEF Next, Acts

LEMMA ResultsInit == ASSUME Init PROVE Shaped /\ ResultsInv
<1>1. Shaped
  BY DEF Init, Shaped
<1>2. ASSUME NEW c \in Client PROVE ResultsOf(c)
  <2>1. /\ up[c] = << >> /\ down[c] = << >> /\ wbuf[c] = << >> /\ job[c] = NoJob
        /\ raised[c] = {} /\ call[c] = NoCall
    BY DEF Init
  <2>2. ToldRight(c)
    <3>1. NoCall.res = "none"
      BY DEF NoCall
    <3>2. QED
      BY <2>1, <3>1 DEF ToldRight
  <2>3. Fallow(c)
    BY <2>1, EmptyIs DEF Fallow, Unheard
  <2>4. QED
    BY <2>1, <2>2, <2>3, EmptyIs DEF ResultsOf
<1>3. QED
  BY <1>1, <1>2 DEF ResultsInv

\* A client that never half wrote an argument in the harmful way has at most
\* one call under way, which is asked for, runs, or has been answered; what it
\* will read is the whole answer to that call, and a call whose argument could
\* not be encoded never runs.
THEOREM ResultsHold == Spec => []ResultsInv
<1>1. Init => Shaped /\ ResultsInv
  BY ResultsInit
<1>2. RpcInv /\ Shaped /\ ResultsInv /\ [Next]_rpcvars => Shaped' /\ ResultsInv'
  BY ShapedStep, ResultsStep
<1>3. QED
  BY <1>1, <1>2, RpcCorrect, PTL DEF Spec

\* What a call tells its caller is true: a normal return means that the handler
\* ran on this call's argument and returned this value, an exception that it
\* threw it, or that no handler ran.
THEOREM ResultsAreTrue == Spec => []ResultsTrue
<1>1. ResultsInv => ResultsTrue
  BY DEF ResultsInv, ResultsTrue, ResultsOf
<1>2. QED
  BY <1>1, ResultsHold, PTL
=============================================================================
