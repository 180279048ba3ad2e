-------------------------- MODULE Http1CodecProofs --------------------------
(***************************************************************************)
(* Proofs about Http1Codec, for every header limit, all request lines,     *)
(* versions, names and values, and calls of any number of callbacks.       *)
(***************************************************************************)
EXTENDS Http1Codec, SequenceTheorems, FiniteSetTheorems, TLAPS

-----------------------------------------------------------------------------
(* The inductive invariant.                                                *)

\* The records have their fields, and the callbacks heard are a sequence.
Shape ==
    /\ DOMAIN lex = DOMAIN FreshParser
    /\ DOMAIN ctx = DOMAIN EmptyContext
    /\ heard \in Seq(Range(heard))

\* While llhttp has not failed, no limit has been exceeded.
WithinLimits ==
    lex.error = "HPE_OK" => parseError = "kSuccess" /\ total <= MaxHeaderSize

\* total_header_size_ is what this call has brought, and llhttp fails for it as
\* soon as it is too much.
SizeCounted ==
    /\ total = SizeHeard
    /\ heard # <<>> => (lex.error = "HPE_USER" <=> total > MaxHeaderSize)

\* What the last call returned, if llhttp had failed.
FailureReturned ==
    ~executing /\ heard # <<>> /\ lex.error # "HPE_OK" =>
        result \in {"kInvalidRequestLine", "kInternalError"}

\* A call starts with nothing left of an earlier one.
CleanStart ==
    executing /\ heard = <<>> =>
        field = <<>> /\ value = <<>> /\ ctx = EmptyContext

InHeader == lex.at \in {"field", "value"}

\* Between the callbacks of a plain call: llhttp and the codec are in the same
\* header, or in none; the value has begun if the last callback brought any.
HeaderInStep ==
    Plain /\ lex.error = "HPE_OK" =>
        /\ ~lex.trailing
        /\ lex.at = "body" => heard[Len(heard)].kind \in {"complete", "body"}
        /\ InHeader => Len(field) = 1 /\ lex.name = ToLower(field)
        /\ ~InHeader => field = <<>>
        /\ lex.at # "value" => value = <<>>
        /\ lex.at = "value" =>
              /\ heard[Len(heard)].kind = "value"
              /\ heard[Len(heard)].text # <<>> => value # <<>>

\* Each name heard is in the headers or the one in progress.
NamesSaved ==
    Plain /\ lex.error = "HPE_OK" =>
        {<<word>> : word \in Words} =
            DOMAIN ctx.headers \cup {name \in {ToLower(field)} : InHeader}

\* Too many names have been heard exactly if llhttp was told so.
NamesCounted == Plain => (lex.error = "HPE_CB_HEADERS_COMPLETE" <=> TooManyHeard)

\* A plain call in the middle of its first message.
InMessage ==
    Plain /\ lex.error = "HPE_OK" /\ Heard("begin") = {1} /\ Heard("done") = {}

\* The announced length: the codec has it and the body that llhttp still expects
\* is what is missing, or its header is the one in progress.
LengthTracked ==
    InMessage =>
        /\ IF Heard("complete") = {}
           THEN lex.at \in {"url", "line", "field", "value"} /\ ctx.body = 0
           ELSE lex.at = "body"
        /\ Heard("body") = {} => ctx.body = 0
        /\ ctx.contentLength # NoLength =>
              lex.due \in Nat /\ lex.due = ctx.contentLength - ctx.body
        /\ "content-length" \in Words =>
              ctx.contentLength # NoLength \/ (InHeader /\ lex.name = ContentLength)
        /\ lex.at = "value" /\ lex.name = ContentLength =>
              \E text \in DOMAIN Stoull : value = <<text>> /\ lex.due = Stoull[text]

\* A plain call whose first message is its last so far.
FirstMessage == Plain /\ lex.error = "HPE_OK" /\ Heard("begin") = {1}

\* The request line is told: its version once it has come.
LineTold ==
    FirstMessage =>
        /\ ctx.target = <<heard[1].text.target>>
        /\ lex.method = heard[1].text.method
        /\ lex.at = "url" => Heard("version") = {}
        /\ \A i \in Heard("version") : lex.version = heard[i].text

\* Each header is told, but the one in progress, whose value the codec collects.
HeadersTold ==
    LET read == Read(heard)
    IN  FirstMessage =>
            /\ DOMAIN read.said = Words
            /\ InHeader => /\ lex.name = <<read.word>> /\ read.word \in Words
                           /\ value = read.said[read.word]
            /\ \A word \in Words : ~(InHeader /\ word = read.word) =>
                  /\ ctx.headers[<<word>>] = read.said[word]
                  /\ word = "host" => ctx.host = read.said[word]
            /\ "host" \notin Words => ctx.host = <<>>

\* The body told is the last piece of it, and nothing follows the message.
BodyTold ==
    FirstMessage =>
        /\ Heard("done") # {} => lex.at = "start"
        /\ Heard("body") = {} => ctx.body = 0
        /\ Heard("body") # {} => \E i \in Heard("body") : ctx.body = heard[i].text

\* The inductive invariant.
IInv ==
    /\ TypeOK /\ Shape /\ WithinLimits /\ SizeCounted /\ FailureReturned
    /\ CleanStart /\ HeaderInStep /\ NamesSaved /\ NamesCounted /\ LengthTracked
    /\ CutBodyRefused

\* With it: the message as the context has it.
MessageTold == LineTold /\ HeadersTold /\ BodyTold

-----------------------------------------------------------------------------
(* What one more callback adds to the callbacks heard.                     *)

Hears(kind, text) == heard' = Append(heard, [kind |-> kind, text |-> text])

LEMMA OneMoreHeard ==
    ASSUME heard \in Seq(Range(heard)), NEW kind, NEW text, Hears(kind, text)
    PROVE  /\ heard' \in Seq(Range(heard')) /\ heard' # <<>>
           /\ Len(heard) \in Nat /\ DOMAIN heard = 1..Len(heard)
           /\ Len(heard') = Len(heard) + 1 /\ DOMAIN heard' = 1..Len(heard) + 1
           /\ \A i \in DOMAIN heard : heard'[i] = heard[i]
           /\ heard'[Len(heard) + 1].kind = kind
           /\ heard'[Len(heard) + 1].text = text
<1> DEFINE last == [kind |-> kind, text |-> text]
           All  == Range(heard) \cup {last}
<1>1. heard \in Seq(All) /\ last \in All
  BY SeqMonotonic
<1> HIDE DEF All, last
<1>2. heard' = Append(heard, last)
  BY DEF Hears, last
<1>3. /\ heard' \in Seq(All) /\ heard' # <<>> /\ Len(heard') = Len(heard) + 1
      /\ \A i \in 1..Len(heard) : heard'[i] = heard[i]
      /\ heard'[Len(heard) + 1] = last
  BY <1>1, <1>2, AppendProperties
<1>4. /\ Len(heard) \in Nat /\ DOMAIN heard = 1..Len(heard)
      /\ DOMAIN heard' = 1..Len(heard) + 1
  BY <1>1, <1>3, LenProperties
<1>5. heard' \in Seq(Range(heard'))
  <2>1. heard' = [i \in 1..Len(heard') |-> heard'[i]]
    BY <1>3
  <2>2. heard' \in [1..Len(heard') -> Range(heard')] /\ Len(heard') \in Nat
    BY <1>3, <1>4 DEF Range
  <2> QED BY <2>2
<1>6. last.kind = kind /\ last.text = text
  BY DEF last
<1> QED BY <1>3, <1>4, <1>5, <1>6

LEMMA OneMoreOfKind ==
    ASSUME heard \in Seq(Range(heard)), NEW kind, NEW text, Hears(kind, text), NEW k
    PROVE  Heard(k)' = Heard(k) \cup {i \in {Len(heard) + 1} : k = kind}
BY OneMoreHeard DEF Heard

LEMMA OneMoreWord ==
    ASSUME heard \in Seq(Range(heard)), NEW kind, NEW text, Hears(kind, text)
    PROVE  /\ kind = "field" => Words' = Words \cup {text.word}
           /\ kind # "field" => Words' = Words
<1>1. /\ \A i \in Heard("field") : heard'[i] = heard[i] /\ i # Len(heard) + 1
      /\ heard'[Len(heard) + 1].text = text
  BY OneMoreHeard DEF Heard
<1>2. Heard("field")' = Heard("field") \cup {i \in {Len(heard) + 1} : "field" = kind}
  BY OneMoreOfKind
<1>3. Words = {heard[i].text.word : i \in Heard("field")}
  BY DEF Words
<1>4. Words' = {heard'[i].text.word : i \in Heard("field")'}
  BY DEF Words
<1> QED BY <1>1, <1>2, <1>3, <1>4

\* The call was plain before, unless it begins with this callback.
LEMMA PlainBefore ==
    ASSUME heard \in Seq(Range(heard)), NEW kind, NEW text, Hears(kind, text), Plain'
    PROVE  \/ heard = <<>> /\ kind = "begin"
           \/ /\ heard # <<>> /\ Plain
              /\ kind = "field" =>
                    \/ heard[Len(heard)].kind = "version"
                    \/ /\ heard[Len(heard)].kind = "value"
                       /\ heard[Len(heard)].text # <<>>
<1> DEFINE L == Len(heard)
           Follows(i) == \/ heard[i - 1].kind = "version"
                         \/ heard[i - 1].kind = "value" /\ heard[i - 1].text # <<>>
           FollowsNext(i) ==
                \/ heard'[i - 1].kind = "version"
                \/ heard'[i - 1].kind = "value" /\ heard'[i - 1].text # <<>>
<1>1. /\ L \in Nat /\ DOMAIN heard = 1..L /\ Len(heard') = L + 1
      /\ \A i \in 1..L : heard'[i] = heard[i]
      /\ heard'[L + 1].kind = kind /\ heard'[L + 1].text = text
      /\ heard = <<>> <=> L = 0
  BY OneMoreHeard, EmptySeq
<1>2. \A i \in Heard("field") : i \in Heard("field")' /\ i \in 1..L
  BY <1>1, OneMoreOfKind DEF Heard
<1>3. heard'[1].kind = "begin" /\ \A i \in Heard("field")' : FollowsNext(i)
  BY DEF Plain
<1>4. CASE heard = <<>>
  BY <1>1, <1>3, <1>4
<1>5. CASE heard # <<>>
  <2>1. heard[1].kind = "begin"
    BY <1>1, <1>3, <1>5
  <2>2. ASSUME NEW i \in Heard("field") PROVE Follows(i)
    <3>1. heard[i].kind = "field"
      BY DEF Heard
    <3>2. i # 1 /\ i \in 1..L
      BY <1>2, <2>1, <3>1
    <3>3. i - 1 \in 1..L
      BY <1>1, <3>2
    <3>4. heard'[i - 1] = heard[i - 1]
      BY <1>1, <3>3
    <3>5. FollowsNext(i)
      BY <1>2, <1>3
    <3> QED BY <3>4, <3>5
  <2>3. ASSUME kind = "field"
        PROVE  \/ heard[L].kind = "version"
               \/ heard[L].kind = "value" /\ heard[L].text # <<>>
    <3>1. L + 1 \in Heard("field")'
      BY <2>3, OneMoreOfKind
    <3>2. FollowsNext(L + 1)
      BY <1>3, <3>1
    <3>3. heard'[(L + 1) - 1] = heard[L]
      <4>1. (L + 1) - 1 = L /\ L \in 1..L
        BY <1>1, <1>5
      <4> QED BY <1>1, <4>1
    <3> QED BY <3>2, <3>3
  <2>4. Plain
    BY <1>5, <2>1, <2>2 DEF Plain
  <2> QED BY <1>5, <2>3, <2>4
<1> QED BY <1>4, <1>5

\* Callbacks other than on_headers_complete do not close a list of headers.
LEMMA OneMoreCounted ==
    ASSUME heard \in Seq(Range(heard)), NEW kind, NEW text, Hears(kind, text)
    PROVE  /\ kind # "complete" => (TooManyHeard' <=> TooManyHeard)
           /\ kind = "complete" =>
                (TooManyHeard' <=> TooManyHeard \/ Cardinality(Words) > MaxHeaders)
<1> DEFINE L == Len(heard)
           Upto(i) == {heard[k].text.word : k \in Heard("field") \cap 1..i}
           UptoNext(i) == {heard'[k].text.word : k \in Heard("field")' \cap 1..i}
<1>1. /\ L \in Nat /\ DOMAIN heard = 1..L
      /\ \A i \in 1..L : heard'[i] = heard[i]
  BY OneMoreHeard
<1>2. \A k : Heard(k)' = Heard(k) \cup {i \in {L + 1} : k = kind}
  BY OneMoreOfKind
<1>3. \A k : Heard(k) \subseteq 1..L
  BY <1>1 DEF Heard
<1>4. ASSUME NEW i \in 1..L PROVE UptoNext(i) = Upto(i)
  <2>1. Heard("field")' \cap 1..i = Heard("field") \cap 1..i
    BY <1>1, <1>2
  <2>2. \A k \in Heard("field") \cap 1..i : heard'[k] = heard[k]
    BY <1>1, <1>3
  <2> QED BY <2>1, <2>2
<1>5. kind = "complete" => UptoNext(L + 1) = Words
  <2> SUFFICES ASSUME kind = "complete" PROVE UptoNext(L + 1) = Words
    OBVIOUS
  <2>1. Heard("field")' \cap 1..(L + 1) = Heard("field")
    BY <1>1, <1>2, <1>3
  <2>2. \A k \in Heard("field") : heard'[k] = heard[k]
    BY <1>1, <1>3
  <2> QED BY <2>1, <2>2 DEF Words
<1>6. TooManyHeard <=> \E i \in Heard("complete") : Cardinality(Upto(i)) > MaxHeaders
  BY DEF TooManyHeard, WordsUpTo
<1>7. TooManyHeard' <=>
         \E i \in Heard("complete")' : Cardinality(UptoNext(i)) > MaxHeaders
  BY DEF TooManyHeard, WordsUpTo
<1> HIDE DEF Upto, UptoNext
<1> QED BY <1>2, <1>3, <1>4, <1>5, <1>6, <1>7

\* The size of what was heard grows by what the callback brings.
LEMMA OneMoreSized ==
    ASSUME heard \in Seq(Range(heard)), NEW kind, NEW text, Hears(kind, text)
    PROVE  /\ SizeHeard \in Nat
           /\ SizeHeard' = IF kind = "field" \/ (kind = "value" /\ text # <<>>)
                           THEN SizeHeard + 1 ELSE SizeHeard
<1> DEFINE L == Len(heard)
           Full == {i \in Heard("value") : heard[i].text # <<>>}
           FullNext == {i \in Heard("value")' : heard'[i].text # <<>>}
<1>1. /\ L \in Nat /\ DOMAIN heard = 1..L
      /\ \A i \in 1..L : heard'[i] = heard[i]
      /\ heard'[L + 1].text = text
  BY OneMoreHeard
<1>2. \A k : Heard(k)' = Heard(k) \cup {i \in {L + 1} : k = kind}
  BY OneMoreOfKind
<1>3. \A k : Heard(k) \in SUBSET (1..L) /\ L + 1 \notin Heard(k)
  BY <1>1 DEF Heard
<1>4. IsFiniteSet(1..L)
  BY <1>1, FS_Interval
<1>5. IsFiniteSet(Heard("field")) /\ Cardinality(Heard("field")) \in Nat
  BY <1>3, <1>4, FS_Subset, FS_CardinalityType
<1>6. IsFiniteSet(Full) /\ Cardinality(Full) \in Nat /\ L + 1 \notin Full
  <2>1. Full \in SUBSET (1..L) /\ L + 1 \notin Full
    BY <1>3
  <2> HIDE DEF Full
  <2> QED BY <1>4, <2>1, FS_Subset, FS_CardinalityType
<1>7. FullNext = Full \cup {i \in {L + 1} : kind = "value" /\ text # <<>>}
  BY <1>1, <1>2, <1>3
<1>8. SizeHeard = Cardinality(Heard("field")) + Cardinality(Full)
      /\ SizeHeard' = Cardinality(Heard("field")') + Cardinality(FullNext)
  BY DEF SizeHeard
<1> HIDE DEF L, Full, FullNext
<1>9. Cardinality(FullNext) = IF kind = "value" /\ text # <<>>
                              THEN Cardinality(Full) + 1 ELSE Cardinality(Full)
  <2>1. CASE kind = "value" /\ text # <<>>
    <3>1. FullNext = Full \cup {L + 1}
      BY <1>7, <2>1
    <3> QED BY <1>6, <2>1, <3>1, FS_AddElement
  <2>2. CASE ~(kind = "value" /\ text # <<>>)
    <3>1. FullNext = Full
      BY <1>7, <2>2
    <3> QED BY <2>2, <3>1
  <2> QED BY <2>1, <2>2
<1>10. Cardinality(Heard("field")') = IF kind = "field"
          THEN Cardinality(Heard("field")) + 1 ELSE Cardinality(Heard("field"))
  <2>1. CASE kind = "field"
    <3>1. Heard("field")' = Heard("field") \cup {L + 1}
      BY <1>2, <2>1
    <3> QED BY <1>3, <1>5, <2>1, <3>1, FS_AddElement
  <2>2. CASE kind # "field"
    <3>1. Heard("field")' = Heard("field")
      BY <1>2, <2>2
    <3> QED BY <2>2, <3>1
  <2> QED BY <2>1, <2>2
<1>11. ~(kind = "field" /\ kind = "value")
  OBVIOUS
<1> QED BY <1>5, <1>6, <1>8, <1>9, <1>10, <1>11

-----------------------------------------------------------------------------
(* What the callbacks have in common.                                      *)

Pieces == Values \cup DOMAIN Stoull \cup {"chunked"}

\* What llhttp lets pass as a value is a piece or nothing.
LEMMA LexValuesMeaning ==
    ASSUME NEW text \in LexValues
    PROVE  /\ text \in Seq(Pieces)
           /\ Len(text) = IF text = <<>> THEN 0 ELSE 1
           /\ lex.name = ContentLength =>
                 lex.due = NoLength /\ \E length \in DOMAIN Stoull : text = <<length>>
           /\ lex.name = TransferEncoding => lex.due = NoLength
<1>1. CASE text = <<>>
  <2>1. lex.name # ContentLength /\ lex.name # TransferEncoding
    BY <1>1 DEF LexValues, ContentLength, TransferEncoding
  <2> QED BY <1>1, <2>1, EmptySeq
<1>2. CASE text # <<>>
  <2>1. \E piece \in Pieces : text = <<piece>>
    BY <1>2 DEF LexValues, Pieces
  <2>2. lex.name = ContentLength =>
           lex.due = NoLength /\ \E length \in DOMAIN Stoull : text = <<length>>
    BY DEF LexValues, ContentLength, TransferEncoding
  <2>3. lex.name = TransferEncoding => lex.due = NoLength
    BY DEF LexValues, ContentLength, TransferEncoding
  <2> QED BY <1>2, <2>1, <2>2, <2>3
<1> QED BY <1>1, <1>2

\* What save_current_header changes in the context.
LEMMA SavedMeaning ==
    ASSUME Shape
    PROVE  /\ DOMAIN Saved = DOMAIN ctx /\ Saved.body = ctx.body
           /\ DOMAIN Saved.headers = DOMAIN ctx.headers \cup {ToLower(field)}
           /\ Saved.contentLength =
                 IF ToLower(field) = ContentLength /\ Len(value) = 1
                       /\ value[1] \in DOMAIN Stoull
                 THEN Stoull[value[1]] ELSE ctx.contentLength
BY DEF Shape, EmptyContext, Saved

\* Before its first callback, a call has nothing yet.
LEMMA CleanCall ==
    ASSUME IInv, executing, heard = <<>>
    PROVE  /\ field = <<>> /\ value = <<>> /\ DOMAIN ctx.headers = {}
           /\ ctx.contentLength = NoLength /\ ctx.body = 0
           /\ \A k : Heard(k) = {}
           /\ Words = {} /\ ~TooManyHeard
<1>1. field = <<>> /\ value = <<>> /\ ctx = EmptyContext
  BY DEF IInv, CleanStart
<1>2. /\ EmptyContext.headers = <<>> /\ EmptyContext.body = 0
      /\ EmptyContext.contentLength = NoLength
  BY DEF EmptyContext
<1>3. \A k : Heard(k) = {}
  BY DEF Heard
<1>4. Words = {} /\ ~TooManyHeard
  BY <1>3 DEF Words, TooManyHeard
<1>5. DOMAIN <<>> = {}
  OBVIOUS
<1> QED BY <1>1, <1>2, <1>3, <1>4, <1>5

\* Count makes llhttp fail exactly when this call has brought too much.
LEMMA Counting ==
    ASSUME IInv, NEW kind \in {"field", "value"}, NEW text, NEW positions,
           Callback(kind, text, positions),
           NEW length, length = IF kind = "field" \/ text # <<>> THEN 1 ELSE 0,
           NEW parser, DOMAIN parser = DOMAIN lex, parser.error = "HPE_OK",
           Count(length, parser)
    PROVE  /\ total' \in 0..(MaxHeaderSize + 1)
           /\ parseError' \in {"kSuccess", "kHeaderTooLarge"}
           /\ DOMAIN lex' = DOMAIN lex
           /\ lex'.at = parser.at /\ lex'.due = parser.due /\ lex'.name = parser.name
           /\ lex'.trailing = parser.trailing
           /\ lex'.error \in {"HPE_OK", "HPE_USER"}
           /\ WithinLimits' /\ SizeCounted' /\ FailureReturned' /\ CleanStart'
           /\ NamesCounted' /\ CutBodyRefused'
<1>1. /\ lex.error = "HPE_OK" /\ parseError = "kSuccess" /\ total <= MaxHeaderSize
      /\ total \in 0..MaxHeaderSize + 1 /\ MaxHeaderSize \in Nat
      /\ executing = TRUE /\ executing' = TRUE
      /\ Hears(kind, text) /\ heard \in Seq(Range(heard))
  BY ConfigAssumption DEF Callback, Hears, IInv, WithinLimits, TypeOK, Shape
<1>2. length \in 0..1 /\ total' = total + length
  BY DEF Count
<1>3. /\ DOMAIN lex' = DOMAIN lex
      /\ lex'.at = parser.at /\ lex'.due = parser.due /\ lex'.name = parser.name
      /\ lex'.trailing = parser.trailing
      /\ lex'.error = IF total' > MaxHeaderSize THEN "HPE_USER" ELSE "HPE_OK"
      /\ parseError' = IF total' > MaxHeaderSize THEN "kHeaderTooLarge" ELSE "kSuccess"
  <2>1. DOMAIN parser = {"at", "name", "version", "method", "due", "trailing", "error"}
    BY DEF IInv, Shape, FreshParser
  <2> QED BY <1>1, <2>1 DEF Count
<1>4. SizeHeard' = SizeHeard + length /\ heard' # <<>>
  <2>1. /\ SizeHeard \in Nat
        /\ SizeHeard' = IF kind = "field" \/ (kind = "value" /\ text # <<>>)
                        THEN SizeHeard + 1 ELSE SizeHeard
    BY <1>1, OneMoreSized
  <2>2. heard' # <<>>
    BY <1>1, OneMoreHeard
  <2> QED BY <2>1, <2>2
<1>5. WithinLimits' /\ SizeCounted'
  BY <1>1, <1>2, <1>3, <1>4 DEF IInv, WithinLimits, SizeCounted
<1>6. FailureReturned' /\ CleanStart' /\ CutBodyRefused'
  BY <1>1, <1>4 DEF FailureReturned, CleanStart, CutBodyRefused
<1>7. NamesCounted'
  <2> SUFFICES ASSUME Plain' PROVE ~TooManyHeard'
    BY <1>3 DEF NamesCounted
  <2>1. heard = <<>> \/ Plain
    BY <1>1, PlainBefore
  <2>2. ~TooManyHeard
    <3>1. Plain => ~TooManyHeard
      BY <1>1 DEF IInv, NamesCounted
    <3> QED BY <1>1, <2>1, <3>1, CleanCall
  <2> QED BY <1>1, <2>2, OneMoreCounted
<1> QED BY <1>1, <1>2, <1>3, <1>5, <1>6, <1>7

\* Callbacks outside the headers leave the headers alone.
LEMMA OutsideHeaders ==
    ASSUME IInv, NEW kind \in {"begin", "url", "version", "body", "done"},
           NEW text, NEW positions, Callback(kind, text, positions),
           lex.trailing \/ ~InHeader, ~InHeader', lex'.error = "HPE_OK",
           ~lex'.trailing \/ (kind # "begin" /\ lex'.trailing = lex.trailing),
           lex'.at = "body" => kind = "body",
           UNCHANGED header, ctx'.headers = ctx.headers
    PROVE  /\ WithinLimits' /\ SizeCounted' /\ FailureReturned' /\ CleanStart'
           /\ HeaderInStep' /\ NamesSaved' /\ NamesCounted' /\ CutBodyRefused'
           /\ heard' \in Seq(Range(heard')) /\ Words' = Words
<1>1. /\ lex.error = "HPE_OK" /\ parseError = "kSuccess" /\ total <= MaxHeaderSize
      /\ executing = TRUE /\ executing' = TRUE
      /\ Hears(kind, text) /\ heard \in Seq(Range(heard))
  BY DEF Callback, Hears, IInv, WithinLimits, TypeOK, Shape
<1>2. /\ field' = field /\ value' = value /\ total' = total
      /\ parseError' = parseError
  BY DEF header
<1>3. heard' # <<>> /\ heard' \in Seq(Range(heard')) /\ SizeHeard' = SizeHeard
      /\ Words' = Words /\ (TooManyHeard' <=> TooManyHeard)
  BY <1>1, OneMoreHeard, OneMoreSized, OneMoreWord, OneMoreCounted
<1>4. WithinLimits' /\ SizeCounted'
  <2>1. ~(total > MaxHeaderSize)
    BY <1>1, ConfigAssumption DEF IInv, TypeOK
  <2> QED BY <1>1, <1>2, <1>3, <2>1 DEF IInv, WithinLimits, SizeCounted
<1>5. FailureReturned' /\ CleanStart' /\ CutBodyRefused'
  BY <1>1, <1>3 DEF FailureReturned, CleanStart, CutBodyRefused
<1>6. ASSUME Plain'
      PROVE  /\ field = <<>> /\ value = <<>> /\ ~TooManyHeard
             /\ {<<word>> : word \in Words} = DOMAIN ctx.headers
             /\ ~lex'.trailing
  <2>1. CASE heard = <<>> /\ kind = "begin"
    <3>1. {<<word>> : word \in Words} = {}
      BY <1>1, <2>1, CleanCall
    <3> QED BY <1>1, <2>1, <3>1, CleanCall
  <2>2. CASE Plain
    <3>1. ~lex.trailing
      BY <1>1, <2>2 DEF IInv, HeaderInStep
    <3>2. ~InHeader /\ lex.at # "value"
      BY <3>1 DEF InHeader
    <3> QED BY <1>1, <2>2, <3>1, <3>2 DEF IInv, HeaderInStep, NamesSaved, NamesCounted
  <2> QED BY <1>1, <1>6, <2>1, <2>2, PlainBefore
<1>7. HeaderInStep'
  <2>1. lex'.at # "value"
    BY DEF InHeader
  <2>2. heard'[Len(heard')].kind = kind
    BY <1>1, OneMoreHeard
  <2> QED BY <1>2, <1>6, <2>1, <2>2 DEF HeaderInStep
<1>8. NamesSaved' /\ NamesCounted'
  BY <1>2, <1>3, <1>6 DEF NamesSaved, NamesCounted
<1> QED BY <1>3, <1>4, <1>5, <1>7, <1>8

-----------------------------------------------------------------------------
(* The actions around the callbacks.                                       *)

\* A call of which nothing has been heard.
LEMMA NothingHeard ==
    ASSUME heard' = <<>>
    PROVE  /\ heard' \in Seq(Range(heard')) /\ SizeHeard' = 0 /\ ~Plain'
           /\ NamesCounted' /\ HeaderInStep' /\ NamesSaved' /\ LengthTracked'
           /\ FailureReturned'
<1>1. \A k : Heard(k)' = {}
  BY DEF Heard
<1>2. heard' \in Seq(Range(heard'))
  BY EmptySeq
<1>3. SizeHeard' = 0
  <2>1. {i \in Heard("value")' : heard'[i].text # <<>>} = {} /\ Heard("field")' = {}
    BY <1>1
  <2>2. SizeHeard' = Cardinality({}) + Cardinality({})
    BY <2>1, Zenon DEF SizeHeard
  <2> QED BY <2>2, FS_EmptySet
<1>4. ~Plain'
  BY DEF Plain
<1> QED BY <1>2, <1>3, <1>4
        DEF NamesCounted, HeaderInStep, NamesSaved, LengthTracked, InMessage, FailureReturned

\* parse() takes nothing from the last call but what llhttp remembers.
LEMMA ParseIInv == IInv /\ Parse => IInv'
<1> SUFFICES ASSUME IInv, Parse PROVE IInv'
  OBVIOUS
<1>1. /\ lex' = lex /\ executing' = TRUE /\ ctx' = EmptyContext
      /\ field' = <<>> /\ value' = <<>> /\ total' = 0 /\ parseError' = "kSuccess"
      /\ result' = "none" /\ heard' = <<>>
  BY DEF Parse, ClearHeader
<1>2. TypeOK'
  <2>1. EmptyContext.contentLength = NoLength /\ EmptyContext.body = 0
    BY DEF EmptyContext
  <2>2. 0 \in 0..MaxChunk /\ 0 \in 0..(MaxHeaderSize + 1)
    BY ConfigAssumption, LengthsAssumption
  <2> QED BY <1>1, <2>1, <2>2, EmptySeq DEF IInv, TypeOK
<1>3. Shape'
  BY <1>1, NothingHeard DEF IInv, Shape
<1>4. WithinLimits' /\ SizeCounted'
  BY <1>1, NothingHeard, ConfigAssumption DEF WithinLimits, SizeCounted
<1>5. CleanStart' /\ CutBodyRefused'
  BY <1>1 DEF CleanStart, CutBodyRefused
<1> QED BY <1>1, <1>2, <1>3, <1>4, <1>5, NothingHeard DEF IInv

\* reset() leaves nothing but the caller's context.
LEMMA ResetIInv == IInv /\ Reset => IInv'
<1> SUFFICES ASSUME IInv, Reset PROVE IInv'
  OBVIOUS
<1>1. /\ lex' = FreshParser /\ executing' = executing /\ executing = FALSE /\ ctx' = ctx
      /\ field' = <<>> /\ value' = <<>> /\ total' = 0 /\ parseError' = "kSuccess"
      /\ result' = "none" /\ heard' = <<>>
  BY DEF Reset, ClearHeader, IInv, TypeOK
<1>2. TypeOK'
  <2>1. FreshParser.at = "start" /\ FreshParser.error = "HPE_OK"
        /\ FreshParser.due = NoLength /\ FreshParser.trailing = FALSE
    BY DEF FreshParser
  <2>2. 0 \in 0..(MaxHeaderSize + 1)
    BY ConfigAssumption
  <2> QED BY <1>1, <2>1, <2>2, EmptySeq DEF IInv, TypeOK, Errors
<1>3. Shape'
  BY <1>1, NothingHeard DEF IInv, Shape
<1>4. WithinLimits' /\ SizeCounted'
  BY <1>1, NothingHeard, ConfigAssumption DEF WithinLimits, SizeCounted
<1>5. CleanStart' /\ CutBodyRefused'
  BY <1>1 DEF CleanStart, CutBodyRefused
<1> QED BY <1>1, <1>2, <1>3, <1>4, <1>5, NothingHeard DEF IInv

\* parse() accepts only what llhttp has read without failing; it does not return
\* in a body of which nothing is missing, and accepts none of which something is.
LEMMA ReturnIInv == IInv /\ Return => IInv'
<1> SUFFICES ASSUME IInv, Return PROVE IInv'
  OBVIOUS
<1>1. /\ executing = TRUE /\ executing' = FALSE /\ result' = Outcome
      /\ lex' = lex /\ field' = field /\ value' = value /\ total' = total
      /\ parseError' = parseError /\ heard' = heard
      /\ lex.error = "HPE_OK" => ~(lex.at = "body" /\ lex.due \in {NoLength, 0})
  BY DEF Return, header, IInv, TypeOK
<1>2. /\ DOMAIN ctx' = DOMAIN ctx /\ ctx'.headers = ctx.headers
      /\ ctx'.contentLength = ctx.contentLength /\ ctx'.body = ctx.body
  BY DEF Return, IInv, Shape, EmptyContext
<1>3. /\ lex.error # "HPE_OK" => Outcome \in {"kInvalidRequestLine", "kInternalError"}
      /\ Outcome \in {"kSuccess", "kInvalidRequestLine", "kInternalError",
                      "kMissingHost", "kContentLengthMismatch"}
      /\ Outcome = "kSuccess" => lex.error = "HPE_OK" /\ LengthAgrees
  BY DEF Outcome, IInv, WithinLimits
<1>4. TypeOK' /\ Shape'
  BY <1>1, <1>2, <1>3 DEF IInv, TypeOK, Shape, Results
<1>5. /\ WithinLimits' /\ SizeCounted' /\ FailureReturned' /\ CleanStart'
      /\ HeaderInStep' /\ NamesSaved' /\ NamesCounted' /\ LengthTracked'
  <2>1. /\ SizeHeard' = SizeHeard /\ (Plain' <=> Plain) /\ Words' = Words
        /\ (TooManyHeard' <=> TooManyHeard) /\ (InHeader' <=> InHeader)
        /\ \A k : Heard(k)' = Heard(k)
    BY <1>1 DEF SizeHeard, Plain, Words, WordsUpTo, TooManyHeard, InHeader, Heard
  <2>2. WithinLimits' /\ SizeCounted' /\ FailureReturned' /\ CleanStart'
    BY <1>1, <1>3, <2>1
       DEF IInv, WithinLimits, SizeCounted, FailureReturned, CleanStart
  <2>3. HeaderInStep' /\ NamesSaved' /\ NamesCounted'
    BY <1>1, <1>2, <2>1 DEF IInv, HeaderInStep, NamesSaved, NamesCounted
  <2>4. LengthTracked'
    BY <1>1, <1>2, <2>1 DEF IInv, LengthTracked, InMessage
  <2> QED BY <2>2, <2>3, <2>4
<1>6. CutBodyRefused'
  <2> SUFFICES ASSUME Outcome = "kSuccess", Plain, Cardinality(Heard("begin")) = 1,
                      NEW k \in Heard("complete"), "content-length" \in WordsUpTo(k),
                      Heard("done") = {}
               PROVE  FALSE
    BY <1>1 DEF CutBodyRefused, Plain, Heard, WordsUpTo
  <2>0. Heard("complete") # {} /\ "content-length" \in Words
    BY DEF WordsUpTo, Words
  <2>1. Heard("begin") = {1}
    <3>1. 1 \in Heard("begin")
      <4>1. 1 \in DOMAIN heard
        BY EmptySeq, LenProperties DEF Plain, IInv, Shape
      <4> QED BY <4>1 DEF Plain, Heard
    <3>2. IsFiniteSet(Heard("begin"))
      <4>1. DOMAIN heard = 1..Len(heard) /\ Len(heard) \in Nat
        BY LenProperties DEF IInv, Shape
      <4>2. IsFiniteSet(DOMAIN heard) /\ Heard("begin") \in SUBSET DOMAIN heard
        BY <4>1, FS_Interval DEF Heard
      <4> QED BY <4>2, FS_Subset
    <3>3. \E i : Heard("begin") = {i}
      BY <3>2, FS_Singleton
    <3> QED BY <3>1, <3>3
  <2>2. InMessage
    BY <1>3, <2>1 DEF InMessage
  <2>3. lex.at = "body" /\ ~InHeader
    BY <2>0, <2>2 DEF IInv, LengthTracked, InHeader
  <2>4. ctx.contentLength # NoLength /\ lex.due = ctx.contentLength - ctx.body
    BY <2>0, <2>2, <2>3 DEF IInv, LengthTracked
  <2>5. ctx.body = ctx.contentLength /\ ctx.body \in Int
    BY <1>3, <2>4, LengthsAssumption DEF LengthAgrees, IInv, TypeOK
  <2>6. lex.due = 0
    BY <2>4, <2>5
  <2> QED BY <1>1, <1>3, <2>3, <2>6
<1> QED BY <1>4, <1>5, <1>6 DEF IInv

\* An error that llhttp finds by itself does not count as one of a limit.
LEMMA LexErrorIInv ==
    ASSUME IInv, NEW error \in {"HPE_INVALID_URL", "HPE_OTHER"}, LexError(error)
    PROVE  IInv'
<1>1. /\ lex.error = "HPE_OK" /\ executing = TRUE /\ executing' = executing
      /\ ctx' = ctx /\ field' = field /\ value' = value /\ total' = total
      /\ parseError' = parseError /\ heard' = heard /\ result' = result
  BY DEF LexError, header, IInv, TypeOK
<1>2. /\ DOMAIN lex' = DOMAIN lex /\ lex'.error = error
      /\ lex'.at = lex.at /\ lex'.due = lex.due /\ lex'.trailing = lex.trailing
  BY DEF LexError, IInv, Shape, FreshParser
<1>3. TypeOK' /\ Shape'
  BY <1>1, <1>2 DEF IInv, TypeOK, Shape, Errors
<1>4. /\ SizeHeard' = SizeHeard /\ (Plain' <=> Plain) /\ (TooManyHeard' <=> TooManyHeard)
  BY <1>1 DEF SizeHeard, Plain, WordsUpTo, TooManyHeard, Heard
<1>5. WithinLimits' /\ SizeCounted' /\ FailureReturned' /\ CleanStart' /\ CutBodyRefused'
  BY <1>1, <1>2, <1>4
     DEF IInv, WithinLimits, SizeCounted, FailureReturned, CleanStart, CutBodyRefused
<1>6. HeaderInStep' /\ NamesSaved' /\ NamesCounted' /\ LengthTracked'
  BY <1>1, <1>2, <1>4
     DEF IInv, HeaderInStep, NamesSaved, NamesCounted, LengthTracked, InMessage
<1> QED BY <1>3, <1>5, <1>6 DEF IInv

-----------------------------------------------------------------------------
(* The callbacks.                                                          *)

\* A callback, as the lemmas about one more callback know it.
LEMMA CallbackHears ==
    ASSUME IInv, NEW kind, NEW text, NEW positions, Callback(kind, text, positions)
    PROVE  /\ Hears(kind, text) /\ heard \in Seq(Range(heard))
           /\ lex.at \in positions /\ lex.error = "HPE_OK" /\ parseError = "kSuccess"
           /\ executing = TRUE /\ executing' = TRUE /\ result' = result
BY DEF Callback, Hears, IInv, Shape, TypeOK, WithinLimits

\* A callback adds itself to those of its kind, and is not the first if any came
\* before.
LEMMA CallbackKinds ==
    ASSUME IInv, NEW kind, NEW text, NEW positions, Callback(kind, text, positions)
    PROVE  /\ Len(heard) + 1 \in Heard(kind)'
           /\ heard # <<>> => Len(heard) + 1 # 1
           /\ \A k : k # kind => Heard(k)' = Heard(k)
           /\ \A k : Heard(k) \subseteq Heard(k)'
<1>1. Hears(kind, text) /\ heard \in Seq(Range(heard))
  BY CallbackHears
<1>2. \A k : Heard(k)' = Heard(k) \cup {i \in {Len(heard) + 1} : k = kind}
  BY <1>1, OneMoreOfKind
<1>3. heard # <<>> => Len(heard) + 1 # 1
  BY <1>1, EmptySeq, LenProperties
<1> QED BY <1>2, <1>3

\* A call in the middle of a message was so before, unless it begins with this
\* callback; then nothing else has been heard.
LEMMA InMessageBefore ==
    ASSUME IInv, NEW kind, NEW text, NEW positions, Callback(kind, text, positions),
           InMessage'
    PROVE  /\ kind # "done"
           /\ kind = "begin" => heard = <<>>
           /\ kind # "begin" => InMessage
           /\ \A k : k # kind => Heard(k)' = Heard(k)
<1>0. Hears(kind, text) /\ heard \in Seq(Range(heard)) /\ lex.error = "HPE_OK"
  BY CallbackHears
<1>1. (heard = <<>> /\ kind = "begin") \/ (heard # <<>> /\ Plain)
  BY <1>0, PlainBefore DEF InMessage
<1>2. Heard("begin")' = {1} /\ Heard("done")' = {} /\ lex.error = "HPE_OK"
  BY <1>0 DEF InMessage
<1>3. kind # "done"
  BY <1>2, CallbackKinds
<1>4. kind = "begin" => heard = <<>>
  BY <1>1, <1>2, CallbackKinds
<1>5. \A k : k # kind => Heard(k)' = Heard(k)
  BY CallbackKinds
<1>6. kind # "begin" => InMessage
  BY <1>1, <1>2, <1>3, <1>5 DEF InMessage
<1> QED BY <1>3, <1>4, <1>5, <1>6

LEMMA OnMessageBeginIInv ==
    ASSUME IInv, NEW line \in RequestLines, OnMessageBegin(line)
    PROVE  IInv'
<1>1. /\ Callback("begin", line, {"start"}) /\ UNCHANGED header
      /\ lex' = [lex EXCEPT !.at = "url", !.method = line.method, !.due = NoLength,
                            !.trailing = FALSE]
      /\ ctx' = [ctx EXCEPT !.target = Append(@, line.target)]
  BY DEF OnMessageBegin
<1>2. /\ DOMAIN lex' = DOMAIN lex /\ lex'.at = "url" /\ lex'.due = NoLength
      /\ lex'.error = lex.error /\ lex'.trailing = FALSE
  BY <1>1 DEF IInv, Shape, FreshParser
<1>3. /\ DOMAIN ctx' = DOMAIN ctx /\ ctx'.headers = ctx.headers
      /\ ctx'.contentLength = ctx.contentLength /\ ctx'.body = ctx.body
  BY <1>1 DEF IInv, Shape, EmptyContext
<1>4. lex.at = "start" /\ lex.error = "HPE_OK" /\ executing' = TRUE /\ result' = result
  BY <1>1 DEF Callback, IInv, TypeOK
<1>5. /\ WithinLimits' /\ SizeCounted' /\ FailureReturned' /\ CleanStart'
      /\ HeaderInStep' /\ NamesSaved' /\ NamesCounted' /\ CutBodyRefused'
      /\ heard' \in Seq(Range(heard')) /\ Words' = Words
  BY <1>1, <1>2, <1>3, <1>4, OutsideHeaders DEF InHeader
<1>6. TypeOK' /\ Shape'
  BY <1>1, <1>2, <1>3, <1>4, <1>5 DEF header, IInv, TypeOK, Shape
<1>7. LengthTracked'
  <2> SUFFICES ASSUME InMessage' PROVE LengthTracked'
    BY DEF LengthTracked
  <2>1. heard = <<>> /\ executing = TRUE
    BY <1>1, InMessageBefore, CallbackHears
  <2>2. Words' = {} /\ Heard("complete")' = {}
    BY <1>1, <1>5, <2>1, CleanCall, InMessageBefore
  <2>3. ctx'.body = 0 /\ ctx'.contentLength = NoLength
    BY <1>3, <2>1, CleanCall
  <2> QED BY <1>2, <2>2, <2>3 DEF LengthTracked
<1> QED BY <1>5, <1>6, <1>7 DEF IInv

LEMMA OnUrlIInv ==
    ASSUME IInv, NEW line \in RequestLines, OnUrl(line)
    PROVE  IInv'
<1>1. /\ Callback("url", line, Resumed("url")) /\ UNCHANGED header /\ lex' = lex
      /\ ctx' = [ctx EXCEPT !.target = Append(@, line.target)]
  BY DEF OnUrl
<1>2. /\ DOMAIN ctx' = DOMAIN ctx /\ ctx'.headers = ctx.headers
      /\ ctx'.contentLength = ctx.contentLength /\ ctx'.body = ctx.body
  BY <1>1 DEF IInv, Shape, EmptyContext
<1>3. /\ lex.at = "url" /\ heard = <<>> /\ lex.error = "HPE_OK"
      /\ executing' = TRUE /\ result' = result
  BY <1>1 DEF Callback, Resumed, IInv, TypeOK
<1>4. /\ WithinLimits' /\ SizeCounted' /\ FailureReturned' /\ CleanStart'
      /\ HeaderInStep' /\ NamesSaved' /\ NamesCounted' /\ CutBodyRefused'
      /\ heard' \in Seq(Range(heard'))
  BY <1>1, <1>2, <1>3, OutsideHeaders DEF InHeader
<1>5. TypeOK' /\ Shape'
  BY <1>1, <1>2, <1>3, <1>4 DEF header, IInv, TypeOK, Shape
<1>6. LengthTracked'
  <2>1. ~InMessage'
    <3> SUFFICES ASSUME InMessage' PROVE FALSE
      OBVIOUS
    <3>1. InMessage
      BY <1>1, InMessageBefore
    <3> QED BY <1>3, <3>1 DEF InMessage, Plain
  <2> QED BY <2>1 DEF LengthTracked
<1> QED BY <1>4, <1>5, <1>6 DEF IInv

LEMMA RequestLineEndsIInv ==
    ASSUME IInv, NEW version \in Versions, RequestLineEnds(version)
    PROVE  IInv'
<1>1. /\ Callback("version", version, {"url"}) /\ UNCHANGED header /\ ctx' = ctx
      /\ lex' = [lex EXCEPT !.at = "line", !.version = version]
  BY DEF RequestLineEnds
<1>2. /\ DOMAIN lex' = DOMAIN lex /\ lex'.at = "line" /\ lex'.due = lex.due
      /\ lex'.error = lex.error /\ lex'.trailing = lex.trailing
  BY <1>1 DEF IInv, Shape, FreshParser
<1>3. lex.at = "url" /\ lex.error = "HPE_OK" /\ executing' = TRUE /\ result' = result
  BY <1>1 DEF Callback, IInv, TypeOK
<1>4. /\ WithinLimits' /\ SizeCounted' /\ FailureReturned' /\ CleanStart'
      /\ HeaderInStep' /\ NamesSaved' /\ NamesCounted' /\ CutBodyRefused'
      /\ heard' \in Seq(Range(heard')) /\ Words' = Words
  BY <1>1, <1>2, <1>3, OutsideHeaders DEF InHeader
<1>5. TypeOK' /\ Shape'
  BY <1>1, <1>2, <1>3, <1>4 DEF header, IInv, TypeOK, Shape
<1>6. LengthTracked'
  <2> SUFFICES ASSUME InMessage' PROVE LengthTracked'
    BY DEF LengthTracked
  <2>1. /\ InMessage /\ Heard("complete")' = Heard("complete")
        /\ Heard("body")' = Heard("body")
    BY <1>1, InMessageBefore
  <2>2. Heard("complete") = {} /\ ~InHeader
    BY <1>3, <2>1 DEF IInv, LengthTracked, InHeader
  <2> QED BY <1>1, <1>2, <1>4, <2>1, <2>2 DEF IInv, LengthTracked
<1> QED BY <1>4, <1>5, <1>6 DEF IInv

\* A piece of the body is what is due, or part of it.
LEMMA OnBodyIInv ==
    ASSUME IInv, NEW size \in 1..MaxChunk, OnBody(size)
    PROVE  IInv'
<1>1. /\ Callback("body", size, {"body"}) /\ UNCHANGED header
      /\ \/ lex.due = Chunked
         \/ size <= lex.due /\ Heard("body") = {}
      /\ ctx' = [ctx EXCEPT !.body = size]
      /\ lex' = [lex EXCEPT !.due = IF @ = Chunked THEN @ ELSE @ - size]
  BY DEF OnBody, Heard
<1>2. /\ DOMAIN lex' = DOMAIN lex /\ lex'.at = lex.at /\ lex'.error = lex.error
      /\ lex'.due = IF lex.due = Chunked THEN Chunked ELSE lex.due - size
      /\ lex'.name = lex.name /\ lex'.trailing = lex.trailing
  BY <1>1 DEF IInv, Shape, FreshParser
<1>3. /\ DOMAIN ctx' = DOMAIN ctx /\ ctx'.headers = ctx.headers
      /\ ctx'.contentLength = ctx.contentLength /\ ctx'.body = size
  BY <1>1 DEF IInv, Shape, EmptyContext
<1>4. lex.at = "body" /\ lex.error = "HPE_OK" /\ executing' = TRUE /\ result' = result
  BY <1>1 DEF Callback, IInv, TypeOK
<1>5. /\ WithinLimits' /\ SizeCounted' /\ FailureReturned' /\ CleanStart'
      /\ HeaderInStep' /\ NamesSaved' /\ NamesCounted' /\ CutBodyRefused'
      /\ heard' \in Seq(Range(heard')) /\ Words' = Words
  BY <1>1, <1>2, <1>3, <1>4, OutsideHeaders DEF InHeader
<1>6. /\ size \in Nat /\ size \in 0..MaxChunk
      /\ lex.due # Chunked => lex.due \in Nat /\ lex.due - size \in Nat
  BY <1>1, LengthsAssumption DEF IInv, TypeOK, NoLength, Chunked
<1>7. TypeOK' /\ Shape'
  BY <1>1, <1>2, <1>3, <1>4, <1>5, <1>6 DEF header, IInv, TypeOK, Shape
<1>8. LengthTracked'
  <2> SUFFICES ASSUME InMessage' PROVE LengthTracked'
    BY DEF LengthTracked
  <2>1. InMessage /\ Heard("complete")' = Heard("complete")
    BY <1>1, InMessageBefore
  <2>2. Heard("body")' # {}
    BY <1>1, CallbackKinds
  <2>3. Heard("complete") # {} /\ ~InHeader
    BY <1>4, <2>1 DEF IInv, LengthTracked, InHeader
  <2>4. ASSUME ctx.contentLength # NoLength
        PROVE  lex'.due \in Nat /\ lex'.due = ctx.contentLength - size
    <3>1. lex.due \in Nat /\ lex.due = ctx.contentLength - ctx.body
      BY <2>1, <2>4 DEF IInv, LengthTracked
    <3>2. lex.due # Chunked
      BY <3>1 DEF Chunked
    <3>3. ctx.body = 0
      BY <1>1, <2>1, <3>2 DEF IInv, LengthTracked
    <3>4. ctx.contentLength \in Int
      BY <2>4, LengthsAssumption DEF IInv, TypeOK
    <3> QED BY <1>2, <1>6, <3>1, <3>2, <3>3, <3>4
  <2> QED BY <1>2, <1>3, <1>4, <1>5, <2>1, <2>2, <2>3, <2>4
          DEF IInv, LengthTracked, InHeader
<1> QED BY <1>5, <1>7, <1>8 DEF IInv

LEMMA OnMessageCompleteIInv == IInv /\ OnMessageComplete => IInv'
<1> SUFFICES ASSUME IInv, OnMessageComplete PROVE IInv'
  OBVIOUS
<1> DEFINE positions == IF lex.trailing THEN {"value"} ELSE {"body"}
<1>1. /\ Callback("done", <<>>, positions) /\ UNCHANGED header /\ ctx' = ctx
      /\ lex' = [lex EXCEPT !.at = "start"]
  BY DEF OnMessageComplete
<1>2. /\ DOMAIN lex' = DOMAIN lex /\ lex'.at = "start" /\ lex'.due = lex.due
      /\ lex'.error = lex.error /\ lex'.trailing = lex.trailing
  BY <1>1 DEF IInv, Shape, FreshParser
<1>3. /\ lex.trailing \/ lex.at = "body"
      /\ lex.error = "HPE_OK" /\ executing' = TRUE /\ result' = result
  BY <1>1 DEF Callback, IInv, TypeOK
<1> HIDE DEF positions
<1>4. /\ WithinLimits' /\ SizeCounted' /\ FailureReturned' /\ CleanStart'
      /\ HeaderInStep' /\ NamesSaved' /\ NamesCounted' /\ CutBodyRefused'
      /\ heard' \in Seq(Range(heard'))
  BY <1>1, <1>2, <1>3, OutsideHeaders DEF InHeader
<1>5. TypeOK' /\ Shape'
  BY <1>1, <1>2, <1>3, <1>4 DEF header, IInv, TypeOK, Shape
<1>6. LengthTracked'
  BY <1>1, InMessageBefore DEF LengthTracked
<1> QED BY <1>4, <1>5, <1>6 DEF IInv

\* The type of what save_current_header leaves.
LEMMA SavedType ==
    IInv => /\ Saved.contentLength \in {NoLength} \cup {Stoull[n] : n \in DOMAIN Stoull}
            /\ Saved.body \in 0..MaxChunk
BY SavedMeaning DEF IInv, TypeOK

\* Saving the announced length of a plain message while its header is the one in
\* progress: it is the length that llhttp expects.
LEMMA SavedLength ==
    ASSUME IInv, InMessage, lex.at = "value"
    PROVE  /\ Saved.contentLength # NoLength =>
                 lex.due \in Nat /\ lex.due = Saved.contentLength - ctx.body
           /\ "content-length" \in Words => Saved.contentLength # NoLength
<1>1. Shape /\ InHeader /\ lex.name = ToLower(field)
  BY DEF IInv, InMessage, HeaderInStep, InHeader
<1>2. Heard("complete") = {} /\ ctx.body = 0
  BY DEF IInv, LengthTracked
<1>3. CASE lex.name = ContentLength
  <2>1. PICK text \in DOMAIN Stoull : value = <<text>> /\ lex.due = Stoull[text]
    BY <1>3 DEF IInv, LengthTracked
  <2>2. Len(value) = 1 /\ value[1] = text
    BY <2>1
  <2>3. Saved.contentLength = Stoull[text] /\ Stoull[text] \in Nat
    BY <1>1, <1>3, <2>1, <2>2, SavedMeaning, LengthsAssumption
  <2> QED BY <1>2, <2>1, <2>3 DEF NoLength
<1>4. CASE lex.name # ContentLength
  <2>1. Saved.contentLength = ctx.contentLength
    BY <1>1, <1>4, SavedMeaning
  <2> QED BY <1>1, <1>4, <2>1 DEF IInv, LengthTracked
<1> QED BY <1>3, <1>4

\* In a plain call a name begins right after the request line or a value.
LEMMA PlainName ==
    ASSUME IInv, NEW piece, NEW positions, Callback("field", piece, positions),
           positions \subseteq {"line", "value", "body"} \cup Resumed("field"), Plain'
    PROVE  /\ Plain /\ heard # <<>> /\ lex.at \in {"line", "value"} /\ ~lex.trailing
           /\ lex.at = "value" => value # <<>>
           /\ lex.at = "line" => value = <<>> /\ field = <<>>
<1>1. /\ Hears("field", piece) /\ heard \in Seq(Range(heard))
      /\ lex.at \in positions /\ lex.error = "HPE_OK"
  BY CallbackHears
<1>2. /\ heard # <<>> /\ Plain
      /\ \/ heard[Len(heard)].kind = "version"
         \/ heard[Len(heard)].kind = "value" /\ heard[Len(heard)].text # <<>>
  BY <1>1, PlainBefore
<1>3. lex.at \in {"line", "value"}
  <2>1. lex.at # "body"
    BY <1>1, <1>2 DEF IInv, HeaderInStep
  <2> QED BY <1>1, <1>2, <2>1 DEF Resumed
<1>4. ~lex.trailing /\ (lex.at = "value" => value # <<>>)
  BY <1>1, <1>2 DEF IInv, HeaderInStep
<1>5. lex.at = "line" => value = <<>> /\ field = <<>>
  BY <1>1, <1>2 DEF IInv, HeaderInStep, InHeader
<1> QED BY <1>2, <1>3, <1>4, <1>5

\* A name: the header before it is saved, if any, and this one is in progress.
LEMMA OnHeaderFieldIInv ==
    ASSUME IInv, NEW piece \in Names, OnHeaderField(piece)
    PROVE  IInv'
<1> DEFINE parser == [lex EXCEPT !.at = "field", !.trailing = @ \/ lex.at = "body",
                         !.name = IF lex.at = "field" THEN <<>> ELSE <<piece.word>>]
<1>1. /\ Callback("field", piece, BeforeName)
      /\ BeforeName \subseteq {"line", "value", "body"} \cup Resumed("field")
      /\ IF value # <<>>
         THEN ctx' = Saved /\ field' = <<piece>> /\ value' = <<>>
         ELSE field' = Append(field, piece) /\ ctx' = ctx /\ value' = value
      /\ Count(1, parser)
  BY DEF OnHeaderField, BeforeName
<1>2. /\ Hears("field", piece) /\ heard \in Seq(Range(heard)) /\ Shape
      /\ lex.error = "HPE_OK" /\ executing' = TRUE /\ result' = result
      /\ lex.trailing \in BOOLEAN
  BY <1>1 DEF Callback, Hears, IInv, TypeOK, Shape
<1>3. /\ DOMAIN parser = DOMAIN lex /\ parser.error = "HPE_OK"
      /\ parser.at = "field" /\ parser.due = lex.due
      /\ parser.trailing \in BOOLEAN
      /\ lex.at # "body" => parser.trailing = lex.trailing
      /\ lex.at # "field" => parser.name = <<piece.word>>
  BY <1>2 DEF Shape, FreshParser
<1> HIDE DEF parser
<1>4. /\ total' \in 0..(MaxHeaderSize + 1)
      /\ parseError' \in {"kSuccess", "kHeaderTooLarge"}
      /\ DOMAIN lex' = DOMAIN lex
      /\ lex'.at = "field" /\ lex'.due = lex.due
      /\ lex'.trailing \in BOOLEAN
      /\ lex.at # "body" => lex'.trailing = lex.trailing
      /\ lex.at # "field" => lex'.name = <<piece.word>>
      /\ lex'.error \in {"HPE_OK", "HPE_USER"}
      /\ WithinLimits' /\ SizeCounted' /\ FailureReturned' /\ CleanStart'
      /\ NamesCounted' /\ CutBodyRefused'
  BY <1>1, <1>3, Counting
<1>5. heard' \in Seq(Range(heard')) /\ Words' = Words \cup {piece.word}
  BY <1>2, OneMoreHeard, OneMoreWord
<1>6. TypeOK' /\ Shape'
  <2>1. field' \in Seq(Names) /\ value' \in Seq(Pieces)
    <3>1. field \in Seq(Names) /\ value \in Seq(Pieces)
      BY DEF IInv, TypeOK, Pieces
    <3>2. CASE value # <<>>
      <4>1. value' = <<>> /\ field' = <<piece>>
        BY <1>1, <3>2
      <4>2. <<>> \in Seq(Pieces)
        BY EmptySeq
      <4>3. <<piece>> \in Seq(Names)
        OBVIOUS
      <4> QED BY <4>1, <4>2, <4>3
    <3>3. CASE value = <<>>
      BY <1>1, <3>1, <3>3, AppendProperties
    <3> QED BY <3>2, <3>3
  <2>2. /\ ctx'.contentLength \in {NoLength} \cup {Stoull[n] : n \in DOMAIN Stoull}
        /\ ctx'.body \in 0..MaxChunk /\ DOMAIN ctx' = DOMAIN ctx
    BY <1>1, <1>2, SavedType, SavedMeaning DEF IInv, TypeOK
  <2> QED BY <1>2, <1>4, <1>5, <2>1, <2>2 DEF IInv, TypeOK, Shape, Pieces, Errors
<1>7. ASSUME Plain'
      PROVE  /\ Plain /\ lex.at \in {"line", "value"} /\ ~lex'.trailing
             /\ lex.at = "value" => ctx' = Saved
             /\ lex.at = "line" => ctx' = ctx
             /\ field' = <<piece>> /\ value' = <<>>
  <2>1. /\ Plain /\ lex.at \in {"line", "value"} /\ ~lex.trailing
        /\ lex.at = "value" => value # <<>>
        /\ lex.at = "line" => value = <<>> /\ field = <<>>
    BY <1>1, <1>7, PlainName
  <2>2. Append(<<>>, piece) = <<piece>>
    OBVIOUS
  <2>3. ~lex'.trailing
    BY <1>4, <2>1
  <2> QED BY <1>1, <2>1, <2>2, <2>3
<1>8. HeaderInStep' /\ NamesSaved'
  <2> SUFFICES ASSUME Plain' PROVE HeaderInStep' /\ NamesSaved'
    BY DEF HeaderInStep, NamesSaved
  <2>1. ToLower(field)' = <<piece.word>> /\ Len(field') = 1
    BY <1>7 DEF ToLower
  <2>2. InHeader' /\ lex'.name = <<piece.word>>
    BY <1>4, <1>7 DEF InHeader
  <2>3. HeaderInStep'
    BY <1>4, <1>7, <2>1, <2>2 DEF HeaderInStep
  <2>4. DOMAIN ctx'.headers = DOMAIN ctx.headers \cup {name \in {ToLower(field)} : InHeader}
    BY <1>2, <1>7, SavedMeaning DEF InHeader
  <2>5. {<<word>> : word \in Words} = DOMAIN ctx'.headers
    BY <1>2, <1>7, <2>4 DEF IInv, NamesSaved
  <2>6. {<<word>> : word \in Words'} = DOMAIN ctx'.headers \cup {<<piece.word>>}
    BY <1>5, <2>5
  <2> QED BY <2>1, <2>2, <2>3, <2>6 DEF NamesSaved
<1>9. LengthTracked'
  <2> SUFFICES ASSUME InMessage' PROVE LengthTracked'
    BY DEF LengthTracked
  <2>1. /\ InMessage /\ Heard("complete")' = Heard("complete")
        /\ Heard("body")' = Heard("body") /\ Plain'
    BY <1>1, InMessageBefore DEF InMessage
  <2>2. Heard("complete") = {} /\ ctx.body = 0 /\ lex.at # "field"
    BY <1>7, <2>1 DEF IInv, LengthTracked
  <2>3. ctx'.body = ctx.body
    BY <1>2, <1>7, <2>1, SavedMeaning
  <2>4. /\ ctx'.contentLength # NoLength =>
              lex'.due \in Nat /\ lex'.due = ctx'.contentLength - ctx'.body
        /\ "content-length" \in Words => ctx'.contentLength # NoLength
    <3>1. CASE lex.at = "value"
      BY <1>4, <1>7, <2>1, <2>3, <3>1, SavedLength
    <3>2. CASE lex.at = "line"
      BY <1>4, <1>7, <2>1, <2>3, <3>2 DEF IInv, LengthTracked, InHeader
    <3> QED BY <1>7, <2>1, <3>1, <3>2
  <2>5. "content-length" = piece.word => InHeader' /\ lex'.name = ContentLength
    BY <1>4, <2>2 DEF InHeader, ContentLength
  <2> QED BY <1>4, <1>5, <2>1, <2>2, <2>3, <2>4, <2>5 DEF LengthTracked
<1> QED BY <1>4, <1>6, <1>8, <1>9 DEF IInv

\* A value: what the header in progress is to hold.
LEMMA OnHeaderValueIInv ==
    ASSUME IInv, NEW text \in LexValues, OnHeaderValue(text)
    PROVE  IInv'
<1> DEFINE due == CASE lex.name = ContentLength -> Stoull[text[1]]
                    [] lex.name = TransferEncoding -> Chunked
                    [] OTHER -> lex.due
           parser == [lex EXCEPT !.at = "value", !.due = due]
<1>1. /\ Callback("value", text, {"field", "value"})
      /\ value' = value \o text /\ ctx' = ctx /\ field' = field
      /\ Count(Len(text), parser)
  BY DEF OnHeaderValue
<1>2. /\ Hears("value", text) /\ heard \in Seq(Range(heard)) /\ Shape
      /\ lex.error = "HPE_OK" /\ executing' = TRUE /\ result' = result
      /\ lex.at \in {"field", "value"}
  BY <1>1 DEF Callback, Hears, IInv, TypeOK, Shape
<1>3. /\ DOMAIN parser = DOMAIN lex /\ parser.error = "HPE_OK"
      /\ parser.at = "value" /\ parser.due = due /\ parser.name = lex.name
      /\ parser.trailing = lex.trailing
  BY <1>2 DEF Shape, FreshParser
<1> HIDE DEF parser, due
<1>4. /\ total' \in 0..(MaxHeaderSize + 1)
      /\ parseError' \in {"kSuccess", "kHeaderTooLarge"}
      /\ DOMAIN lex' = DOMAIN lex
      /\ lex'.at = "value" /\ lex'.due = due /\ lex'.name = lex.name
      /\ lex'.trailing = lex.trailing
      /\ lex'.error \in {"HPE_OK", "HPE_USER"}
      /\ WithinLimits' /\ SizeCounted' /\ FailureReturned' /\ CleanStart'
      /\ NamesCounted' /\ CutBodyRefused'
  BY <1>1, <1>3, Counting, LexValuesMeaning
<1>5. heard' \in Seq(Range(heard')) /\ Words' = Words
  BY <1>2, OneMoreHeard, OneMoreWord
<1>6. /\ lex.name = ContentLength => \E length \in DOMAIN Stoull :
            text = <<length>> /\ due = Stoull[length] /\ lex.due = NoLength
      /\ lex.name = TransferEncoding => due = Chunked /\ lex.due = NoLength
      /\ lex.name \notin {ContentLength, TransferEncoding} => due = lex.due
  <2>1. ContentLength # TransferEncoding
    BY DEF ContentLength, TransferEncoding
  <2>2. ASSUME lex.name = ContentLength
        PROVE  \E length \in DOMAIN Stoull :
                  text = <<length>> /\ due = Stoull[length] /\ lex.due = NoLength
    <3>1. PICK length \in DOMAIN Stoull : text = <<length>> /\ lex.due = NoLength
      BY <2>2, LexValuesMeaning
    <3>2. text[1] = length
      BY <3>1
    <3>3. due = Stoull[text[1]]
      BY <2>1, <2>2 DEF due
    <3> QED BY <3>1, <3>2, <3>3
  <2>3. lex.name = TransferEncoding => due = Chunked /\ lex.due = NoLength
    BY <2>1, LexValuesMeaning DEF due
  <2>4. lex.name \notin {ContentLength, TransferEncoding} => due = lex.due
    BY DEF due
  <2> QED BY <2>2, <2>3, <2>4
<1>7. TypeOK' /\ Shape'
  <2>1. value' \in Seq(Pieces)
    BY <1>1, LexValuesMeaning, ConcatProperties DEF IInv, TypeOK, Pieces
  <2>2. due \in {NoLength, Chunked} \cup Nat
    BY <1>6, LengthsAssumption DEF IInv, TypeOK
  <2> QED BY <1>1, <1>2, <1>4, <1>5, <2>1, <2>2 DEF IInv, TypeOK, Shape, Pieces, Errors
<1>8. ASSUME Plain' PROVE Plain /\ InHeader /\ InHeader' /\ ~lex'.trailing
  <2>1. Plain /\ InHeader /\ InHeader'
    BY <1>2, <1>4, <1>8, PlainBefore DEF InHeader
  <2>2. ~lex.trailing
    BY <1>2, <2>1 DEF IInv, HeaderInStep
  <2> QED BY <1>4, <2>1, <2>2
<1>9. HeaderInStep' /\ NamesSaved'
  <2> SUFFICES ASSUME Plain' PROVE HeaderInStep' /\ NamesSaved'
    BY DEF HeaderInStep, NamesSaved
  <2>1. ToLower(field)' = ToLower(field)
    BY <1>1 DEF ToLower
  <2>2. Len(field) = 1 /\ lex.name = ToLower(field)
    BY <1>2, <1>8 DEF IInv, HeaderInStep
  <2>3. heard'[Len(heard')].kind = "value" /\ heard'[Len(heard')].text = text
    BY <1>2, OneMoreHeard
  <2>4. text # <<>> => value' # <<>>
    BY <1>1, LexValuesMeaning, ConcatProperties, ConcatEqualIffEmpty
       DEF IInv, TypeOK, Pieces
  <2>5. HeaderInStep'
    BY <1>1, <1>4, <1>8, <2>1, <2>2, <2>3, <2>4 DEF HeaderInStep
  <2>6. NamesSaved'
    BY <1>1, <1>2, <1>5, <1>8, <2>1 DEF IInv, NamesSaved
  <2> QED BY <2>5, <2>6
<1>10. LengthTracked'
  <2> SUFFICES ASSUME InMessage' PROVE LengthTracked'
    BY DEF LengthTracked
  <2>1. /\ InMessage /\ Heard("complete")' = Heard("complete")
        /\ Heard("body")' = Heard("body") /\ InHeader /\ InHeader'
    BY <1>1, <1>8, InMessageBefore DEF InMessage
  <2>2. Heard("complete") = {} /\ ctx.body = 0
    BY <1>2, <2>1 DEF IInv, LengthTracked
  <2>3. ctx.contentLength # NoLength => due = lex.due
    <3>1. ctx.contentLength # NoLength => lex.due # NoLength
      BY <2>1 DEF IInv, LengthTracked, NoLength
    <3> QED BY <1>6, <3>1
  <2>4. ASSUME lex.name = ContentLength
        PROVE  \E length \in DOMAIN Stoull : value' = <<length>> /\ due = Stoull[length]
    <3>1. PICK length \in DOMAIN Stoull :
            text = <<length>> /\ due = Stoull[length] /\ lex.due = NoLength
      BY <1>6, <2>4
    <3>2. lex.at # "value"
      BY <2>1, <2>4, <3>1, LengthsAssumption DEF IInv, LengthTracked, NoLength
    <3>3. value = <<>>
      BY <1>2, <2>1, <3>2 DEF IInv, InMessage, HeaderInStep
    <3>4. value' = text
      BY <1>1, <3>3, LexValuesMeaning, ConcatEmptySeq
    <3> QED BY <3>1, <3>4
  <2> QED BY <1>1, <1>4, <1>5, <2>1, <2>2, <2>3, <2>4 DEF IInv, LengthTracked
<1> QED BY <1>4, <1>7, <1>9, <1>10 DEF IInv

\* As many names in the headers as words, for names of one piece.
LEMMA WordsCounted ==
    IInv => Cardinality({<<word>> : word \in Words}) = Cardinality(Words)
<1> SUFFICES ASSUME IInv
             PROVE  Cardinality({<<word>> : word \in Words}) = Cardinality(Words)
  OBVIOUS
<1> DEFINE told  == [i \in Heard("field") |-> heard[i].text.word]
           NamesOf == {<<word>> : word \in Words}
           named == [word \in Words |-> <<word>>]
<1>1. IsFiniteSet(Heard("field"))
  <2>1. DOMAIN heard = 1..Len(heard) /\ Len(heard) \in Nat
    BY LenProperties DEF IInv, Shape
  <2>2. IsFiniteSet(DOMAIN heard) /\ Heard("field") \in SUBSET DOMAIN heard
    BY <2>1, FS_Interval DEF Heard
  <2> QED BY <2>2, FS_Subset
<1>2. IsFiniteSet(Words)
  <2>1. told \in Surjection(Heard("field"), Words)
    BY DEF Words, Surjection
  <2> HIDE DEF told
  <2> QED BY <1>1, <2>1, FS_Surjection
<1>3. named \in Bijection(Words, NamesOf)
  <2>1. \A v, w \in Words : <<v>> = <<w>> => v = w
    OBVIOUS
  <2>2. named \in [Words -> NamesOf] /\ \A w \in Words : named[w] = <<w>>
    OBVIOUS
  <2>3. named \in Injection(Words, NamesOf)
    BY <2>1, <2>2 DEF Injection, IsInjective
  <2>4. named \in Surjection(Words, NamesOf)
    BY <2>2 DEF Surjection
  <2> QED BY <2>3, <2>4 DEF Bijection
<1> HIDE DEF named
<1> QED BY <1>2, <1>3, FS_Bijection DEF ExistsBijection

\* The end of the headers: the last one is saved, and the names are counted.
LEMMA OnHeadersCompleteIInv == IInv /\ OnHeadersComplete => IInv'
<1> SUFFICES ASSUME IInv, OnHeadersComplete PROVE IInv'
  OBVIOUS
<1> DEFINE tooMany == Cardinality(DOMAIN ctx'.headers) > MaxHeaders
<1>1. /\ Callback("complete", <<>>, {"line", "value"})
      /\ ctx' = IF field # <<>> THEN Saved ELSE ctx
      /\ field' = <<>> /\ total' = total
      /\ value' = IF field # <<>> THEN <<>> ELSE value
      /\ parseError' = IF tooMany THEN "kTooManyHeaders" ELSE parseError
      /\ lex' = [lex EXCEPT !.at = "body", !.name = <<>>,
                            !.error = IF tooMany THEN "HPE_CB_HEADERS_COMPLETE" ELSE @]
  BY DEF OnHeadersComplete
<1>2. /\ Hears("complete", <<>>) /\ heard \in Seq(Range(heard)) /\ Shape
      /\ lex.error = "HPE_OK" /\ executing' = TRUE /\ result' = result
      /\ parseError = "kSuccess" /\ total <= MaxHeaderSize
      /\ lex.at \in {"line", "value"}
  BY <1>1 DEF Callback, Hears, IInv, TypeOK, Shape, WithinLimits
<1>3. /\ DOMAIN lex' = DOMAIN lex /\ lex'.at = "body" /\ lex'.due = lex.due
      /\ lex'.trailing = lex.trailing
      /\ lex'.error = IF tooMany THEN "HPE_CB_HEADERS_COMPLETE" ELSE "HPE_OK"
  BY <1>1, <1>2 DEF Shape, FreshParser
<1>4. /\ heard' \in Seq(Range(heard')) /\ heard' # <<>> /\ Words' = Words
      /\ SizeHeard' = SizeHeard
      /\ TooManyHeard' <=> TooManyHeard \/ Cardinality(Words) > MaxHeaders
  BY <1>2, OneMoreHeard, OneMoreWord, OneMoreSized, OneMoreCounted
<1>5. TypeOK' /\ Shape'
  <2>1. field' \in Seq(Names) /\ value' \in Seq(Pieces)
    BY <1>1, EmptySeq DEF IInv, TypeOK, Pieces
  <2>2. /\ ctx'.contentLength \in {NoLength} \cup {Stoull[n] : n \in DOMAIN Stoull}
        /\ ctx'.body \in 0..MaxChunk /\ DOMAIN ctx' = DOMAIN ctx
    BY <1>1, <1>2, SavedType, SavedMeaning DEF IInv, TypeOK
  <2>3. parseError' \in {"kSuccess", "kTooManyHeaders"}
    BY <1>1, <1>2
  <2> QED BY <1>1, <1>2, <1>3, <1>4, <2>1, <2>2, <2>3
          DEF IInv, TypeOK, Shape, Pieces, Errors
<1>6. /\ WithinLimits' /\ SizeCounted' /\ FailureReturned' /\ CleanStart'
      /\ CutBodyRefused'
  <2>1. ~(total > MaxHeaderSize)
    BY <1>2, ConfigAssumption DEF IInv, TypeOK
  <2> QED BY <1>1, <1>2, <1>3, <1>4, <2>1
          DEF IInv, WithinLimits, SizeCounted, FailureReturned, CleanStart, CutBodyRefused
<1>7. ASSUME Plain'
      PROVE  /\ Plain /\ value' = <<>>
             /\ lex.at = "value" => field # <<>> /\ ctx' = Saved
             /\ lex.at = "line" => ctx' = ctx
             /\ {<<word>> : word \in Words} = DOMAIN ctx'.headers
  <2>1. Plain
    BY <1>2, <1>7, PlainBefore
  <2>2. lex.at = "value" => InHeader /\ field # <<>>
    <3>1. lex.at = "value" => InHeader /\ Len(field) = 1
      BY <1>2, <2>1 DEF IInv, HeaderInStep, InHeader
    <3> QED BY <3>1, EmptySeq
  <2>3. lex.at = "line" => ~InHeader /\ field = <<>> /\ value = <<>>
    BY <1>2, <2>1 DEF IInv, HeaderInStep, InHeader
  <2>4. DOMAIN ctx'.headers = DOMAIN ctx.headers \cup {name \in {ToLower(field)} : InHeader}
    BY <1>1, <1>2, <2>2, <2>3, SavedMeaning
  <2>5. {<<word>> : word \in Words} = DOMAIN ctx'.headers
    BY <1>2, <2>1, <2>4 DEF IInv, NamesSaved
  <2> QED BY <1>1, <1>2, <2>1, <2>2, <2>3, <2>5
<1>8. HeaderInStep' /\ NamesSaved'
  <2>1. ~InHeader' /\ lex'.at # "value"
    BY <1>3 DEF InHeader
  <2>2. heard'[Len(heard')].kind = "complete"
    BY <1>2, OneMoreHeard
  <2>3. Plain' => ~lex'.trailing
    BY <1>2, <1>3, <1>7 DEF IInv, HeaderInStep
  <2> QED BY <1>1, <1>4, <1>7, <2>1, <2>2, <2>3 DEF HeaderInStep, NamesSaved
<1>9. NamesCounted'
  <2> SUFFICES ASSUME Plain' PROVE tooMany <=> TooManyHeard'
    BY <1>3 DEF NamesCounted
  <2>1. ~TooManyHeard
    BY <1>2, <1>7 DEF IInv, NamesCounted
  <2>2. tooMany <=> Cardinality(Words) > MaxHeaders
    BY <1>7, WordsCounted
  <2> QED BY <1>4, <2>1, <2>2
<1>10. LengthTracked'
  <2> SUFFICES ASSUME InMessage' PROVE LengthTracked'
    BY DEF LengthTracked
  <2>1. InMessage /\ Heard("body")' = Heard("body") /\ Plain'
    BY <1>1, InMessageBefore DEF InMessage
  <2>2. Heard("complete")' # {}
    BY <1>1, CallbackKinds
  <2>3. ctx.body = 0 /\ ctx'.body = ctx.body
    <3>1. ctx.body = 0
      BY <1>2, <2>1 DEF IInv, LengthTracked
    <3> QED BY <1>1, <1>2, <3>1, SavedMeaning
  <2>4. /\ ctx'.contentLength # NoLength =>
              lex'.due \in Nat /\ lex'.due = ctx'.contentLength - ctx'.body
        /\ "content-length" \in Words => ctx'.contentLength # NoLength
    <3>1. CASE lex.at = "value"
      BY <1>3, <1>7, <2>1, <2>3, <3>1, SavedLength
    <3>2. CASE lex.at = "line"
      BY <1>3, <1>7, <2>1, <2>3, <3>2 DEF IInv, LengthTracked, InHeader
    <3> QED BY <1>2, <3>1, <3>2
  <2> QED BY <1>3, <1>4, <2>2, <2>3, <2>4 DEF LengthTracked
<1> QED BY <1>5, <1>6, <1>8, <1>9, <1>10 DEF IInv

-----------------------------------------------------------------------------
(* The theorems.                                                           *)

\* A new codec has heard nothing.
LEMMA InitIInv == Init => IInv
<1> SUFFICES ASSUME Init PROVE IInv
  OBVIOUS
<1>1. /\ lex = FreshParser /\ executing = FALSE /\ ctx = EmptyContext
      /\ field = <<>> /\ value = <<>> /\ total = 0 /\ parseError = "kSuccess"
      /\ result = "none" /\ heard = <<>>
  BY DEF Init
<1>2. TypeOK
  <2>1. EmptyContext.contentLength = NoLength /\ EmptyContext.body = 0
    BY DEF EmptyContext
  <2>2. FreshParser.at = "start" /\ FreshParser.error = "HPE_OK"
        /\ FreshParser.due = NoLength /\ FreshParser.trailing = FALSE
    BY DEF FreshParser
  <2>3. 0 \in 0..MaxChunk /\ 0 \in 0..(MaxHeaderSize + 1)
    BY ConfigAssumption, LengthsAssumption
  <2> QED BY <1>1, <2>1, <2>2, <2>3, EmptySeq DEF TypeOK, Errors
<1>3. Shape
  <2>1. <<>> \in Seq(Range(<<>>))
    BY EmptySeq
  <2> QED BY <1>1, <2>1 DEF Shape
<1>4. \A k : Heard(k) = {}
  BY <1>1 DEF Heard
<1>5. SizeHeard = 0
  <2>1. {i \in Heard("value") : heard[i].text # <<>>} = {}
    BY <1>4
  <2>2. SizeHeard = Cardinality({}) + Cardinality({})
    BY <1>4, <2>1, Zenon DEF SizeHeard
  <2> QED BY <2>2, FS_EmptySet
<1>6. WithinLimits /\ SizeCounted /\ FailureReturned /\ CleanStart /\ CutBodyRefused
  BY <1>1, <1>5, ConfigAssumption
     DEF WithinLimits, SizeCounted, FailureReturned, CleanStart, CutBodyRefused
<1>7. HeaderInStep /\ NamesSaved /\ NamesCounted /\ LengthTracked
  BY <1>1 DEF HeaderInStep, NamesSaved, NamesCounted, LengthTracked, InMessage, Plain
<1> QED BY <1>2, <1>3, <1>6, <1>7 DEF IInv

\* Every reachable state satisfies the inductive invariant.
THEOREM Invariant == Spec => []IInv
<1>1. IInv /\ [Next]_vars => IInv'
  <2> SUFFICES ASSUME IInv, [Next]_vars PROVE IInv'
    OBVIOUS
  <2>1. CASE Parse
    BY <2>1, ParseIInv
  <2>2. CASE Reset
    BY <2>2, ResetIInv
  <2>3. CASE Return
    BY <2>3, ReturnIInv
  <2>4. ASSUME NEW error \in {"HPE_INVALID_URL", "HPE_OTHER"}, LexError(error)
        PROVE  IInv'
    BY <2>4, LexErrorIInv
  <2>5. ASSUME NEW line \in RequestLines, OnMessageBegin(line) PROVE IInv'
    BY <2>5, OnMessageBeginIInv
  <2>6. ASSUME NEW line \in RequestLines, OnUrl(line) PROVE IInv'
    BY <2>6, OnUrlIInv
  <2>7. ASSUME NEW version \in Versions, RequestLineEnds(version) PROVE IInv'
    BY <2>7, RequestLineEndsIInv
  <2>8. ASSUME NEW piece \in Names, OnHeaderField(piece) PROVE IInv'
    BY <2>8, OnHeaderFieldIInv
  <2>9. ASSUME NEW text \in LexValues, OnHeaderValue(text) PROVE IInv'
    BY <2>9, OnHeaderValueIInv
  <2>10. CASE OnHeadersComplete
    BY <2>10, OnHeadersCompleteIInv
  <2>11. ASSUME NEW size \in 1..MaxChunk, OnBody(size) PROVE IInv'
    BY <2>11, OnBodyIInv
  <2>12. CASE OnMessageComplete
    BY <2>12, OnMessageCompleteIInv
  <2>13. CASE UNCHANGED vars
    <3>1. /\ lex' = lex /\ executing' = executing /\ ctx' = ctx /\ field' = field
          /\ value' = value /\ total' = total /\ parseError' = parseError
          /\ result' = result /\ heard' = heard
      BY <2>13 DEF vars, header
    <3>2. /\ SizeHeard' = SizeHeard /\ (Plain' <=> Plain) /\ Words' = Words
          /\ (TooManyHeard' <=> TooManyHeard) /\ (InHeader' <=> InHeader)
          /\ \A k : Heard(k)' = Heard(k)
      BY <3>1 DEF SizeHeard, Plain, Words, WordsUpTo, TooManyHeard, InHeader, Heard
    <3>3. TypeOK' /\ Shape' /\ WithinLimits' /\ SizeCounted' /\ FailureReturned'
          /\ CleanStart'
      BY <3>1, <3>2
         DEF IInv, TypeOK, Shape, WithinLimits, SizeCounted, FailureReturned, CleanStart
    <3>4. HeaderInStep' /\ NamesSaved' /\ NamesCounted'
      BY <3>1, <3>2 DEF IInv, HeaderInStep, NamesSaved, NamesCounted
    <3>5. LengthTracked'
      BY <3>1, <3>2 DEF IInv, LengthTracked, InMessage
    <3>6. CutBodyRefused'
      BY <3>1, <3>2 DEF IInv, CutBodyRefused, WordsUpTo
    <3> QED BY <3>3, <3>4, <3>5, <3>6 DEF IInv
  <2> QED BY <2>1, <2>2, <2>3, <2>4, <2>5, <2>6, <2>7, <2>8, <2>9, <2>10, <2>11, <2>12,
             <2>13
          DEF Next
<1> QED BY <1>1, InitIInv, PTL DEF Spec

\* Every variable keeps its type, and total_header_size_ is never more than one
\* piece over the limit: the callback that exceeds it makes llhttp fail.
THEOREM TypeCorrect == Spec => []TypeOK
<1>1. IInv => TypeOK
  BY DEF IInv
<1> QED BY <1>1, Invariant, PTL

\* A call stops at a header limit, and does not accept, exactly when the headers
\* that it brought exceed the limit: total_header_size_ and the headers that are counted
\* hold nothing of an earlier call, with or without reset().
THEOREM LimitsExactCorrect == Spec => []LimitsExact
<1>1. IInv => LimitsExact
  BY DEF IInv, LimitsExact, SizeCounted, NamesCounted, FailureReturned
<1> QED BY <1>1, Invariant, PTL

\* A request whose announced body is cut by the end of the buffer is never
\* returned as kSuccess, whatever arrived before on the connection: the
\* comparison with has_content_length catches it.
THEOREM CutBodyRefusedCorrect == Spec => []CutBodyRefused
<1>1. IInv => CutBodyRefused
  BY DEF IInv
<1> QED BY <1>1, Invariant, PTL

-----------------------------------------------------------------------------
(* What the callbacks say: one more callback is read after the others.     *)

\* Induction over the natural numbers, for a set in place of a predicate.
LEMMA NatSetInduction ==
    ASSUME NEW S \in SUBSET Nat, 0 \in S, \A n \in S : n + 1 \in S
    PROVE  S = Nat
<1> SUFFICES ASSUME Nat \ S # {} PROVE FALSE
  OBVIOUS
<1>1. PICK least \in Nat \ S :
        \A m \in Nat \ S : ~(<<m, least>> \in OpToRel(<, Nat))
  BY NatLessThanWellFounded, WFMin, Nat \ S \subseteq Nat, Zenon
<1>2. \A m \in Nat \ S : ~(m < least)
  BY <1>1 DEF OpToRel
<1>3. least - 1 \in Nat /\ least - 1 < least
  OBVIOUS
<1>4. least - 1 \in S
  BY <1>2, <1>3
<1>5. (least - 1) + 1 \in S
  BY <1>4
<1> QED BY <1>5

Nothing == [word |-> "", said |-> <<>>]

\* f reads the first n callbacks one after the other.
Reads(f, callbacks, n) ==
    f = [m \in 0..n |-> IF m = 0 THEN Nothing ELSE ReadOn(f[m - 1], callbacks[m])]

LEMMA ReadsMeaning ==
    ASSUME NEW callbacks, NEW n \in Nat, NEW f, Reads(f, callbacks, n)
    PROVE  /\ f[0] = Nothing
           /\ \A m \in 0..n : m + 1 <= n => f[m + 1] = ReadOn(f[m], callbacks[m + 1])
BY DEF Reads

\* Such a function exists for every n.
LEMMA ReadsExists ==
    ASSUME NEW callbacks, NEW n \in Nat
    PROVE  \E f : Reads(f, callbacks, n)
<1> DEFINE S == {m \in Nat : \E f : Reads(f, callbacks, m)}
<1>1. 0 \in S
  <2> DEFINE f == [m \in 0..0 |-> Nothing]
  <2>1. Reads(f, callbacks, 0)
    BY DEF Reads
  <2> QED BY <2>1
<1>2. ASSUME NEW m \in S PROVE m + 1 \in S
  <2>1. PICK f : Reads(f, callbacks, m)
    OBVIOUS
  <2>2. m \in Nat
    OBVIOUS
  <2> DEFINE g == [k \in 0..(m + 1) |->
                     IF k = m + 1 THEN ReadOn(f[m], callbacks[m + 1]) ELSE f[k]]
  <2>3. \A k \in 0..m : g[k] = f[k]
    BY <2>2
  <2>4. ASSUME NEW k \in 0..(m + 1)
        PROVE  g[k] = IF k = 0 THEN Nothing ELSE ReadOn(g[k - 1], callbacks[k])
    <3>1. CASE k = m + 1
      <4>1. g[k - 1] = f[m]
        BY <2>2, <2>3, <3>1
      <4> QED BY <2>2, <3>1, <4>1
    <3>2. CASE k = 0
      BY <2>1, <2>2, <2>3, <3>2, ReadsMeaning
    <3>3. CASE k \in 1..m
      <4>1. k - 1 \in 0..m /\ (k - 1) + 1 = k /\ k \in 0..m
        BY <2>2, <3>3
      <4>2. f[k] = ReadOn(f[k - 1], callbacks[k])
        BY <2>1, <2>2, <3>3, <4>1, ReadsMeaning
      <4>3. g[k] = f[k] /\ g[k - 1] = f[k - 1]
        BY <2>3, <4>1
      <4> QED BY <3>3, <4>2, <4>3
    <3> QED BY <2>2, <3>1, <3>2, <3>3
  <2>5. Reads(g, callbacks, m + 1)
    <3>1. g = [k \in 0..(m + 1) |-> g[k]]
      OBVIOUS
    <3> HIDE DEF g
    <3> QED BY <2>4, <3>1 DEF Reads
  <2> QED BY <2>2, <2>5
<1>3. S = Nat
  <2>1. S \in SUBSET Nat
    OBVIOUS
  <2> HIDE DEF S
  <2> QED BY <1>1, <1>2, <2>1, NatSetInduction
<1> QED BY <1>3

\* Read is the last value of such a function.
LEMMA ReadMeaning ==
    ASSUME NEW callbacks, Len(callbacks) \in Nat
    PROVE  \E f : Reads(f, callbacks, Len(callbacks)) /\ Read(callbacks) = f[Len(callbacks)]
<1> DEFINE upTo == CHOOSE f : Reads(f, callbacks, Len(callbacks))
<1>1. Read(callbacks) = upTo[Len(callbacks)]
  BY DEF Read, Reads, Nothing
<1>2. Reads(upTo, callbacks, Len(callbacks))
  BY ReadsExists
<1> QED BY <1>1, <1>2

\* Callbacks that agree are read alike.
LEMMA ReadsAgree ==
    ASSUME NEW c, NEW d, NEW n \in Nat, NEW k \in Nat, NEW f, NEW g, n <= k,
           Reads(f, c, n), Reads(g, d, k), \A m \in 1..n : c[m] = d[m]
    PROVE  f[n] = g[n]
<1> DEFINE S == {m \in Nat : m <= n => f[m] = g[m]}
<1>1. 0 \in S
  BY ReadsMeaning
<1>2. ASSUME NEW m \in S PROVE m + 1 \in S
  <2>1. m \in Nat
    OBVIOUS
  <2>2. ASSUME m + 1 <= n PROVE f[m + 1] = g[m + 1]
    <3>1. m \in 0..n /\ m \in 0..k /\ m <= n /\ m + 1 <= k /\ m + 1 \in 1..n
      BY <2>1, <2>2
    <3>2. f[m + 1] = ReadOn(f[m], c[m + 1])
      BY <2>2, <3>1, ReadsMeaning
    <3>3. g[m + 1] = ReadOn(g[m], d[m + 1])
      BY <3>1, ReadsMeaning
    <3>4. f[m] = g[m] /\ c[m + 1] = d[m + 1]
      BY <3>1
    <3> QED BY <3>2, <3>3, <3>4
  <2> QED BY <2>1, <2>2
<1>3. S = Nat
  <2>1. S \in SUBSET Nat
    OBVIOUS
  <2> HIDE DEF S
  <2> QED BY <1>1, <1>2, <2>1, NatSetInduction
<1> QED BY <1>3

LEMMA ReadNothing == Read(<<>>) = Nothing
BY ReadMeaning, ReadsMeaning, EmptySeq

\* A callback heard is read on.
LEMMA OneMoreRead ==
    ASSUME heard \in Seq(Range(heard)), NEW kind, NEW text, Hears(kind, text)
    PROVE  Read(heard)' = ReadOn(Read(heard), [kind |-> kind, text |-> text])
<1> DEFINE L == Len(heard)
           last == [kind |-> kind, text |-> text]
<1>1. /\ L \in Nat /\ Len(heard') = L + 1
      /\ \A i \in 1..L : heard'[i] = heard[i]
  BY OneMoreHeard
<1>2. heard'[L + 1] = last
  <2>1. heard \in Seq(Range(heard) \cup {last})
    BY SeqMonotonic
  <2> HIDE DEF last
  <2> QED BY <2>1, AppendProperties DEF Hears, last
<1>3. PICK f : Reads(f, heard, L) /\ Read(heard) = f[L]
  BY <1>1, ReadMeaning
<1>4. PICK g : Reads(g, heard', L + 1) /\ Read(heard') = g[L + 1]
  BY <1>1, ReadMeaning
<1>5. f[L] = g[L]
  BY <1>1, <1>3, <1>4, ReadsAgree
<1>6. g[L + 1] = ReadOn(g[L], heard'[L + 1])
  BY <1>1, <1>4, ReadsMeaning
<1> QED BY <1>2, <1>3, <1>4, <1>5, <1>6

-----------------------------------------------------------------------------
(* What a callback adds to the message that is told.                       *)

\* The first message goes on with any callback but on_message_begin.
LEMMA MessageGoesOn ==
    ASSUME IInv, NEW kind, NEW text, NEW positions, Callback(kind, text, positions),
           kind # "begin", FirstMessage'
    PROVE  /\ FirstMessage /\ heard # <<>> /\ lex.at \in positions /\ executing = TRUE
           /\ heard'[1] = heard[1]
           /\ \A i \in DOMAIN heard : heard'[i] = heard[i]
           /\ Len(heard) + 1 \in Heard(kind)' /\ heard'[Len(heard) + 1].text = text
           /\ \A k : Heard(k) \subseteq DOMAIN heard
           /\ \A k : k # kind => Heard(k)' = Heard(k)
           /\ Heard(kind)' = Heard(kind) \cup {Len(heard) + 1}
<1>1. /\ Hears(kind, text) /\ heard \in Seq(Range(heard)) /\ executing = TRUE
      /\ lex.at \in positions /\ lex.error = "HPE_OK"
  BY CallbackHears
<1>2. heard # <<>> /\ Plain
  BY <1>1, PlainBefore DEF FirstMessage
<1>3. /\ \A i \in DOMAIN heard : heard'[i] = heard[i]
      /\ DOMAIN heard = 1..Len(heard) /\ Len(heard) \in Nat
      /\ heard'[Len(heard) + 1].text = text
  BY <1>1, OneMoreHeard
<1>4. 1 \in DOMAIN heard
  BY <1>1, <1>2, <1>3, EmptySeq
<1>5. \A k : Heard(k)' = Heard(k) \cup {i \in {Len(heard) + 1} : k = kind}
  BY <1>1, OneMoreOfKind
<1>6. Heard("begin") = {1}
  BY <1>5 DEF FirstMessage
<1>7. \A k : Heard(k) \subseteq DOMAIN heard
  BY DEF Heard
<1>8. FirstMessage
  BY <1>1, <1>2, <1>6 DEF FirstMessage
<1> QED BY <1>1, <1>2, <1>3, <1>4, <1>5, <1>7, <1>8

\* Nothing has been heard before the first message begins.
LEMMA MessageBegins ==
    ASSUME IInv, NEW text, NEW positions, Callback("begin", text, positions),
           FirstMessage'
    PROVE  /\ heard = <<>> /\ executing = TRUE
           /\ heard'[1].text = text
           /\ \A k : k # "begin" => Heard(k)' = {}
           /\ Words' = {}
           /\ Read(heard)' = Nothing
<1>1. Hears("begin", text) /\ heard \in Seq(Range(heard)) /\ executing = TRUE
  BY CallbackHears
<1>2. heard = <<>>
  <2>1. Len(heard) + 1 = 1
    BY CallbackKinds DEF FirstMessage
  <2> QED BY <2>1, CallbackKinds
<1>3. heard'[1].text = text
  <2>1. heard'[Len(heard) + 1].text = text /\ Len(heard) + 1 = 1
    BY <1>1, <1>2, OneMoreHeard
  <2> QED BY <2>1
<1>4. \A k : k # "begin" => Heard(k)' = {}
  BY <1>1, <1>2, CallbackKinds, CleanCall
<1>5. Words' = {}
  BY <1>1, <1>2, OneMoreWord, CleanCall
<1>6. Read(heard)' = Nothing
  <2>1. Read(heard)' = ReadOn(Read(heard), [kind |-> "begin", text |-> text])
    BY <1>1, OneMoreRead
  <2>2. ReadOn(Nothing, [kind |-> "begin", text |-> text]) = Nothing
    BY DEF ReadOn
  <2> QED BY <1>2, <2>1, <2>2, ReadNothing
<1> QED BY <1>1, <1>2, <1>3, <1>4, <1>5, <1>6

\* Callbacks after the request line leave it alone.
LEMMA LineGoesOn ==
    ASSUME IInv, LineTold,
           NEW kind \in {"field", "value", "complete", "body", "done"},
           NEW text, NEW positions, Callback(kind, text, positions),
           lex'.at # "url", lex'.method = lex.method, lex'.version = lex.version,
           ctx'.target = ctx.target
    PROVE  LineTold'
<1> SUFFICES ASSUME FirstMessage' PROVE LineTold'
  BY DEF LineTold
<1>1. /\ FirstMessage /\ heard'[1] = heard[1] /\ Heard("version")' = Heard("version")
      /\ \A i \in Heard("version") : heard'[i] = heard[i]
  <2>1. Heard("version") \subseteq DOMAIN heard
    BY DEF Heard
  <2> QED BY <2>1, MessageGoesOn
<1> QED BY <1>1 DEF LineTold

\* Callbacks outside the headers leave them alone.
LEMMA HeadersGoOn ==
    ASSUME IInv, HeadersTold, NEW kind \in {"version", "body", "done"},
           NEW text, NEW positions, Callback(kind, text, positions),
           ~InHeader, ~InHeader', ctx'.headers = ctx.headers, ctx'.host = ctx.host
    PROVE  HeadersTold'
<1> SUFFICES ASSUME FirstMessage' PROVE HeadersTold'
  BY DEF HeadersTold
<1>1. FirstMessage
  BY MessageGoesOn
<1>2. Hears(kind, text) /\ heard \in Seq(Range(heard))
  BY CallbackHears
<1>3. Words' = Words
  BY <1>2, OneMoreWord
<1>4. Read(heard)' = Read(heard)
  <2>1. Read(heard)' = ReadOn(Read(heard), [kind |-> kind, text |-> text])
    BY <1>2, OneMoreRead
  <2> QED BY <2>1 DEF ReadOn
<1> QED BY <1>1, <1>3, <1>4 DEF HeadersTold

\* Callbacks other than on_body leave the body alone.
LEMMA BodyGoesOn ==
    ASSUME IInv, BodyTold,
           NEW kind \in {"version", "field", "value", "complete", "done"},
           NEW text, NEW positions, Callback(kind, text, positions),
           "start" \notin positions, kind = "done" => lex'.at = "start",
           ctx'.body = ctx.body
    PROVE  BodyTold'
<1> SUFFICES ASSUME FirstMessage' PROVE BodyTold'
  BY DEF BodyTold
<1>1. /\ FirstMessage /\ lex.at # "start" /\ Heard("body")' = Heard("body")
      /\ kind # "done" => Heard("done")' = Heard("done")
      /\ \A i \in Heard("body") : heard'[i] = heard[i]
  <2>1. Heard("body") \subseteq DOMAIN heard
    BY DEF Heard
  <2> QED BY <2>1, MessageGoesOn
<1>2. Heard("done")' # {} => lex'.at = "start"
  BY <1>1 DEF BodyTold
<1>3. Heard("body") = {} => ctx.body = 0
  BY <1>1 DEF BodyTold
<1>4. ASSUME Heard("body") # {}
      PROVE  \E i \in Heard("body") : ctx.body = heard'[i].text
  BY <1>1, <1>4 DEF BodyTold
<1>5. Heard("body")' # {} => \E i \in Heard("body")' : ctx'.body = heard'[i].text
  BY <1>1, <1>4
<1>6. Heard("body")' = {} => ctx'.body = 0
  BY <1>1, <1>3
<1> QED BY <1>2, <1>5, <1>6 DEF BodyTold

\* Nothing is told of a call that has heard nothing, or in which llhttp failed.
LEMMA NothingTold == heard = <<>> \/ lex.error # "HPE_OK" => MessageTold
BY DEF MessageTold, LineTold, HeadersTold, BodyTold, FirstMessage, Plain

-----------------------------------------------------------------------------
(* The actions.                                                            *)

LEMMA OnMessageBeginTold ==
    ASSUME IInv, MessageTold, NEW line \in RequestLines, OnMessageBegin(line)
    PROVE  MessageTold'
<1>1. /\ Callback("begin", line, {"start"})
      /\ lex' = [lex EXCEPT !.at = "url", !.method = line.method, !.due = NoLength,
                            !.trailing = FALSE]
      /\ ctx' = [ctx EXCEPT !.target = Append(@, line.target)]
  BY DEF OnMessageBegin
<1> SUFFICES ASSUME FirstMessage' PROVE MessageTold'
  BY DEF MessageTold, LineTold, HeadersTold, BodyTold
<1>2. /\ heard = <<>> /\ executing = TRUE /\ heard'[1].text = line
      /\ Heard("version")' = {} /\ Heard("done")' = {} /\ Heard("body")' = {}
      /\ Words' = {} /\ Read(heard)' = Nothing
  BY <1>1, MessageBegins
<1>3. /\ lex'.at = "url" /\ lex'.method = line.method
  BY <1>1 DEF IInv, Shape, FreshParser
<1>4. ctx'.target = <<line.target>> /\ ctx'.host = <<>> /\ ctx'.body = 0
  <2>1. ctx = EmptyContext
    BY <1>2 DEF IInv, CleanStart
  <2>2. /\ DOMAIN ctx = DOMAIN EmptyContext
        /\ ctx.target = <<>> /\ ctx.host = <<>> /\ ctx.body = 0
    BY <2>1 DEF EmptyContext
  <2>3. /\ ctx'.target = Append(ctx.target, line.target)
        /\ ctx'.host = ctx.host /\ ctx'.body = ctx.body
    BY <1>1, <2>2 DEF EmptyContext
  <2>4. Append(<<>>, line.target) = <<line.target>>
    OBVIOUS
  <2> QED BY <2>2, <2>3, <2>4
<1>5. LineTold'
  BY <1>2, <1>3, <1>4 DEF LineTold
<1>6. HeadersTold'
  <2>1. ~InHeader'
    BY <1>3 DEF InHeader
  <2>2. DOMAIN Nothing.said = {}
    BY DEF Nothing
  <2> QED BY <1>2, <1>4, <2>1, <2>2 DEF HeadersTold
<1>7. BodyTold'
  BY <1>2, <1>4 DEF BodyTold
<1> QED BY <1>5, <1>6, <1>7 DEF MessageTold

LEMMA OnUrlTold ==
    ASSUME IInv, MessageTold, NEW line \in RequestLines, OnUrl(line)
    PROVE  MessageTold'
<1>1. Callback("url", line, Resumed("url"))
  BY DEF OnUrl
<1>2. heard = <<>>
  BY <1>1 DEF Callback, Resumed
<1>3. ~FirstMessage'
  BY <1>1, <1>2, MessageGoesOn
<1> QED BY <1>3 DEF MessageTold, LineTold, HeadersTold, BodyTold

LEMMA RequestLineEndsTold ==
    ASSUME IInv, MessageTold, NEW version \in Versions, RequestLineEnds(version)
    PROVE  MessageTold'
<1>1. /\ Callback("version", version, {"url"}) /\ ctx' = ctx
      /\ lex' = [lex EXCEPT !.at = "line", !.version = version]
  BY DEF RequestLineEnds
<1>2. /\ lex'.at = "line" /\ lex'.version = version /\ lex'.method = lex.method
      /\ lex.at = "url"
  BY <1>1 DEF Callback, IInv, Shape, FreshParser
<1>3. LineTold'
  <2> SUFFICES ASSUME FirstMessage' PROVE LineTold'
    BY DEF LineTold
  <2>1. /\ FirstMessage /\ heard'[1] = heard[1]
        /\ Heard("version")' = Heard("version") \cup {Len(heard) + 1}
        /\ heard'[Len(heard) + 1].text = version
    BY <1>1, MessageGoesOn
  <2>2. /\ ctx.target = <<heard[1].text.target>> /\ lex.method = heard[1].text.method
        /\ Heard("version") = {}
    BY <1>2, <2>1 DEF MessageTold, LineTold
  <2> QED BY <1>1, <1>2, <2>1, <2>2 DEF LineTold
<1>4. HeadersTold'
  BY <1>1, <1>2, HeadersGoOn DEF InHeader, MessageTold
<1>5. BodyTold'
  <2>1. "start" \notin {"url"} /\ "version" # "done"
    OBVIOUS
  <2> QED BY <1>1, <2>1, BodyGoesOn DEF MessageTold
<1> QED BY <1>3, <1>4, <1>5 DEF MessageTold

LEMMA OnBodyTold ==
    ASSUME IInv, MessageTold, NEW size \in 1..MaxChunk, OnBody(size)
    PROVE  MessageTold'
<1>1. /\ Callback("body", size, {"body"}) /\ ctx' = [ctx EXCEPT !.body = size]
      /\ lex' = [lex EXCEPT !.due = IF @ = Chunked THEN @ ELSE @ - size]
  BY DEF OnBody
<1>2. /\ ctx'.body = size /\ ctx'.target = ctx.target
      /\ ctx'.headers = ctx.headers /\ ctx'.host = ctx.host
      /\ lex'.at = lex.at /\ lex'.method = lex.method /\ lex'.version = lex.version
      /\ lex.at = "body"
  BY <1>1 DEF Callback, IInv, Shape, FreshParser, EmptyContext
<1>3. LineTold'
  BY <1>1, <1>2, LineGoesOn DEF MessageTold
<1>4. HeadersTold'
  BY <1>1, <1>2, HeadersGoOn DEF InHeader, MessageTold
<1>5. BodyTold'
  <2> SUFFICES ASSUME FirstMessage' PROVE BodyTold'
    BY DEF BodyTold
  <2>1. /\ FirstMessage /\ \A k : k # "body" => Heard(k)' = Heard(k)
        /\ Len(heard) + 1 \in Heard("body")' /\ heard'[Len(heard) + 1].text = size
    BY <1>1, MessageGoesOn
  <2>2. Heard("done")' = Heard("done")
    BY <2>1
  <2>3. Heard("done") # {} => lex.at = "start"
    BY <2>1 DEF MessageTold, BodyTold
  <2>4. \E i \in Heard("body")' : ctx'.body = heard'[i].text
    BY <1>2, <2>1
  <2>5. Heard("body")' # {}
    BY <2>1
  <2>6. Heard("done")' # {} => lex'.at = "start"
    BY <1>2, <2>2, <2>3
  <2> QED BY <2>4, <2>5, <2>6 DEF BodyTold
<1> QED BY <1>3, <1>4, <1>5 DEF MessageTold

LEMMA OnMessageCompleteTold ==
    ASSUME IInv, MessageTold, OnMessageComplete
    PROVE  MessageTold'
<1> DEFINE positions == IF lex.trailing THEN {"value"} ELSE {"body"}
<1>0. /\ Callback("done", <<>>, positions) /\ ctx' = ctx
      /\ lex' = [lex EXCEPT !.at = "start"]
  BY DEF OnMessageComplete
<1> SUFFICES ASSUME FirstMessage' PROVE MessageTold'
  BY DEF MessageTold, LineTold, HeadersTold, BodyTold
<1>1. Callback("done", <<>>, {"body"})
  <2>1. FirstMessage
    BY <1>0, MessageGoesOn
  <2>2. ~lex.trailing
    BY <2>1 DEF IInv, HeaderInStep, FirstMessage
  <2> QED BY <1>0, <2>2
<1>2. /\ ctx' = ctx /\ lex'.at = "start" /\ lex'.method = lex.method
      /\ lex'.version = lex.version /\ lex.at = "body"
  BY <1>0, <1>1 DEF Callback, IInv, Shape, FreshParser
<1>3. LineTold'
  BY <1>1, <1>2, LineGoesOn DEF MessageTold
<1>4. HeadersTold'
  BY <1>1, <1>2, HeadersGoOn DEF InHeader, MessageTold
<1>5. BodyTold'
  <2>1. "start" \notin {"body"}
    OBVIOUS
  <2> QED BY <1>1, <1>2, <2>1, BodyGoesOn DEF MessageTold
<1> QED BY <1>3, <1>4, <1>5 DEF MessageTold

LEMMA ReturnTold ==
    ASSUME IInv, MessageTold, Return
    PROVE  MessageTold'
<1>1. /\ lex' = lex /\ value' = value /\ heard' = heard
      /\ ctx'.target = ctx.target /\ ctx'.headers = ctx.headers
      /\ ctx'.host = ctx.host /\ ctx'.body = ctx.body
  BY DEF Return, header, IInv, Shape, EmptyContext
<1>2. /\ (FirstMessage' <=> FirstMessage) /\ \A k : Heard(k)' = Heard(k)
      /\ Words' = Words /\ (InHeader' <=> InHeader) /\ Read(heard)' = Read(heard)
  BY <1>1 DEF FirstMessage, Plain, Heard, Words, InHeader
<1>3. LineTold' /\ BodyTold'
  BY <1>1, <1>2 DEF MessageTold, LineTold, BodyTold
<1>4. HeadersTold'
  BY <1>1, <1>2 DEF MessageTold, HeadersTold
<1> QED BY <1>3, <1>4 DEF MessageTold

\* What save_current_header tells: the header in progress, and no other.
LEMMA SavedTold ==
    ASSUME Shape, NEW word, ToLower(field) = <<word>>
    PROVE  /\ Saved.target = ctx.target /\ Saved.body = ctx.body
           /\ Saved.headers[<<word>>] = value
           /\ word = "host" => Saved.host = value
           /\ word # "host" => Saved.host = ctx.host
           /\ \A other \in Words : other # word /\ <<other>> \in DOMAIN ctx.headers =>
                 Saved.headers[<<other>>] = ctx.headers[<<other>>]
<1>1. word = "host" <=> <<word>> = Host
  BY DEF Host
<1>2. \A other : other # word => <<other>> # <<word>>
  OBVIOUS
<1>3. /\ Saved.target = ctx.target /\ Saved.body = ctx.body
      /\ Saved.host = IF <<word>> = Host THEN value ELSE ctx.host
      /\ Saved.headers = [n \in DOMAIN ctx.headers \cup {<<word>>} |->
                             IF n = <<word>> THEN value ELSE ctx.headers[n]]
  BY DEF Shape, EmptyContext, Saved
<1> QED BY <1>1, <1>2, <1>3

\* The header in progress has a value, or the headers end: it is saved, and then
\* every header is told.
LEMMA LastHeaderTold ==
    ASSUME IInv, HeadersTold, FirstMessage, lex.at = "value", ctx' = Saved
    PROVE  /\ \A word \in Words :
                 /\ ctx'.headers[<<word>>] = Read(heard).said[word]
                 /\ word = "host" => ctx'.host = Read(heard).said[word]
           /\ "host" \notin Words => ctx'.host = <<>>
<1> DEFINE read == Read(heard)
<1>1. /\ InHeader /\ lex.name = ToLower(field) /\ Shape
  BY DEF IInv, HeaderInStep, FirstMessage, InHeader
<1>2. /\ \A word \in Words : word # read.word =>
            /\ ctx.headers[<<word>>] = read.said[word]
            /\ word = "host" => ctx.host = read.said[word]
      /\ "host" \notin Words => ctx.host = <<>>
      /\ ToLower(field) = <<read.word>> /\ read.word \in Words
      /\ value = read.said[read.word]
  BY <1>1 DEF HeadersTold
<1>3. \A word \in Words : word # read.word => <<word>> \in DOMAIN ctx.headers
  <2>1. {<<word>> : word \in Words} =
           DOMAIN ctx.headers \cup {name \in {ToLower(field)} : InHeader}
    BY DEF IInv, NamesSaved, FirstMessage
  <2>2. \A word : <<word>> = <<read.word>> => word = read.word
    OBVIOUS
  <2> QED BY <1>2, <2>1, <2>2
<1>4. ASSUME NEW word \in Words
      PROVE  /\ ctx'.headers[<<word>>] = read.said[word]
             /\ word = "host" => ctx'.host = read.said[word]
  <2> HIDE DEF read
  <2>1. CASE word = read.word
    BY <1>1, <1>2, <2>1, SavedTold
  <2>2. CASE word # read.word
    BY <1>1, <1>2, <1>3, <2>2, SavedTold
  <2> QED BY <2>1, <2>2
<1>5. ASSUME "host" \notin Words PROVE ctx'.host = <<>>
  BY <1>1, <1>2, <1>5, SavedTold
<1> QED BY <1>4, <1>5

\* A name begins: the header before it is saved, if there is one.
LEMMA OnHeaderFieldTold ==
    ASSUME IInv, MessageTold, NEW piece \in Names, OnHeaderField(piece)
    PROVE  MessageTold'
<1> DEFINE parser == [lex EXCEPT !.at = "field", !.trailing = @ \/ lex.at = "body",
                        !.name = IF lex.at = "field" THEN <<>> ELSE <<piece.word>>]
           read == Read(heard)
<1>1. /\ Callback("field", piece, BeforeName) /\ Count(1, parser)
      /\ IF value # <<>>
         THEN ctx' = Saved /\ field' = <<piece>> /\ value' = <<>>
         ELSE field' = Append(field, piece) /\ ctx' = ctx /\ value' = value
  BY DEF OnHeaderField
<1> SUFFICES ASSUME FirstMessage' PROVE MessageTold'
  BY DEF MessageTold, LineTold, HeadersTold, BodyTold
<1>2. /\ FirstMessage /\ heard # <<>> /\ lex.at \in {"line", "value"}
      /\ lex.at = "value" => value # <<>>
      /\ lex.at = "line" => value = <<>> /\ field = <<>>
  <2>1. FirstMessage
    BY <1>1, MessageGoesOn
  <2>2. BeforeName \subseteq {"line", "value", "body"} \cup Resumed("field")
    BY DEF BeforeName
  <2> QED BY <1>1, <2>1, <2>2, PlainName DEF FirstMessage
<1>3. /\ lex'.at = "field" /\ lex'.name = <<piece.word>>
      /\ lex'.method = lex.method /\ lex'.version = lex.version
  <2>1. lex' = parser
    <3>1. /\ DOMAIN parser = DOMAIN FreshParser
          /\ lex' = parser \/ lex' = [parser EXCEPT !.error = "HPE_USER"]
      BY <1>1 DEF IInv, Shape, Count
    <3>2. lex'.error = "HPE_OK"
      BY DEF FirstMessage
    <3> QED BY <3>1, <3>2 DEF FreshParser
  <2> QED BY <1>2, <2>1 DEF IInv, Shape, FreshParser
<1>4. ctx'.target = ctx.target /\ ctx'.body = ctx.body
  BY <1>1 DEF Saved, IInv, Shape, EmptyContext
<1>5. LineTold'
  BY <1>1, <1>3, <1>4, LineGoesOn DEF MessageTold
<1>6. BodyTold'
  <2>1. "start" \notin BeforeName
    BY DEF BeforeName, Resumed
  <2> QED BY <1>1, <1>4, <2>1, BodyGoesOn DEF MessageTold
<1>7. Hears("field", piece) /\ heard \in Seq(Range(heard))
  BY <1>1, CallbackHears
<1>8. /\ Words' = Words \cup {piece.word}
      /\ Read(heard)'.word = piece.word
      /\ Read(heard)'.said = [word \in DOMAIN read.said \cup {piece.word} |->
                                 IF word = piece.word THEN <<>> ELSE read.said[word]]
  <2>1. Read(heard)' = ReadOn(read, [kind |-> "field", text |-> piece])
    BY <1>7, OneMoreRead
  <2> QED BY <1>7, <2>1, OneMoreWord DEF ReadOn
<1>9. /\ DOMAIN read.said = Words
      /\ \A word \in Words : ~(InHeader /\ word = read.word) =>
            /\ ctx.headers[<<word>>] = read.said[word]
            /\ word = "host" => ctx.host = read.said[word]
      /\ "host" \notin Words => ctx.host = <<>>
      /\ InHeader => /\ lex.name = <<read.word>> /\ read.word \in Words
                     /\ value = read.said[read.word]
  BY <1>2 DEF MessageTold, HeadersTold
\* The headers told now are all but the new one.
<1>10. /\ value' = <<>>
       /\ \A word \in Words :
             /\ ctx'.headers[<<word>>] = read.said[word]
             /\ word = "host" => ctx'.host = read.said[word]
       /\ "host" \notin Words => ctx'.host = <<>>
  <2>1. CASE lex.at = "line"
    <3>1. value = <<>> /\ ~InHeader
      BY <1>2, <2>1 DEF InHeader
    <3> QED BY <1>1, <1>9, <3>1
  <2>2. CASE lex.at = "value"
    <3>1. value # <<>>
      BY <1>2, <2>2
    <3>2. ctx' = Saved /\ value' = <<>>
      BY <1>1, <3>1
    <3> QED BY <1>2, <2>2, <3>2, LastHeaderTold DEF MessageTold
  <2> QED BY <1>2, <2>1, <2>2
<1>11. HeadersTold'
  <2>1. DOMAIN Read(heard)'.said = Words'
    BY <1>8, <1>9
  <2>2. InHeader' /\ lex'.name = <<Read(heard)'.word>> /\ Read(heard)'.word \in Words'
    BY <1>3, <1>8 DEF InHeader
  <2>3. value' = Read(heard)'.said[Read(heard)'.word]
    BY <1>8, <1>10
  <2>4. ASSUME NEW word \in Words', word # Read(heard)'.word
        PROVE  /\ ctx'.headers[<<word>>] = Read(heard)'.said[word]
               /\ word = "host" => ctx'.host = Read(heard)'.said[word]
    <3>1. word \in Words /\ Read(heard)'.said[word] = read.said[word]
      BY <1>8, <1>9, <2>4
    <3> QED BY <1>10, <3>1
  <2>5. "host" \notin Words' => ctx'.host = <<>>
    BY <1>8, <1>10
  <2> HIDE DEF read
  <2> QED BY <2>1, <2>2, <2>3, <2>4, <2>5 DEF HeadersTold
<1> QED BY <1>5, <1>6, <1>11 DEF MessageTold

\* A value goes on: the codec and the reader append it to the same header.
LEMMA OnHeaderValueTold ==
    ASSUME IInv, MessageTold, NEW text \in LexValues, OnHeaderValue(text)
    PROVE  MessageTold'
<1> DEFINE due == CASE lex.name = ContentLength -> Stoull[text[1]]
                    [] lex.name = TransferEncoding -> Chunked
                    [] OTHER -> lex.due
           parser == [lex EXCEPT !.at = "value", !.due = due]
           read == Read(heard)
<1>1. /\ Callback("value", text, {"field", "value"}) /\ Count(Len(text), parser)
      /\ value' = value \o text /\ ctx' = ctx
  BY DEF OnHeaderValue
<1> HIDE DEF due
<1> SUFFICES ASSUME FirstMessage' PROVE MessageTold'
  BY DEF MessageTold, LineTold, HeadersTold, BodyTold
<1>2. FirstMessage /\ InHeader
  <2>1. lex.at \in {"field", "value"}
    BY <1>1 DEF Callback
  <2> QED BY <1>1, <2>1, MessageGoesOn DEF InHeader
<1>3. /\ lex'.at = "value" /\ lex'.name = lex.name
      /\ lex'.method = lex.method /\ lex'.version = lex.version
  <2>1. lex' = parser
    <3>1. /\ DOMAIN parser = DOMAIN FreshParser
          /\ lex' = parser \/ lex' = [parser EXCEPT !.error = "HPE_USER"]
      BY <1>1 DEF IInv, Shape, Count
    <3>2. lex'.error = "HPE_OK"
      BY DEF FirstMessage
    <3> QED BY <3>1, <3>2 DEF FreshParser
  <2> QED BY <2>1 DEF IInv, Shape, FreshParser
<1>4. LineTold'
  BY <1>1, <1>3, LineGoesOn DEF MessageTold
<1>5. BodyTold'
  <2>1. "start" \notin {"field", "value"}
    OBVIOUS
  <2> QED BY <1>1, <2>1, BodyGoesOn DEF MessageTold
<1>6. /\ DOMAIN read.said = Words
      /\ \A word \in Words : word # read.word =>
            /\ ctx.headers[<<word>>] = read.said[word]
            /\ word = "host" => ctx.host = read.said[word]
      /\ "host" \notin Words => ctx.host = <<>>
      /\ lex.name = <<read.word>> /\ read.word \in Words
      /\ value = read.said[read.word]
  BY <1>2 DEF MessageTold, HeadersTold
<1>7. /\ Words' = Words
      /\ Read(heard)' = [word |-> read.word,
                          said |-> [read.said EXCEPT ![read.word] = @ \o text]]
  <2>1. Hears("value", text) /\ heard \in Seq(Range(heard))
    BY <1>1, CallbackHears
  <2>2. Read(heard)' = ReadOn(read, [kind |-> "value", text |-> text])
    BY <2>1, OneMoreRead
  <2> QED BY <2>1, <2>2, OneMoreWord DEF ReadOn
<1>8. /\ Read(heard)'.word = read.word /\ DOMAIN Read(heard)'.said = Words
      /\ Read(heard)'.said[read.word] = value'
      /\ \A word \in Words : word # read.word =>
            Read(heard)'.said[word] = read.said[word]
  BY <1>1, <1>6, <1>7
<1>9. HeadersTold'
  <2>1. InHeader'
    BY <1>3 DEF InHeader
  <2> QED BY <1>1, <1>3, <1>6, <1>7, <1>8, <2>1 DEF HeadersTold
<1> QED BY <1>4, <1>5, <1>9 DEF MessageTold

\* The headers end: the last one is saved, also without a value.
LEMMA OnHeadersCompleteTold ==
    ASSUME IInv, MessageTold, OnHeadersComplete
    PROVE  MessageTold'
<1> DEFINE read == Read(heard)
<1>1. /\ Callback("complete", <<>>, {"line", "value"})
      /\ ctx' = IF field # <<>> THEN Saved ELSE ctx
      /\ lex'.at = "body" /\ lex'.method = lex.method /\ lex'.version = lex.version
  BY DEF OnHeadersComplete, IInv, Shape, FreshParser
<1> SUFFICES ASSUME FirstMessage' PROVE MessageTold'
  BY DEF MessageTold, LineTold, HeadersTold, BodyTold
<1>2. FirstMessage /\ lex.at \in {"line", "value"}
  <2>1. lex.at \in {"line", "value"}
    BY <1>1 DEF Callback
  <2> QED BY <1>1, <2>1, MessageGoesOn
<1>3. ctx'.target = ctx.target /\ ctx'.body = ctx.body
  BY <1>1 DEF Saved, IInv, Shape, EmptyContext
<1>4. LineTold'
  BY <1>1, <1>3, LineGoesOn DEF MessageTold
<1>5. BodyTold'
  <2>1. "start" \notin {"line", "value"}
    OBVIOUS
  <2> QED BY <1>1, <1>3, <2>1, BodyGoesOn DEF MessageTold
<1>6. Words' = Words /\ Read(heard)' = read
  <2>1. Hears("complete", <<>>) /\ heard \in Seq(Range(heard))
    BY <1>1, CallbackHears
  <2>2. Read(heard)' = ReadOn(read, [kind |-> "complete", text |-> <<>>])
    BY <2>1, OneMoreRead
  <2> QED BY <2>1, <2>2, OneMoreWord DEF ReadOn
<1>7. /\ DOMAIN read.said = Words
      /\ \A word \in Words : ~(InHeader /\ word = read.word) =>
            /\ ctx.headers[<<word>>] = read.said[word]
            /\ word = "host" => ctx.host = read.said[word]
      /\ "host" \notin Words => ctx.host = <<>>
      /\ InHeader => /\ lex.name = <<read.word>> /\ read.word \in Words
                     /\ value = read.said[read.word]
  BY <1>2 DEF MessageTold, HeadersTold
<1>8. /\ \A word \in Words :
            /\ ctx'.headers[<<word>>] = read.said[word]
            /\ word = "host" => ctx'.host = read.said[word]
      /\ "host" \notin Words => ctx'.host = <<>>
  <2>1. CASE lex.at = "line"
    <3>1. field = <<>> /\ ~InHeader
      BY <1>2, <2>1 DEF IInv, HeaderInStep, InHeader, FirstMessage
    <3> QED BY <1>1, <1>7, <3>1
  <2>2. CASE lex.at = "value"
    <3>1. Len(field) = 1
      BY <1>2, <2>2 DEF IInv, HeaderInStep, InHeader, FirstMessage
    <3>2. ctx' = Saved
      <4>1. field # <<>>
        BY <3>1, EmptySeq
      <4> QED BY <1>1, <4>1
    <3> QED BY <1>2, <2>2, <3>2, LastHeaderTold DEF MessageTold
  <2> QED BY <1>2, <2>1, <2>2
<1>9. HeadersTold'
  <2>1. ~InHeader'
    BY <1>1 DEF InHeader
  <2> QED BY <1>6, <1>7, <1>8, <2>1 DEF HeadersTold
<1> QED BY <1>4, <1>5, <1>9 DEF MessageTold

\* Every reachable state tells the message as it was sent.
THEOREM MessageInvariant == Spec => []MessageTold
<1>1. Init => MessageTold
  BY NothingTold DEF Init
<1>2. IInv /\ MessageTold /\ [Next]_vars => MessageTold'
  <2> SUFFICES ASSUME IInv, MessageTold, [Next]_vars PROVE MessageTold'
    OBVIOUS
  <2> DEFINE Quiet == heard' = <<>> \/ lex'.error # "HPE_OK"
  <2>0. ASSUME Quiet PROVE MessageTold'
    BY <2>0 DEF MessageTold, LineTold, HeadersTold, BodyTold, FirstMessage, Plain
  <2>1. CASE Parse
    BY <2>0, <2>1 DEF Parse
  <2>2. CASE Reset
    BY <2>0, <2>2 DEF Reset
  <2>3. CASE Return
    BY <2>3, ReturnTold
  <2>4. ASSUME NEW error \in {"HPE_INVALID_URL", "HPE_OTHER"}, LexError(error)
        PROVE  MessageTold'
    <3>1. lex'.error # "HPE_OK"
      BY <2>4 DEF LexError, IInv, Shape, FreshParser
    <3> QED BY <2>0, <3>1
  <2>5. ASSUME NEW line \in RequestLines, OnMessageBegin(line) PROVE MessageTold'
    BY <2>5, OnMessageBeginTold
  <2>6. ASSUME NEW line \in RequestLines, OnUrl(line) PROVE MessageTold'
    BY <2>6, OnUrlTold
  <2>7. ASSUME NEW version \in Versions, RequestLineEnds(version) PROVE MessageTold'
    BY <2>7, RequestLineEndsTold
  <2>8. ASSUME NEW piece \in Names, OnHeaderField(piece) PROVE MessageTold'
    BY <2>8, OnHeaderFieldTold
  <2>9. ASSUME NEW text \in LexValues, OnHeaderValue(text) PROVE MessageTold'
    BY <2>9, OnHeaderValueTold
  <2>10. CASE OnHeadersComplete
    BY <2>10, OnHeadersCompleteTold
  <2>11. ASSUME NEW size \in 1..MaxChunk, OnBody(size) PROVE MessageTold'
    BY <2>11, OnBodyTold
  <2>12. CASE OnMessageComplete
    BY <2>12, OnMessageCompleteTold
  <2>13. CASE UNCHANGED vars
    <3>1. lex' = lex /\ ctx' = ctx /\ value' = value /\ heard' = heard
      BY <2>13 DEF vars, header
    <3>2. /\ (FirstMessage' <=> FirstMessage) /\ \A k : Heard(k)' = Heard(k)
          /\ Words' = Words /\ (InHeader' <=> InHeader) /\ Read(heard)' = Read(heard)
      BY <3>1 DEF FirstMessage, Plain, Heard, Words, InHeader
    <3>3. LineTold' /\ BodyTold'
      BY <3>1, <3>2 DEF MessageTold, LineTold, BodyTold
    <3>4. HeadersTold'
      BY <3>1, <3>2 DEF MessageTold, HeadersTold
    <3> QED BY <3>3, <3>4 DEF MessageTold
  <2> QED BY <2>1, <2>2, <2>3, <2>4, <2>5, <2>6, <2>7, <2>8, <2>9, <2>10, <2>11, <2>12,
             <2>13
          DEF Next
<1> QED BY <1>1, <1>2, Invariant, PTL DEF Spec

\* A plain message - no header follows one with an empty value, and no trailers
\* follow the body - that arrives whole in one buffer and is accepted is told as
\* it was sent: target, method, version, the last header of each name in any
\* spelling, host and body, whatever the codec has parsed before, with or without
\* reset().
THEOREM ContextFaithfulCorrect == Spec => []ContextFaithful
<1>1. Init => ContextFaithful
  BY DEF Init, ContextFaithful
<1>2. IInv /\ IInv' /\ MessageTold' /\ ContextFaithful /\ [Next]_vars => ContextFaithful'
  <2> SUFFICES ASSUME IInv, IInv', MessageTold', ContextFaithful, [Next]_vars,
                      ~executing', result' = "kSuccess", Plain', WholeMessage'
               PROVE  ContextFaithful'
    BY DEF ContextFaithful
  <2>1. CASE Return
    <3>1. /\ executing = TRUE /\ result' = Outcome /\ lex' = lex /\ heard' = heard
          /\ lex.error = "HPE_OK" => ~(lex.at = "body" /\ lex.due \in {NoLength, 0})
      BY <2>1 DEF Return, IInv, TypeOK
    <3>2. lex.error = "HPE_OK" /\ parseError = "kSuccess"
      BY <3>1 DEF Outcome, IInv, WithinLimits
    <3>3. ctx'.version = lex.version /\ ctx'.method = lex.method
      BY <2>1, <3>2 DEF Return, IInv, Shape, EmptyContext
    <3>4. heard' \in Seq(Range(heard'))
      BY DEF IInv, Shape
    <3>5. FirstMessage'
      <4>1. Heard("begin")' = {1}
        <5>1. Cardinality(Heard("begin")') = 1
          BY DEF WholeMessage
        <5>2. 1 \in Heard("begin")'
          <6>1. Len(heard') \in Nat /\ Len(heard') # 0 /\ DOMAIN heard' = 1..Len(heard')
            BY <3>4, EmptySeq, LenProperties DEF Plain
          <6> QED BY <6>1 DEF Plain, Heard
        <5>3. IsFiniteSet(Heard("begin")')
          <6>1. IsFiniteSet(1..Len(heard')) /\ DOMAIN heard' = 1..Len(heard')
            BY <3>4, FS_Interval, LenProperties
          <6>2. Heard("begin")' \subseteq DOMAIN heard'
            BY DEF Heard
          <6> QED BY <6>1, <6>2, FS_Subset
        <5> QED BY <5>1, <5>2, <5>3, FS_Singleton
      <4> QED BY <3>1, <3>2, <4>1 DEF WholeMessage, FirstMessage
    <3>6. Heard("done")' # {} /\ lex'.at = "start" /\ ~InHeader'
      <4>1. Heard("done")' # {}
        BY DEF WholeMessage
      <4> QED BY <3>5, <4>1 DEF MessageTold, BodyTold, InHeader
    <3>7. /\ ctx'.target = <<heard'[1].text.target>>
          /\ ctx'.method = heard'[1].text.method
          /\ \A i \in Heard("version")' : ctx'.version = heard'[i].text
      BY <3>1, <3>3, <3>5 DEF MessageTold, LineTold
    <3>8. /\ DOMAIN ctx'.headers = {<<word>> : word \in DOMAIN Read(heard)'.said}
          /\ \A word \in DOMAIN Read(heard)'.said :
                ctx'.headers[<<word>>] = Read(heard)'.said[word]
          /\ ctx'.host = IF "host" \in DOMAIN Read(heard)'.said
                         THEN Read(heard)'.said["host"] ELSE <<>>
      <4>1. {<<word>> : word \in Words'} = DOMAIN ctx'.headers
        BY <3>5, <3>6 DEF IInv, NamesSaved, FirstMessage
      <4>2. /\ DOMAIN Read(heard)'.said = Words'
            /\ \A word \in Words' :
                  /\ ctx'.headers[<<word>>] = Read(heard)'.said[word]
                  /\ word = "host" => ctx'.host = Read(heard)'.said[word]
            /\ "host" \notin Words' => ctx'.host = <<>>
        BY <3>5, <3>6 DEF MessageTold, HeadersTold
      <4> QED BY <4>1, <4>2
    <3>9. Cardinality(Heard("body")') <= 1 =>
             ctx'.body = IF Heard("body")' = {} THEN 0
                         ELSE heard'[CHOOSE i \in Heard("body")' : TRUE].text
      <4> SUFFICES ASSUME Cardinality(Heard("body")') <= 1, Heard("body")' # {}
                   PROVE  ctx'.body = heard'[CHOOSE i \in Heard("body")' : TRUE].text
        BY <3>5 DEF MessageTold, BodyTold
      <4>1. PICK i \in Heard("body")' : ctx'.body = heard'[i].text
        BY <3>5 DEF MessageTold, BodyTold
      <4>2. IsFiniteSet(Heard("body")')
        <5>1. IsFiniteSet(1..Len(heard')) /\ DOMAIN heard' = 1..Len(heard')
          BY <3>4, FS_Interval, LenProperties
        <5>2. Heard("body")' \subseteq DOMAIN heard'
          BY DEF Heard
        <5> QED BY <5>1, <5>2, FS_Subset
      <4>3. Cardinality(Heard("body")') = 1
        BY <4>1, <4>2, FS_CardinalityType, FS_EmptySet
      <4>4. Heard("body")' = {i}
        BY <4>1, <4>2, <4>3, FS_Singleton
      <4> QED BY <4>1, <4>4
    <3> QED BY <3>7, <3>8, <3>9 DEF ContextFaithful, HasHeaders
  <2>2. CASE UNCHANGED vars
    <3>1. executing' = executing /\ ctx' = ctx /\ result' = result /\ heard' = heard
      BY <2>2 DEF vars
    <3>2. /\ (WholeMessage' <=> WholeMessage) /\ (Plain' <=> Plain)
          /\ Read(heard)' = Read(heard) /\ \A k : Heard(k)' = Heard(k)
      BY <3>1 DEF WholeMessage, Plain, Heard
    <3>3. ContextFaithful
      OBVIOUS
    <3> QED BY <3>1, <3>2, <3>3 DEF ContextFaithful, HasHeaders
  <2>3. CASE Parse \/ Reset
    <3>1. heard' = <<>>
      BY <2>3 DEF Parse, Reset
    <3> QED BY <3>1 DEF WholeMessage
  <2>4. CASE ~(Parse \/ Reset \/ Return \/ UNCHANGED vars)
    <3>1. executing' = executing /\ executing = TRUE
      BY <2>4 DEF Next, LexError, OnMessageBegin, OnUrl, RequestLineEnds,
         OnHeaderField, OnHeaderValue, OnHeadersComplete, OnBody, OnMessageComplete,
         Callback, IInv, TypeOK
    <3> QED BY <3>1
  <2> QED BY <2>1, <2>2, <2>3, <2>4
<1> QED BY <1>1, <1>2, Invariant, MessageInvariant, PTL DEF Spec
=============================================================================
