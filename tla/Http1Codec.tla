----------------------------- MODULE Http1Codec -----------------------------
(***************************************************************************)
(* Http1Codec of src/protocol/http1_codec.cpp: parse(), reset() and the    *)
(* callbacks that fill a RequestContext while llhttp_execute runs over one *)
(* buffer.  A call is Parse, then one action per callback, then Return.    *)
(* The codec may be called again with the next buffer of the same          *)
(* connection: llhttp goes on where it stopped, parse() starts afresh.     *)
(*                                                                         *)
(* llhttp is external: lex is what it remembers from one buffer to the     *)
(* next, and it makes callbacks in the order its grammar allows.  A        *)
(* buffer may end after any of them; in a new buffer a name, a value or a  *)
(* target may go on where it was cut.  A text is a sequence of pieces of   *)
(* length one; a piece of a name is a word in one of its spellings.        *)
(***************************************************************************)
EXTENDS Integers, SequencesExt

CONSTANTS
    MaxHeaderSize, MaxHeaders, RequireHostHeader,   \* Http1CodecConfig
    RequestLines,   \* [method, target] a client may send
    Versions,       \* of HTTP: 10 for 1.0, 11 for 1.1
    Names,          \* pieces of header names: [word, upper]
    Values,         \* pieces of values of ordinary headers
    Stoull,         \* the lengths a client may announce, as text |-> number
    MaxChunk,       \* bound on the length of a chunk
    MaxHeard        \* bound on the callbacks of one call

ASSUME ConfigAssumption ==
    /\ MaxHeaderSize \in Nat /\ MaxHeaders \in Nat
    /\ RequireHostHeader \in BOOLEAN

\* std::stoull returns an unsigned number.
ASSUME LengthsAssumption ==
    MaxChunk \in Nat /\ \A text \in DOMAIN Stoull : Stoull[text] \in Nat

VARIABLES
    lex,            \* parser_: position, name, version, method, body due,
                    \* whether in the trailers, error
    executing,      \* inside parse()
    ctx,            \* the RequestContext
    field, value,   \* current_header_field_, current_header_value_
    total,          \* total_header_size_
    parseError,     \* parse_error_
    result,         \* what the last parse() returned
    heard           \* ghost: the callbacks of this call

header == <<field, value, total, parseError>>
vars == <<lex, executing, ctx, header, result, heard>>

Host             == <<"host">>
ContentLength    == <<"content-length">>
TransferEncoding == <<"transfer-encoding">>

\* Values of content_length and of the body that llhttp expects.
NoLength == -1
Chunked  == -2

EmptyContext ==
    [method |-> "", target |-> <<>>, version |-> 0, host |-> <<>>,
     headers |-> <<>>, body |-> 0, contentLength |-> NoLength]

\* llhttp_init: method 0 is DELETE.
FreshParser ==
    [at |-> "start", name |-> <<>>, version |-> 0, method |-> "DELETE",
     due |-> NoLength, trailing |-> FALSE, error |-> "HPE_OK"]

Init ==
    /\ lex = FreshParser
    /\ executing = FALSE
    /\ ctx = EmptyContext
    /\ field = <<>> /\ value = <<>>
    /\ total = 0
    /\ parseError = "kSuccess"
    /\ result = "none"
    /\ heard = <<>>

-----------------------------------------------------------------------------
(* parse() up to llhttp_execute, and reset().                              *)

ClearHeader_KeepsField ==
    /\ UNCHANGED <<field, value>>
    /\ total' = 0
    /\ parseError' = "kSuccess"

ClearHeader_KeepsTotal ==
    /\ field' = <<>> /\ value' = <<>>
    /\ UNCHANGED total
    /\ parseError' = "kSuccess"

ClearHeader ==
    /\ field' = <<>> /\ value' = <<>>
    /\ total' = 0
    /\ parseError' = "kSuccess"

Parse ==
    /\ ~executing
    /\ executing' = TRUE
    /\ ctx' = EmptyContext
    /\ ClearHeader
    /\ result' = "none" /\ heard' = <<>>
    /\ UNCHANGED lex

\* The caller's context is left alone; parse() is given one each time.
Reset ==
    /\ ~executing
    /\ lex' = FreshParser
    /\ ClearHeader
    /\ result' = "none" /\ heard' = <<>>
    /\ UNCHANGED <<executing, ctx>>

-----------------------------------------------------------------------------
(* The callbacks.                                                          *)

\* llhttp makes this callback when it is in one of these positions.
Callback(kind, text, positions) ==
    /\ executing
    /\ lex.error = "HPE_OK"
    /\ Len(heard) < MaxHeard
    /\ lex.at \in positions
    /\ heard' = Append(heard, [kind |-> kind, text |-> text])
    /\ UNCHANGED <<executing, result>>

\* At the start of a buffer llhttp goes on with what the last one cut.
Resumed(at) == IF heard = <<>> THEN {at} ELSE {}

OnMessageBegin(line) ==
    /\ Callback("begin", line, {"start"})
    /\ lex' = [lex EXCEPT !.at = "url", !.method = line.method, !.due = NoLength,
                          !.trailing = FALSE]
    /\ ctx' = [ctx EXCEPT !.target = Append(@, line.target)]
    /\ UNCHANGED header

\* on_url for the rest of a target.
OnUrl(line) ==
    /\ Callback("url", line, Resumed("url"))
    /\ ctx' = [ctx EXCEPT !.target = Append(@, line.target)]
    /\ UNCHANGED <<lex, header>>

\* The end of the request line, for which no callback is registered.
RequestLineEnds(version) ==
    /\ Callback("version", version, {"url"})
    /\ lex' = [lex EXCEPT !.at = "line", !.version = version]
    /\ UNCHANGED <<ctx, header>>

ToLower(name) == [i \in DOMAIN name |-> name[i].word]

\* save_current_header().  A length that stoull does not read is ignored.
Saved ==
    LET name == ToLower(field)
        isLength == name = ContentLength /\ Len(value) = 1 /\ value[1] \in DOMAIN Stoull
    IN  [ctx EXCEPT !.host = IF name = Host THEN value ELSE @,
                    !.contentLength = IF isLength THEN Stoull[value[1]] ELSE @,
                    !.headers = [n \in DOMAIN @ \cup {name} |->
                                    IF n = name THEN value ELSE @[n]]]

Count_GoesOn(length, parser) ==
    /\ total' = total + length
    /\ parseError' = IF total' > MaxHeaderSize THEN "kHeaderTooLarge" ELSE parseError
    /\ lex' = parser

\* Counts what was appended and makes llhttp fail when it is too much.
Count(length, parser) ==
    /\ total' = total + length
    /\ IF total' > MaxHeaderSize
       THEN /\ parseError' = "kHeaderTooLarge"
            /\ lex' = [parser EXCEPT !.error = "HPE_USER"]
       ELSE /\ lex' = parser
            /\ UNCHANGED parseError

\* Where llhttp may find a name: in the headers, or after the last chunk, where
\* trailers are told like headers but not followed by on_headers_complete.
BeforeName ==
    {"line", "value"} \cup Resumed("field") \cup {at \in {"body"} : lex.due = Chunked}

\* A header is saved when the next name begins, if its value is not empty.
OnHeaderField(piece) ==
    /\ Callback("field", piece, BeforeName)
    /\ IF value # <<>>
       THEN ctx' = Saved /\ field' = <<piece>> /\ value' = <<>>
       ELSE field' = Append(field, piece) /\ UNCHANGED <<ctx, value>>
    /\ Count(1, [lex EXCEPT !.at = "field", !.trailing = @ \/ lex.at = "body",
                            !.name = IF lex.at = "field" THEN <<>> ELSE <<piece.word>>])

\* What llhttp lets pass as a value: it checks by itself that a message has
\* one length, which is a number, and any other value may be folded.
LexValues ==
    CASE lex.name = ContentLength ->
            {<<n>> : n \in {d \in DOMAIN Stoull : lex.due = NoLength}}
      [] lex.name = TransferEncoding ->
            {<<c>> : c \in {d \in {"chunked"} : lex.due = NoLength}}
      [] OTHER -> {<<v>> : v \in Values} \cup {v \in {<<>>} : lex.at = "field"}

OnHeaderValue(text) ==
    /\ Callback("value", text, {"field", "value"})
    /\ value' = value \o text
    /\ Count(Len(text),
             [lex EXCEPT !.at = "value",
                         !.due = CASE lex.name = ContentLength -> Stoull[text[1]]
                                   [] lex.name = TransferEncoding -> Chunked
                                   [] OTHER -> @])
    /\ UNCHANGED <<ctx, field>>

\* The last header is saved, also without a value, and the names are counted.
OnHeadersComplete ==
    LET saves == field # <<>>
        tooMany == Cardinality(DOMAIN ctx'.headers) > MaxHeaders
    IN  /\ ~lex.trailing
        /\ Callback("complete", <<>>, {"line", "value"})
        /\ ctx' = IF saves THEN Saved ELSE ctx
        /\ field' = <<>>
        /\ value' = IF saves THEN <<>> ELSE value
        /\ parseError' = IF tooMany THEN "kTooManyHeaders" ELSE parseError
        /\ lex' = [lex EXCEPT !.at = "body", !.name = <<>>,
                              !.error = IF tooMany THEN "HPE_CB_HEADERS_COMPLETE" ELSE @]
        /\ UNCHANGED total

\* ctx.body is a view of the last piece.  A body of known length comes in one
\* piece per buffer, a chunked one chunk by chunk.
OnBody(size) ==
    /\ \/ lex.due = Chunked
       \/ size <= lex.due /\ \A i \in DOMAIN heard : heard[i].kind # "body"
    /\ Callback("body", size, {"body"})
    /\ ctx' = [ctx EXCEPT !.body = size]
    /\ lex' = [lex EXCEPT !.due = IF @ = Chunked THEN @ ELSE @ - size]
    /\ UNCHANGED header

\* No body is due, or the last chunk has been read, and the trailers too; the
\* codec does not save the last of them.
OnMessageComplete ==
    /\ lex.due \in {NoLength, 0, Chunked}
    /\ Callback("done", <<>>, IF lex.trailing THEN {"value"} ELSE {"body"})
    /\ lex' = [lex EXCEPT !.at = "start"]
    /\ UNCHANGED <<ctx, header>>

\* llhttp finds an error by itself; the codec tells those in the request line
\* (of which the URL's stands for three) from all others.
LexError(error) ==
    /\ executing /\ lex.error = "HPE_OK"
    /\ error = "HPE_INVALID_URL" => lex.at \in {"start", "url"}
    /\ lex' = [lex EXCEPT !.error = error]
    /\ UNCHANGED <<executing, ctx, header, result, heard>>

-----------------------------------------------------------------------------
(* parse() after llhttp_execute.                                           *)

LengthAgrees_WithoutBody ==
    ctx.contentLength # NoLength /\ ctx.body # 0 => ctx.body = ctx.contentLength

LengthAgrees == ctx.contentLength # NoLength => ctx.body = ctx.contentLength

\* A version of HTTP is ten times its major number plus its minor one.
NeedsHost == lex.version \div 10 = 1 /\ lex.version % 10 >= 1

\* The order of the checks decides which error is reported.
Outcome ==
    IF lex.error = "HPE_INVALID_URL" THEN "kInvalidRequestLine"
    ELSE IF lex.error # "HPE_OK" THEN "kInternalError"
    ELSE IF parseError # "kSuccess" THEN parseError
    ELSE IF RequireHostHeader /\ NeedsHost /\ ctx.host = <<>> THEN "kMissingHost"
    ELSE IF ~LengthAgrees THEN "kContentLengthMismatch" ELSE "kSuccess"

\* The buffer is at its end, or llhttp has failed, in this call or before; a
\* message without a body is completed first.
Return ==
    /\ executing
    /\ lex.error = "HPE_OK" => ~(lex.at = "body" /\ lex.due \in {NoLength, 0})
    /\ executing' = FALSE
    /\ result' = Outcome
    /\ ctx' = IF lex.error = "HPE_OK" /\ parseError = "kSuccess"
              THEN [ctx EXCEPT !.version = lex.version, !.method = lex.method] ELSE ctx
    /\ UNCHANGED <<lex, header, heard>>

Next ==
    \/ Parse \/ Reset \/ Return
    \/ \E error \in {"HPE_INVALID_URL", "HPE_OTHER"} : LexError(error)
    \/ \E line \in RequestLines : OnMessageBegin(line) \/ OnUrl(line)
    \/ \E version \in Versions : RequestLineEnds(version)
    \/ \E piece \in Names : OnHeaderField(piece)
    \/ \E text \in LexValues : OnHeaderValue(text)
    \/ OnHeadersComplete
    \/ \E size \in 1..MaxChunk : OnBody(size)
    \/ OnMessageComplete

Spec == Init /\ [][Next]_vars

-----------------------------------------------------------------------------
(* Properties.                                                             *)

Errors == {"HPE_OK", "HPE_USER", "HPE_CB_HEADERS_COMPLETE", "HPE_INVALID_URL",
           "HPE_OTHER"}

Results ==
    {"kSuccess", "kNeedMoreData", "kInvalidRequestLine", "kMissingHost",
     "kHeaderTooLarge", "kTooManyHeaders", "kContentLengthMismatch",
     "kInternalError"}

\* Every variable has its type; no call counts more than one callback beyond
\* the limit.
TypeOK ==
    /\ lex.at \in {"start", "url", "line", "field", "value", "body"}
    /\ lex.error \in Errors
    /\ lex.due \in {NoLength, Chunked} \cup Nat
    /\ lex.trailing \in BOOLEAN
    /\ executing \in BOOLEAN
    /\ ctx.contentLength \in {NoLength} \cup {Stoull[n] : n \in DOMAIN Stoull}
    /\ ctx.body \in 0..MaxChunk
    /\ field \in Seq(Names)
    /\ value \in Seq(Values \cup DOMAIN Stoull \cup {"chunked"})
    /\ total \in 0..(MaxHeaderSize + 1)
    /\ parseError \in {"kSuccess", "kHeaderTooLarge", "kTooManyHeaders"}
    /\ result \in {"none"} \cup Results

Heard(kind) == {i \in DOMAIN heard : heard[i].kind = kind}

\* The call began with a message, and each name in it comes first or after a
\* value that is not empty: the codec appends a name that follows an empty
\* value to the name before it, and takes trailers for headers.
Plain ==
    /\ heard # <<>> /\ heard[1].kind = "begin"
    /\ \A i \in Heard("field") :
          \/ heard[i - 1].kind = "version"
          \/ heard[i - 1].kind = "value" /\ heard[i - 1].text # <<>>

WholeMessage ==
    /\ heard # <<>> /\ heard[1].kind = "begin"
    /\ Cardinality(Heard("begin")) = 1 /\ Heard("done") = {Len(heard)}

Words == {heard[i].text.word : i \in Heard("field")}

WordsUpTo(i) == {heard[k].text.word : k \in Heard("field") \cap 1..i}

\* What the callbacks say: the name begun last, and the value of every name.
\* A name that comes again says its value anew.
ReadOn(read, callback) ==
    LET text == callback.text
    IN  CASE callback.kind = "field" ->
               [word |-> text.word,
                said |-> [word \in DOMAIN read.said \cup {text.word} |->
                             IF word = text.word THEN <<>> ELSE read.said[word]]]
          [] callback.kind = "value" ->
               [word |-> read.word, said |-> [read.said EXCEPT ![read.word] = @ \o text]]
          [] OTHER -> read

Read(callbacks) ==
    LET upTo[n \in 0..Len(callbacks)] ==
            IF n = 0 THEN [word |-> "", said |-> <<>>]
                     ELSE ReadOn(upTo[n - 1], callbacks[n])
    IN  upTo[Len(callbacks)]

\* The context has these headers and no others.
HasHeaders(said) ==
    /\ DOMAIN ctx.headers = {<<word>> : word \in DOMAIN said}
    /\ \A word \in DOMAIN said : ctx.headers[<<word>>] = said[word]
    /\ ctx.host = IF "host" \in DOMAIN said THEN said["host"] ELSE <<>>

\* A plain message that arrives whole in one buffer and is accepted is told as
\* it was sent, whatever the codec has parsed before on this connection, with
\* or without reset(): nothing of an earlier call, an earlier message or
\* another header gets into it, and the last header of a name in any spelling
\* counts.  Of messages that are not plain, see AllHeadersTold.
ContextFaithful ==
    ~executing /\ result = "kSuccess" /\ Plain /\ WholeMessage =>
        /\ ctx.target = <<heard[1].text.target>>
        /\ ctx.method = heard[1].text.method
        /\ \A i \in Heard("version") : ctx.version = heard[i].text
        /\ HasHeaders(Read(heard).said)
        /\ Cardinality(Heard("body")) <= 1 =>
              ctx.body = IF Heard("body") = {} THEN 0
                         ELSE heard[CHOOSE i \in Heard("body") : TRUE].text

\* The comment on RequestContext::headers, "all headers": also those that come
\* after a header whose value is empty.  (Trailers are not asked for.)
AllHeadersTold ==
    /\ ~executing /\ result = "kSuccess" /\ WholeMessage
    /\ \A i \in Heard("field"), k \in Heard("complete") : i < k
    => HasHeaders(Read(heard).said)

\* A callback brings one piece of a name or a value, or an empty value.
SizeHeard ==
    Cardinality(Heard("field"))
      + Cardinality({i \in Heard("value") : heard[i].text # <<>>})

TooManyHeard == \E i \in Heard("complete") : Cardinality(WordsUpTo(i)) > MaxHeaders

\* A call stops at a header limit exactly when the headers that this call has
\* brought exceed it, and then does not accept: none is refused because of
\* headers that were counted in an earlier call.  (A request that is spread
\* over several calls is held to the limit in each.)
LimitsExact ==
    ~executing /\ heard # <<>> =>
        /\ lex.error = "HPE_USER" <=> SizeHeard > MaxHeaderSize
        /\ Plain => (lex.error = "HPE_CB_HEADERS_COMPLETE" <=> TooManyHeard)
        /\ lex.error # "HPE_OK" => result # "kSuccess"

\* The phase C guide: a request over a header limit is answered 400 or 431.
\* parse_error_to_http_status() answers so for all codes but these two.
LimitAnswered ==
    ~executing /\ lex.error \in {"HPE_USER", "HPE_CB_HEADERS_COMPLETE"} =>
        result \notin {"kSuccess", "kInternalError"}

\* A request whose announced body is cut by the end of the buffer is never
\* taken for a complete one.
CutBodyRefused ==
    /\ ~executing /\ result = "kSuccess" /\ Plain
    /\ Cardinality(Heard("begin")) = 1
    /\ \E i \in Heard("complete") : "content-length" \in WordsUpTo(i)
    => Heard("done") # {}
=============================================================================
