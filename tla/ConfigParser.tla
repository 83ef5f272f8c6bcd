---------------------------- MODULE ConfigParser ----------------------------
(***************************************************************************)
(* src/src/core/ConfigParser.cpp and, for what is posted, its counterpart  *)
(* M5ConfigParser.cpp: what they accept, what they name as missing, and    *)
(* what they make of it.  A document is a function from paths to values.   *)
(* Of the lists of rules and of post commands it has one element or none:  *)
(* the code treats the elements one by one and alike.                      *)
(***************************************************************************)
EXTENDS Integers, Sequences

CONSTANT Indeterminate   \* what an int may hold that nobody initialised
MaxInt == 2147483647
ASSUME ConfigAssumption ==
    Indeterminate # {} /\ \A n \in Indeterminate : n \in Int /\ n <= MaxInt

\* Texts and numbers.
Text(s) == [s |-> s, n |-> 0]
Num(n) == [s |-> "", n |-> n]

\* kind is "missing", "string", "uint", "int" (negative), "object", "array" or
\* "other": a fraction, a boolean, a number that is too large.
Value(kind, v) == [kind |-> kind, v |-> v]
Missing == Value("missing", Num(0))

\* What there can be in a document: the number of an array is its length.
Values ==
    [kind : {"missing", "object", "other"}, v : [s : STRING, n : Int]]
    \cup [kind : {"string"}, v : [s : STRING, n : {0}]]
    \cup [kind : {"uint"}, v : [s : {""}, n : Nat]]
    \cup [kind : {"int"}, v : [s : {""}, n : Int \ Nat]]
    \cup [kind : {"array"}, v : [s : {""}, n : {0, 1}]]

Rules == "commandSequence.rules"
Posts == "commandSequence.postCommands"

\* What is required, in the order in which it is looked at.
BridgeChecks == <<
    <<"uart", "object">>, <<"uart.portName", "string">>,
    <<"uart.baudRate", "uint">>, <<"uart.dataBits", "uint">>,
    <<"uart.parity", "string">>, <<"uart.stopBits", "uint">>,
    <<"telnetPort", "uint">> >>
RuleChecks == << <<"rule", "object">>, <<"rule.trigger", "string">>,
                 <<"rule.response", "string">> >>
PostChecks == << <<"post", "object">>, <<"post.command", "string">> >>
EndChecks == << <<"commandSequence.lineEnding", "string">>,
                <<"commandSequence.promptTimeoutMs", "uint">> >>

Is(doc, path, kind) == doc[path].kind = kind
HasElement(doc, list) == Is(doc, list, "array") /\ doc[list].v = Num(1)

SequenceChecks(doc) ==
    << <<"commandSequence", "object">>, <<Rules, "array">> >>
    \o (IF HasElement(doc, Rules) THEN RuleChecks ELSE <<>>)
    \o << <<Posts, "array">> >>
    \o (IF HasElement(doc, Posts) THEN PostChecks ELSE <<>>)
    \o EndChecks

\* The path that the error names, or "".
FirstFailure(checks, doc) ==
    LET Bad == {i \in 1..Len(checks) : ~Is(doc, checks[i][1], checks[i][2])}
    IN  IF Bad = {} THEN ""
        ELSE checks[CHOOSE i \in Bad : \A j \in Bad : i <= j][1]

SequenceError(doc) == FirstFailure(SequenceChecks(doc), doc)
ParseError(doc) == FirstFailure(BridgeChecks \o SequenceChecks(doc), doc)

-----------------------------------------------------------------------------
(* What is taken from a document that is accepted.                         *)

\* The members that are optional, with their defaults; one of another kind
\* than these counts as not given.
Defaults ==
    [path \in {"httpPort", "displayTimeoutMs", "wifi.ssid", "wifi.password", "logDir",
               "networkInterface", "post.expectedPrompt", "post.delayMs"} |->
        CASE path = "httpPort" -> Num(80)
          [] path = "displayTimeoutMs" -> Num(60000)
          [] path = "post.delayMs" -> Num(500)
          [] OTHER -> Text("")]
OptionalKind(path) ==
    IF path \in {"httpPort", "displayTimeoutMs", "post.delayMs"} THEN "uint"
    ELSE "string"
InWifi == {"wifi.ssid", "wifi.password"}

\* uint8_t and uint16_t members.
Narrow(path, v) ==
    CASE path \in {"uart.dataBits", "uart.stopBits"} -> Num(v.n % 256)
      [] path \in {"telnetPort", "httpPort"} -> Num(v.n % 65536)
      [] OTHER -> v

Given(doc, path) ==
    Is(doc, path, OptionalKind(path)) /\ (path \in InWifi => Is(doc, "wifi", "object"))
OptionalValue_Unchecked(doc, path) ==
    IF Is(doc, path, "missing") THEN Defaults[path] ELSE Narrow(path, doc[path].v)
OptionalValue(doc, path) ==
    IF Given(doc, path) THEN Narrow(path, doc[path].v) ELSE Defaults[path]

\* maxRetries has no default: it is then whatever the memory holds.
MaxRetries(doc) ==
    LET given == doc["wifi.maxRetries"]
    IN  IF /\ Is(doc, "wifi", "object")
           /\ given.kind \in {"uint", "int"} /\ given.v.n <= MaxInt
        THEN {given.v} ELSE {Num(n) : n \in Indeterminate}

RequiredOfBridge == {"uart.portName", "uart.baudRate", "uart.dataBits",
                     "uart.parity", "uart.stopBits", "telnetPort"}
OfRule == {"rule.trigger", "rule.response"}
OfPost == {"post.command", "post.expectedPrompt", "post.delayMs"}
OfSequence == OfRule \cup OfPost \cup
    {Rules, Posts, "commandSequence.lineEnding", "commandSequence.promptTimeoutMs"}
OfBridge == RequiredOfBridge \cup ((DOMAIN Defaults) \ OfPost)
Paths == OfSequence \cup OfBridge
    \cup {"uart", "wifi", "wifi.maxRetries", "commandSequence", "rule", "post"}

\* An element that is not there has no members.  A text is taken whole: one with
\* an embedded NUL, which GetString cuts there on Linux only, is not looked at.
NoElement == Text("no element")
Absent(doc, path) ==
    \/ path \in OfRule /\ ~HasElement(doc, Rules)
    \/ path \in OfPost /\ ~HasElement(doc, Posts)
Taken(doc, path) ==
    IF Absent(doc, path) THEN NoElement
    ELSE IF path \in DOMAIN Defaults THEN OptionalValue(doc, path)
    ELSE Narrow(path, doc[path].v)

SequenceOf(doc) == [path \in OfSequence |-> Taken(doc, path)]
\* The configurations that parseJson may return.
ParseJson(doc) ==
    { [path \in OfSequence \cup OfBridge \cup {"wifi.maxRetries"} |->
          IF path = "wifi.maxRetries" THEN retries ELSE Taken(doc, path)]
      : retries \in MaxRetries(doc) }

-----------------------------------------------------------------------------
(* Printing.                                                               *)

Kind(path) ==
    CASE path \in {"uart", "wifi", "commandSequence", "rule", "post"} -> "object"
      [] path \in {Rules, Posts} -> "array"
      [] path \in {"uart.baudRate", "uart.dataBits", "uart.stopBits", "telnetPort",
                   "httpPort", "displayTimeoutMs", "post.delayMs",
                   "commandSequence.promptTimeoutMs"} -> "uint"
      [] OTHER -> "string"

\* A member is left out if it belongs to an element that is not there, or is
\* one of the two that are printed only when they are not empty.
Printed(config, path) ==
    CASE path \in OfRule \cup {"rule"} -> config[Rules] = Num(1)
      [] path \in OfPost \cup {"post"} -> config[Posts] = Num(1)
      [] path \in {"logDir", "networkInterface"} -> config[path] # Text("")
      [] OTHER -> TRUE

PrintedValue(config, path) ==
    IF ~Printed(config, path) THEN Missing
    ELSE CASE path = "wifi.maxRetries" ->
                Value(IF config[path].n < 0 THEN "int" ELSE "uint", config[path])
           [] Kind(path) = "object" -> Value("object", Num(0))
           [] OTHER -> Value(Kind(path), config[path])

SerializeBridgeConfig(config) == [path \in Paths |-> PrintedValue(config, path)]

-----------------------------------------------------------------------------
(* The parser of the M5Stack, for what is posted.                          *)

M5Accepts(doc) ==
    /\ Is(doc, "commandSequence", "object")
    /\ Is(doc, Rules, "array")
    /\ HasElement(doc, Rules) =>
        /\ Is(doc, "rule", "object")
        /\ Is(doc, "rule.trigger", "string") /\ Is(doc, "rule.response", "string")
    /\ Is(doc, Posts, "array")
    /\ HasElement(doc, Posts) =>
        Is(doc, "post", "object") /\ Is(doc, "post.command", "string")
    /\ Is(doc, "commandSequence.lineEnding", "string")
    /\ Is(doc, "commandSequence.promptTimeoutMs", "uint")

M5Value(doc, path) ==
    IF \/ path \in OfRule /\ doc[Rules].v = Num(0)
       \/ path \in OfPost /\ doc[Posts].v = Num(0)
    THEN NoElement
    ELSE CASE path = "post.expectedPrompt" ->
                IF Is(doc, path, "string") THEN doc[path].v ELSE Text("")
           [] path = "post.delayMs" ->
                IF Is(doc, path, "uint") THEN doc[path].v ELSE Num(500)
           [] OTHER -> doc[path].v
M5Sequence(doc) == [path \in OfSequence |-> M5Value(doc, path)]

-----------------------------------------------------------------------------
(* Properties, of a document and of what was made of it.                   *)

\* A document is refused exactly if something that TestConfigParser.cpp lists
\* as required, or that an element needs, is missing or of the wrong kind; and
\* what the error names is at fault.
MustHave(doc) ==
    {"uart", "commandSequence", Rules, Posts, "commandSequence.lineEnding",
     "commandSequence.promptTimeoutMs"} \cup RequiredOfBridge
    \cup (IF HasElement(doc, Rules) THEN OfRule \cup {"rule"} ELSE {})
    \cup (IF HasElement(doc, Posts) THEN {"post", "post.command"} ELSE {})
FaultIsNamed(doc) ==
    LET Faults == {path \in MustHave(doc) : doc[path].kind # Kind(path)}
        error == ParseError(doc)
    IN  IF Faults = {} THEN error = "" ELSE error \in Faults

\* What is posted means the same to both platforms.
ParsersAgree(doc) ==
    /\ M5Accepts(doc) <=> SequenceError(doc) = ""
    /\ M5Accepts(doc) => M5Sequence(doc) = SequenceOf(doc)

\* A configuration that was read survives being printed and read again.
SurvivesPrinting(config) ==
    LET printed == SerializeBridgeConfig(config)
    IN  ParseError(printed) = "" /\ ParseJson(printed) = {config}

\* What is in the configuration is what the document says, as far as it says
\* it in the right kind and within the width of the member; else a default.
IsMeant(doc, config) ==
    \A path \in DOMAIN config :
        \/ doc[path].kind = Kind(path) /\ config[path] = doc[path].v
        \/ doc[path].kind = Kind(path) /\ Narrow(path, doc[path].v) # doc[path].v
        \/ doc[path].kind # Kind(path) /\ path \in DOMAIN Defaults
           /\ config[path] = Defaults[path]
        \/ path = "wifi.maxRetries"
        \/ path \in InWifi /\ ~Is(doc, "wifi", "object")
        \/ config[path] = NoElement
=============================================================================
