---------------------------- MODULE MCLinuxMain ----------------------------
(* A complete document with up to two of its values replaced, and files    *)
(* without one; three descriptors.                                         *)
EXTENDS LinuxMain, TLC

\* 264, 65559: one too many for the member's width.
MCComplete == SerializeBridgeConfig(
    "uart.portName" :> Text("tty") @@ "uart.baudRate" :> Num(9600) @@ "uart.dataBits" :> Num(8)
    @@ "uart.parity" :> Text("none") @@ "uart.stopBits" :> Num(1) @@ "telnetPort" :> Num(23)
    @@ "httpPort" :> Num(81) @@ "displayTimeoutMs" :> Num(1) @@ "wifi.ssid" :> Text("net")
    @@ "wifi.password" :> Text("pw") @@ "wifi.maxRetries" :> Num(5) @@ "logDir" :> Text("log")
    @@ "networkInterface" :> Text("eth") @@ "rule.trigger" :> Text("t")
    @@ "rule.response" :> Text("r") @@ "post.command" :> Text("c")
    @@ "post.expectedPrompt" :> Text("p") @@ "post.delayMs" :> Num(1)
    @@ Rules :> Num(1) @@ Posts :> Num(1) @@ "commandSequence.lineEnding" :> Text("LF")
    @@ "commandSequence.promptTimeoutMs" :> Num(9))

Wrong(path) ==
    CASE Kind(path) = "array" -> {Missing, Value("array", Num(0)), Value("object", Num(0))}
      [] Kind(path) = "object" -> {Missing, Value("string", Text("x"))}
      [] Kind(path) = "string" -> {Missing, Value("string", Text("")), Value("uint", Num(1))}
      [] OTHER -> {Missing, Value("uint", Num(65559)), Value("uint", Num(264)),
                   Value("int", Num(-1)), Value("other", Num(0))}

\* With what contains it replaced as well, or another member.
MCContainers == {"wifi", "rule", "post", Rules, Posts}
MCDocuments ==
    LET Replace(d, p) == {[d EXCEPT ![p] = v] : v \in Wrong(p)}
        Once == UNION {Replace(MCComplete, p) : p \in Paths}
    IN  {MCComplete} \cup Once \cup UNION {Replace(d, p) : d \in Once, p \in MCContainers}
MCIndeterminate == {-7, 0}
=============================================================================
