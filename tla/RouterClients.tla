---------------------------- MODULE RouterClients ----------------------------
(***************************************************************************)
(* ExtractClients of internal/router/tplink.go: from the JSON document a   *)
(* router answers with to the clients and sums of a traffic sample.        *)
(*                                                                         *)
(* A document is a root object and, under keys of it, lists of objects.    *)
(* Go walks the keys of an object in any order, and the first object of a  *)
(* client that has a field wins, so what is extracted depends on the       *)
(* order: the operators take the walk as an argument.  Deeper nesting      *)
(* only adds more such orders.                                             *)
(*                                                                         *)
(* A scalar of a document has the text a string holds once trimmed and the *)
(* number it stands for, if any: a number, or a string ParseFloat reads,   *)
(* which takes "NaN" for one.                                              *)
(***************************************************************************)
EXTENDS Integers, SequencesExt

Absent == -1
NotANumber == -2

Text(s) == [string |-> TRUE, text |-> s, number |-> Absent]
Number(n) == [string |-> FALSE, text |-> "", number |-> n]
NumberText(s, n) == [string |-> TRUE, text |-> s, number |-> n]

TextKeys ==
    [mac |-> <<"macaddr", "mac_addr", "mac", "host_mac">>,
     ip |-> <<"ipaddr", "ip_addr", "ip", "host_ip">>,
     hostname |-> <<"hostname", "host_name", "name", "client_name",
                    "deviceName">>]

RateKeys ==
    [downloadBps |-> <<"down_speed", "download_speed", "down_rate",
                       "download_rate", "rx_speed", "downloadSpeed",
                       "downSpeed">>,
     uploadBps |-> <<"up_speed", "upload_speed", "up_rate", "upload_rate",
                     "tx_speed", "uploadSpeed", "upSpeed">>,
     totalBps |-> <<"speed", "rate", "total_speed", "traffic_speed",
                    "trafficSpeed">>,
     downloadBytes |-> <<"download", "down_bytes", "download_bytes",
                         "bytes_received", "downloadBytes">>,
     uploadBytes |-> <<"upload", "up_bytes", "upload_bytes", "bytes_sent",
                       "uploadBytes">>,
     totalBytes |-> <<"traffic_usage", "traffic", "total", "total_bytes",
                      "trafficUsage", "trafficUsed", "totalBytes">>]

TextFields == DOMAIN TextKeys
Rates == DOMAIN RateKeys

(* The first string under the keys counts, an empty one too.               *)
FirstString(m, keys) ==
    LET hits == {i \in DOMAIN keys :
                    keys[i] \in DOMAIN m /\ m[keys[i]].string}
    IN  IF hits = {} THEN "" ELSE m[keys[Min(hits)]].text

(* The first number under the keys; what is no number is passed over.      *)
FirstNumber(m, keys) ==
    LET hits == {i \in DOMAIN keys :
                    keys[i] \in DOMAIN m /\ m[keys[i]].number # Absent}
    IN  IF hits = {} THEN Absent ELSE m[keys[Min(hits)]].number

ObjectToClient(m) ==
    [text |-> [f \in TextFields |-> FirstString(m, TextKeys[f])],
     rate |-> [f \in Rates |-> FirstNumber(m, RateKeys[f])]]

(* An object that has an identity and traffic is a client.                 *)
IsClient(m) ==
    LET c == ObjectToClient(m)
    IN  /\ \E f \in TextFields : c.text[f] # ""
        /\ \E f \in Rates : c.rate[f] # Absent

ClientKeyByAddress(c) ==
    IF c.text["ip"] # "" THEN c.text["ip"]
    ELSE IF c.text["mac"] # "" THEN c.text["mac"] ELSE c.text["hostname"]
ClientKey(c) ==
    IF c.text["mac"] # "" THEN c.text["mac"]
    ELSE IF c.text["ip"] # "" THEN c.text["ip"] ELSE c.text["hostname"]

(* What is there stays, what is missing is taken from the later object.    *)
MergeClientAdding(a, b) ==
    [text |-> [f \in TextFields |-> IF a.text[f] = "" THEN b.text[f]
                                                      ELSE a.text[f]],
     rate |-> [f \in Rates |->
                 IF a.rate[f] = Absent THEN b.rate[f]
                 ELSE IF b.rate[f] = Absent THEN a.rate[f]
                 ELSE a.rate[f] + b.rate[f]]]
MergeClient(a, b) ==
    [text |-> [f \in TextFields |-> IF a.text[f] = "" THEN b.text[f]
                                                      ELSE a.text[f]],
     rate |-> [f \in Rates |-> IF a.rate[f] = Absent THEN b.rate[f]
                                                     ELSE a.rate[f]]]

(* What collectObjects finds.                                              *)
Objects(document) ==
    {document.root} \cup UNION {ToSet(l) : l \in document.lists}

(* The walks collectObjects can take: the root, then the lists under its   *)
(* keys in any order, each from front to back.                             *)
Walks(document) ==
    {<<document.root>> \o FlattenSeq(lists) :
        lists \in SetToSeqs(document.lists)}

AddObject(byKey, m) ==
    LET c == ObjectToClient(m)
        k == ClientKey(c)
    IN  IF ~IsClient(m) THEN byKey
        ELSE [x \in DOMAIN byKey \cup {k} |->
                IF x # k THEN byKey[x]
                ELSE IF k \in DOMAIN byKey THEN MergeClient(byKey[k], c)
                ELSE c]

ExtractClients(walk) == FoldLeft(AddObject, <<>>, walk)

(* sumClients: nil unless some client has the rate.                        *)
SumClients(clients, f) ==
    LET has == {k \in DOMAIN clients : clients[k].rate[f] # Absent}
    IN  IF has = {} THEN Absent
        ELSE IF \E k \in has : clients[k].rate[f] = NotANumber THEN NotANumber
        ELSE MapThenSumSet(LAMBDA k : clients[k].rate[f], has)

(* anyClientHas, for the three capabilities.                               *)
AnyClientHas(clients, fs) ==
    \E k \in DOMAIN clients, f \in fs : clients[k].rate[f] # Absent

(* json.Marshal refuses a number that is not finite.                       *)
Marshals(clients) ==
    \A k \in DOMAIN clients, f \in Rates : clients[k].rate[f] # NotANumber
==============================================================================
