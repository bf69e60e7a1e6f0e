------------------------------ MODULE Messages ------------------------------
(***************************************************************************)
(* The message table of lib/messages.js, classify, and the message that    *)
(* Session.send() builds from the table.                                   *)
(***************************************************************************)
EXTENDS Coap

CONSTANT Null  \* no name, no uri

Empty == 0
GET == 1
POST == 2
PUT == 3
Content == 69

Spec(code, type, uri) == [code |-> code, type |-> type, uri |-> uri]

\* The table; a uri is the one byte of its character.
Messages == [
  Hello           |-> Spec(POST,  NON, 104),
  KeyChange       |-> Spec(PUT,   CON, 107),
  UpdateBegin     |-> Spec(POST,  CON, 117),
  Chunk           |-> Spec(POST,  CON, 99),
  UpdateDone      |-> Spec(PUT,   CON, 117),
  FunctionCall    |-> Spec(POST,  CON, 102),
  VariableRequest |-> Spec(GET,   CON, 118),
  PrivateEvent    |-> Spec(POST,  NON, 69),
  PublicEvent     |-> Spec(POST,  NON, 101),
  SynergyProtocol |-> Spec(POST,  NON, 109),
  Attribute       |-> Spec(POST,  NON, 97),
  Describe        |-> Spec(GET,   CON, 100),
  GetTime         |-> Spec(GET,   CON, 116),
  RaiseYourHand   |-> Spec(PUT,   CON, 115),
  Ping            |-> Spec(Empty, CON, Null),
  GetTimeReturn   |-> Spec(Content, ACK, Null)]

Names == DOMAIN Messages

\* spec.uri === uri && spec.code === decoded.code
Matches(spec, code, uri) == <<spec.uri>> = uri /\ spec.code = code

\* classify: a Ping by its type, any other message by its code and its first
\* Uri-Path; the table has one match at most.
classify(msg) ==
  IF msg.code = Empty /\ msg.type = CON THEN "Ping"
  ELSE LET first == SelectInSeq(msg.options, LAMBDA o : o.number = UriPath)
           found == {n \in Names :
                       first # 0 /\ Matches(Messages[n], msg.code, msg.options[first].value)}
       IN  IF found = {} THEN Null ELSE CHOOSE n \in found : TRUE

\* The message of send(): the type of the table unless the caller gives one, the uri
\* of the table, then the caller's options.
Build(name, type, id, token, options, payload) ==
  [type |-> IF type = Null THEN Messages[name].type ELSE type,
   code |-> Messages[name].code, messageId |-> id,
   token |-> token, payload |-> payload,
   options |-> (IF Messages[name].uri = Null THEN <<>>
                ELSE <<[number |-> UriPath, value |-> <<Messages[name].uri>>]>>) \o options]
=============================================================================
