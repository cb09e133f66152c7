------------------------------ MODULE Session ------------------------------
(***************************************************************************)
(* One connection after it has been accepted (conn.go): the packets of a   *)
(* vehicle, the branches of handlePacket, Send called by the connection's  *)
(* own goroutine and by others, and the session key that a login response  *)
(* announces and later packets and frames are encrypted under.             *)
(*                                                                         *)
(* A packet is its command and the key its body is encrypted under; a      *)
(* frame is its command, its key and, in a login response, the token it    *)
(* carries.  A token stands for the key derived from it.  Forwarding of    *)
(* what is handled is in Forwarding; the table, the registry and the       *)
(* single steps of Close are in Server.                                    *)
(***************************************************************************)
EXTENDS Naturals, Sequences, FiniteSets

CONSTANTS Run,          \* the connection's own goroutine
          Others,       \* goroutines that call Send: idle checker, applications
          Tokens,       \* the tokens OnVehicleLogin may hand out
          NoKey,        \* the nil encryptKey, the empty token, EncNone
          WriteTimeout, \* is s.writeTimeout > 0
          NetBuf,       \* frames the network holds until the vehicle reads
          MaxPackets,   \* bound: packets the vehicle sends
          MaxSends      \* bound: Sends by each of Others

Senders == Others \cup {Run}
Keys == Tokens \cup {NoKey}

ASSUME SendersAssumption == Run \notin Others
ASSUME KeysAssumption == NoKey \notin Tokens \cup Senders
ASSUME BoundsAssumption ==
  /\ WriteTimeout \in BOOLEAN
  /\ NetBuf \in Nat /\ MaxPackets \in Nat /\ MaxSends \in Nat

\* Commands by what handlePacket does with them: "data" calls a handler and
\* nothing else (realtime, reissue, platform login and logout, parameter
\* acknowledgements), "query" is answered with Send (parameter query, time
\* calibration), and so is "beat", whose body is empty.  "bad" is a packet of
\* any command whose body does not decode, or of a command nobody handles.
Commands == {"login", "logout", "data", "query", "beat", "bad"}

\* "login" is a login response, "empty" any frame without a body, and "part"
\* what is left of a frame whose write met its deadline.
Frames ==
  [cmd : {"login", "answer", "empty", "part"}, key : Keys, token : Keys]
Part == [cmd |-> "part", key |-> NoKey, token |-> NoKey]
Packets == [cmd : Commands, key : Keys]

VARIABLES
  state,      \* c.state
  vin,        \* is c.vin set
  encryptKey, \* c.encryptKey
  open,       \* the socket is open
  runPc,      \* where run is
  newKey,     \* the key run is about to store
  writeMu,    \* the holder of c.writeMu, or NoKey
  sendPc,     \* where each goroutine is inside Send
  outgoing,   \* the frame it is sending
  up,         \* packets on their way to run
  down,       \* frames on their way to the vehicle
  vKey,       \* the key the vehicle uses
  awaiting,   \* the vehicle waits for the answer to its login
  cut,        \* it has read a part, and may take what follows for the rest
  packets,    \* bound: packets sent
  sends,      \* bound: Sends made
  known,      \* history: tokens delivered to the vehicle
  lost,       \* history: tokens whose login response was not written whole
              \* or not read as a frame
  hasty,      \* history: the vehicle gave up on an answer still to come
  garbled     \* history: a body was decoded that the vehicle did not send

keyVars == <<encryptKey, newKey>>
connVars == <<state, vin, open>>
sendVars == <<writeMu, sendPc, outgoing, sends>>
vehicleVars == <<vKey, awaiting, cut, packets>>
history == <<known, lost, hasty, garbled>>
vars == <<keyVars, connVars, runPc, sendVars, up, down, vehicleVars, history>>

NoFrame == [cmd |-> "answer", key |-> NoKey, token |-> NoKey]

Init ==
  /\ state = "New" /\ vin = FALSE /\ open = TRUE
  /\ encryptKey = NoKey /\ newKey = NoKey
  /\ runPc = "ready"
  /\ writeMu = NoKey
  /\ sendPc = [t \in Senders |-> "none"]
  /\ outgoing = [t \in Senders |-> NoFrame]
  /\ sends = [t \in Others |-> 0]
  /\ up = <<>> /\ down = <<>>
  /\ vKey = NoKey /\ awaiting = FALSE /\ cut = FALSE /\ packets = 0
  /\ known = {} /\ lost = {} /\ hasty = FALSE /\ garbled = FALSE

---------------------------------------------------------------------------
(* Send, by goroutine t.  encryptKey is a slice, a data, a length and a    *)
(* capacity word.  Send loads the data word for the comparison with nil    *)
(* and all three again for EncryptAES128, without a lock that the writer   *)
(* of the key holds.  While run stores the key each word may be the old    *)
(* or the new one.  Loading all three is one step: words loaded on both    *)
(* sides of a store mix like those loaded during it.                       *)

\* Whose words of encryptKey may be loaded.
Seen == {encryptKey} \cup (IF runPc = "store" THEN {newKey} ELSE {})

\* The call; what Send does comes with the next steps.
CallSend(t, cmd, token) ==
  /\ sendPc' = [sendPc EXCEPT ![t] = "lock"]
  /\ outgoing' = [outgoing EXCEPT
                    ![t] = [cmd |-> cmd, key |-> NoKey, token |-> token]]

\* Send returns an error: no whole frame was written.
SendFails(t) ==
  /\ sendPc' = [sendPc EXCEPT ![t] = "none"]
  /\ lost' = IF outgoing[t].token # NoKey
             THEN lost \cup {outgoing[t].token} ELSE lost
  /\ UNCHANGED outgoing

SendLock(t) ==
  /\ sendPc[t] = "lock" /\ writeMu = NoKey
  /\ IF state = "Closed"
     THEN SendFails(t) /\ UNCHANGED writeMu
     ELSE /\ sendPc' = [sendPc EXCEPT ![t] = "key"]
          /\ writeMu' = t
          /\ UNCHANGED <<outgoing, lost>>
  /\ UNCHANGED <<keyVars, connVars, runPc, sends, up, down, vehicleVars, known,
                 hasty, garbled>>

\* An empty body is not encrypted.
SendKey(t) ==
  /\ sendPc[t] = "key"
  /\ \E ptr \in Seen :
       sendPc' = [sendPc EXCEPT
                    ![t] = IF ptr = NoKey \/ outgoing[t].cmd = "empty"
                           THEN "write" ELSE "load"]
  /\ UNCHANGED <<keyVars, connVars, runPc, writeMu, outgoing, sends, up, down,
                 vehicleVars, history>>

\* Mutant: ErrKeyTooShort is returned with writeMu held.
SendTooShortHoldsLock(t) ==
  /\ sendPc[t] = "load" /\ NoKey \in Seen
  /\ SendFails(t)
  /\ UNCHANGED <<keyVars, connVars, runPc, writeMu, sends, up, down,
                 vehicleVars, known, hasty, garbled>>

\* The length is that of no key: EncryptAES128 returns ErrKeyTooShort.
SendTooShort(t) ==
  /\ sendPc[t] = "load" /\ NoKey \in Seen
  /\ SendFails(t) /\ writeMu' = NoKey
  /\ UNCHANGED <<keyVars, connVars, runPc, sends, up, down, vehicleVars, known,
                 hasty, garbled>>

\* The length is that of a key and the data word or the capacity that of none:
\* aes.NewCipher reads through nil, or key[:16] is out of range.  Nobody
\* recovers the panic.
SendCrash(t) ==
  /\ sendPc[t] = "load" /\ NoKey \in Seen /\ Seen # {NoKey}
  /\ sendPc' = [sendPc EXCEPT ![t] = "crash"]
  /\ UNCHANGED <<keyVars, connVars, runPc, writeMu, outgoing, sends, up, down,
                 vehicleVars, history>>

SendEncrypt(t) ==
  /\ sendPc[t] = "load"
  /\ \E ptr \in Seen \ {NoKey} :
       outgoing' = [outgoing EXCEPT ![t].key = ptr]
  /\ sendPc' = [sendPc EXCEPT ![t] = "write"]
  /\ UNCHANGED <<keyVars, connVars, runPc, writeMu, sends, up, down,
                 vehicleVars, history>>

\* EncodeResponse needs the VIN of a login; then the frame is written.
SendWrite(t) ==
  /\ sendPc[t] = "write" /\ vin /\ open /\ Len(down) < NetBuf
  /\ down' = Append(down, outgoing[t])
  /\ sendPc' = [sendPc EXCEPT ![t] = "none"]
  /\ writeMu' = NoKey
  /\ UNCHANGED <<keyVars, connVars, runPc, outgoing, sends, up, vehicleVars,
                 history>>

\* Mutant: no write deadline is set.
SendWriteForever(t) ==
  /\ sendPc[t] = "write"
  /\ ~vin \/ ~open
  /\ SendFails(t) /\ writeMu' = NoKey
  /\ UNCHANGED <<keyVars, connVars, runPc, sends, up, down, vehicleVars, known,
                 hasty, garbled>>

\* ErrInvalidVIN, or the socket is closed, or the write deadline passed before
\* the vehicle made room for anything of the frame.
SendWriteFails(t) ==
  /\ sendPc[t] = "write"
  /\ ~vin \/ ~open \/ (WriteTimeout /\ Len(down) >= NetBuf)
  /\ SendFails(t) /\ writeMu' = NoKey
  /\ UNCHANGED <<keyVars, connVars, runPc, sends, up, down, vehicleVars, known,
                 hasty, garbled>>

\* The deadline passed when a part of the frame was written.
SendCut(t) ==
  /\ sendPc[t] = "write" /\ vin /\ open /\ WriteTimeout /\ Len(down) = NetBuf
  /\ down' = Append(down, Part)
  /\ SendFails(t) /\ writeMu' = NoKey
  /\ UNCHANGED <<keyVars, connVars, runPc, sends, up, vehicleVars, known,
                 hasty, garbled>>

SendStep(t) ==
  \/ SendLock(t) \/ SendKey(t)
  \/ SendTooShort(t) \/ SendCrash(t) \/ SendEncrypt(t)
  \/ SendWrite(t) \/ SendWriteFails(t) \/ SendCut(t)

\* The idle checker's probe, or an application's SendPlatLogin,
\* SendPlatLogout, SendParamQuery, SendParamSetting or Send.
OtherSend(t) ==
  /\ sendPc[t] = "none" /\ sends[t] < MaxSends
  /\ \E cmd \in {"answer", "empty"} : CallSend(t, cmd, NoKey)
  /\ sends' = [sends EXCEPT ![t] = @ + 1]
  /\ UNCHANGED <<keyVars, connVars, runPc, writeMu, up, down, vehicleVars,
                 history>>

---------------------------------------------------------------------------
(* Close, by any goroutine.                                                *)

Close ==
  IF state = "Closed" THEN UNCHANGED <<state, open>>
  ELSE state' = "Closed" /\ open' = FALSE

OtherClose ==
  /\ state # "Closed"
  /\ Close
  /\ UNCHANGED <<keyVars, vin, runPc, sendVars, up, down, vehicleVars, history>>

---------------------------------------------------------------------------
(* run and handlePacket.  At "ready" run is about to take the next packet  *)
(* of its buffer or to read.  A packet that was read before the socket was *)
(* closed is still handled.                                                *)

\* DecryptAES128 with the vehicle's key gives back what it sent.  A body
\* under EncAES128 that meets a nil key is not decrypted at all, and one that
\* meets another key is refused or decrypted to something else.
Clear(p) == p.key = NoKey \/ p.key = encryptKey

Taken(cmd) ==
  /\ runPc = "ready"
  /\ up # <<>> /\ Head(up).cmd = cmd
  /\ up' = Tail(up)

\* The packet is decoded.  A body that is not what the vehicle sent may be
\* accepted all the same.
Decodes(cmd) ==
  /\ Taken(cmd)
  /\ garbled' = (garbled \/ ~Clear(Head(up)))

\* The body cannot be decrypted or decoded, or no handler is registered for
\* the command: the packet is dropped.
DropPacket ==
  /\ \E cmd \in Commands \ {"beat"} : Taken(cmd)
  /\ ~Clear(Head(up)) \/ Head(up).cmd \in {"data", "query", "bad"}
  /\ UNCHANGED <<keyVars, connVars, runPc, sendVars, down, vehicleVars,
                 history>>

\* The Authenticator refuses the VIN, or fails.
LoginRefused ==
  /\ Taken("login") \/ Taken("bad")
  /\ Close
  /\ UNCHANGED <<keyVars, vin, runPc, sendVars, down, vehicleVars, history>>

LoginAccepted ==
  /\ Decodes("login")
  /\ vin' = TRUE
  /\ state' = "LoggedIn"
  /\ UNCHANGED <<encryptKey, open, writeMu, sends, down, vehicleVars, known,
                 lost, hasty>>

\* OnVehicleLogin fails, or gives no response, or there is no handler.
LoginSilent ==
  /\ LoginAccepted
  /\ UNCHANGED <<runPc, newKey, sendPc, outgoing>>

\* OnVehicleLogin gives a response, with a token or without, and
\* sendLoginResponse calls Send.
LoginResponds ==
  /\ LoginAccepted
  /\ \E token \in Keys :
       /\ CallSend(Run, "login", token)
       /\ newKey' = token
  /\ runPc' = "response"

\* Mutant: the response is sent by a goroutine of its own.
LoginKeyAtOnce ==
  /\ runPc = "response"
  /\ runPc' = IF newKey # NoKey THEN "store" ELSE "ready"
  /\ UNCHANGED <<keyVars, connVars, sendVars, up, down, vehicleVars, history>>

\* Mutant: a response without a token ends the encryption.
LoginKeyAlways ==
  /\ runPc = "response" /\ sendPc[Run] = "none"
  /\ runPc' = "store"
  /\ UNCHANGED <<keyVars, connVars, sendVars, up, down, vehicleVars, history>>

\* sendLoginResponse has returned; its error is only logged.  A token becomes
\* the key, a response without one leaves the key as it is.
LoginKey ==
  /\ runPc = "response" /\ sendPc[Run] = "none"
  /\ runPc' = IF newKey # NoKey THEN "store" ELSE "ready"
  /\ UNCHANGED <<keyVars, connVars, sendVars, up, down, vehicleVars, history>>

\* Mutant: a logout leaves the key.
LogoutKeepsKey ==
  /\ Decodes("logout")
  /\ UNCHANGED <<keyVars, runPc, connVars, sendVars, down, vehicleVars, known,
                 lost, hasty>>

\* Mutant: a logout derives a key from no token.
LogoutZeroKey ==
  /\ Decodes("logout")
  /\ newKey' = "zero"
  /\ runPc' = "store"
  /\ UNCHANGED <<encryptKey, connVars, sendVars, down, vehicleVars, known, lost,
                 hasty>>

\* The handler's error is only logged.
Logout ==
  /\ Decodes("logout")
  /\ newKey' = NoKey
  /\ runPc' = "store"
  /\ UNCHANGED <<encryptKey, connVars, sendVars, down, vehicleVars, known, lost,
                 hasty>>

\* c.encryptKey = newKey is done.
StoreKey ==
  /\ runPc = "store"
  /\ encryptKey' = newKey
  /\ runPc' = "ready"
  /\ UNCHANGED <<newKey, connVars, sendVars, up, down, vehicleVars, history>>

HandleData ==
  /\ Decodes("data")
  /\ UNCHANGED <<keyVars, connVars, runPc, sendVars, down, vehicleVars, known,
                 lost, hasty>>

\* The answer's Send runs next; its error is ignored.
HandleQuery ==
  /\ Decodes("query") \/ (Taken("beat") /\ UNCHANGED garbled)
  /\ CallSend(Run, "answer", NoKey)
  /\ runPc' = "answer"
  /\ UNCHANGED <<keyVars, connVars, writeMu, sends, down, vehicleVars, known,
                 lost, hasty>>

Answered ==
  /\ runPc = "answer" /\ sendPc[Run] = "none"
  /\ runPc' = "ready"
  /\ UNCHANGED <<keyVars, connVars, sendVars, up, down, vehicleVars, history>>

\* The socket is closed under run, or the vehicle is gone, or the read
\* deadline passed: run ends with its deferred Close.
RunEnds ==
  /\ runPc = "ready"
  /\ runPc' = "done"
  /\ Close
  /\ UNCHANGED <<keyVars, vin, sendVars, up, down, vehicleVars, history>>

HandlePacket ==
  \/ DropPacket \/ LoginRefused \/ LoginSilent \/ LoginResponds \/ LoginKey
  \/ Logout \/ StoreKey \/ HandleData \/ HandleQuery \/ Answered

---------------------------------------------------------------------------
(* The vehicle.  It encrypts under the key of the last token it received,  *)
(* sends nothing between a login and its answer, keeps its key when a      *)
(* response has no token and drops it when it logs out.  TCP loses and     *)
(* reorders nothing.                                                       *)

Transmit(p) ==
  /\ open /\ packets < MaxPackets
  /\ up' = Append(up, p)
  /\ packets' = packets + 1

VehicleLogin ==
  /\ ~awaiting
  /\ Transmit([cmd |-> "login", key |-> vKey])
  /\ awaiting' = TRUE
  /\ UNCHANGED <<keyVars, connVars, runPc, sendVars, down, vKey, cut, history>>

VehicleLogout ==
  /\ ~awaiting
  /\ Transmit([cmd |-> "logout", key |-> vKey])
  /\ vKey' = NoKey
  /\ UNCHANGED <<keyVars, connVars, runPc, sendVars, down, awaiting, cut,
                 history>>

\* Any other packet; a heartbeat has no body to encrypt.
VehicleSends ==
  /\ ~awaiting
  /\ \/ \E cmd \in {"data", "query", "bad"} :
          Transmit([cmd |-> cmd, key |-> vKey])
     \/ Transmit([cmd |-> "beat", key |-> NoKey])
  /\ UNCHANGED <<keyVars, connVars, runPc, sendVars, down, vKey, awaiting, cut,
                 history>>

\* A login response is read if it is not encrypted under another key.  A part
\* of a frame stays in the vehicle's decoder until it finds the next frame.
VehicleReceives ==
  /\ down # <<>>
  /\ LET f == Head(down)
         read == f.cmd = "login" /\ f.key \in {NoKey, vKey}
     IN /\ awaiting' = (awaiting /\ ~read)
        /\ vKey' = IF read /\ f.token # NoKey THEN f.token ELSE vKey
        /\ cut' = (f.cmd = "part")
        /\ known' = known \cup ({f.token} \ {NoKey})
  /\ down' = Tail(down)
  /\ UNCHANGED <<keyVars, connVars, runPc, sendVars, up, packets, lost, hasty,
                 garbled>>

\* Behind a part it takes a frame for the rest of it.
VehicleMisses ==
  /\ cut /\ down # <<>>
  /\ lost' = lost \cup ({Head(down).token} \ {NoKey})
  /\ down' = Tail(down)
  /\ UNCHANGED <<keyVars, connVars, runPc, sendVars, up, vehicleVars, known,
                 hasty, garbled>>

\* Nothing of the server's is under way for this vehicle.
Quiet == up = <<>> /\ down = <<>> /\ runPc = "ready"

\* The vehicle's timeout for the answer to its login passes.
VehicleGivesUp ==
  /\ awaiting
  /\ awaiting' = FALSE
  /\ hasty' = (hasty \/ ~Quiet)
  /\ UNCHANGED <<keyVars, connVars, runPc, sendVars, up, down, vKey, cut,
                 packets, known, lost, garbled>>

Vehicle ==
  \/ VehicleLogin \/ VehicleLogout \/ VehicleSends \/ VehicleReceives
  \/ VehicleMisses \/ VehicleGivesUp

---------------------------------------------------------------------------
\* A panic ends the process.
Alive == \A t \in Senders : sendPc[t] # "crash"

Next ==
  /\ Alive
  /\ \/ HandlePacket \/ RunEnds
     \/ \E t \in Senders : SendStep(t)
     \/ \E t \in Others : OtherSend(t)
     \/ OtherClose
     \/ Vehicle

Spec == Init /\ [][Next]_vars

(* Fairness: the Go scheduler runs every goroutine that can run, and a     *)
(* sync.Mutex is handed to a waiter that has waited long enough, which is  *)
(* the strong fairness of SendLock.  A write deadline passes.  Nothing is  *)
(* assumed of the vehicle.                                                 *)
Fairness ==
  \A t \in Senders :
    /\ SF_vars(Alive /\ SendLock(t))
    /\ WF_vars(Alive /\ SendStep(t))

FairSpec == Spec /\ Fairness

---------------------------------------------------------------------------
(* Properties.                                                             *)

SendStates == {"none", "lock", "key", "load", "write", "crash"}

\* Every variable keeps its type.
TypeOK ==
  /\ state \in {"New", "LoggedIn", "Closed"}
  /\ vin \in BOOLEAN /\ open \in BOOLEAN
  /\ encryptKey \in Keys /\ newKey \in Keys
  /\ runPc \in {"ready", "response", "store", "answer", "done"}
  /\ writeMu \in Senders \cup {NoKey}
  /\ sendPc \in [Senders -> SendStates]
  /\ outgoing \in [Senders -> Frames]
  /\ sends \in [Others -> Nat]
  /\ up \in Seq(Packets) /\ down \in Seq(Frames)
  /\ vKey \in Keys /\ awaiting \in BOOLEAN /\ cut \in BOOLEAN
  /\ packets \in Nat
  /\ known \subseteq Tokens /\ lost \subseteq Tokens
  /\ hasty \in BOOLEAN /\ garbled \in BOOLEAN

\* handlePacket stores the key after the response that announces it has been
\* written: whoever sends meanwhile, a frame under a key comes behind the
\* login response with its token, unless that response was lost.
KeyNeverAhead ==
  \A i \in 1..Len(down) : down[i].key # NoKey =>
    \/ down[i].key \in known \cup lost
    \/ \E j \in 1..(i - 1) : down[j].token = down[i].key

\* decrypting in handlePacket: the server reads every body as the vehicle
\* sent it, across logins, logouts and repeated logins with and without a
\* token, unless the response with the token was lost or the vehicle gave up
\* on an answer that was still to come.
NothingGarbled == garbled => lost # {} \/ hasty

\* Once everything sent has been handled and received, both ends hold the
\* same key, with the same exceptions.
KeysAgree ==
  Quiet /\ ~awaiting /\ open => vKey = encryptKey \/ lost # {} \/ hasty

\* At most one goroutine is between Lock and Unlock of writeMu, and it is the
\* one the mutex names, on every path through Send.
OneWriter ==
  \A t \in Senders : sendPc[t] \notin {"none", "lock"} <=> writeMu = t

\* A torn key kills the process only under a Send of another goroutine that
\* meets the store of a first key or of a logout: while one key replaces
\* another, and inside the Sends of the connection's own goroutine, no login
\* can.
CrashOnlyAtEdges ==
  ~Alive => /\ sendPc[Run] # "crash"
            /\ runPc = "store" /\ NoKey \in {encryptKey, newKey}

\* Every Send returns, also to a vehicle that does not read and whatever
\* happens to the key and to the connection meanwhile, unless the process
\* panics.
SendReturns ==
  \A t \in Senders : sendPc[t] # "none" ~> sendPc[t] = "none" \/ ~Alive
============================================================================
