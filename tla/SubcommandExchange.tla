------------------------- MODULE SubcommandExchange -------------------------
(***************************************************************************)
(* What the worker thread of one JoyCon object says to its controller:     *)
(* setup_joycon(), the queued commands and finish(), each a sequence of    *)
(* exchanges by comm(): one output report, then up to eight reads in       *)
(* search of a reply.  Replies (0x21) and input reports come through one   *)
(* queue and are copied, one after the other, into the one buffer `data`;  *)
(* a read that times out leaves the buffer as it was.  A reply names its   *)
(* subcommand and, for a flash read, the address, but not the request it   *)
(* answers.                                                                *)
(*                                                                         *)
(* The controller obeys and answers in order, after any delay.  It may     *)
(* refuse, send input reports of its own, and go away.                     *)
(***************************************************************************)
EXTENDS Naturals, Sequences

CONSTANTS Attempts,     (* SUBCOMM_ATTEMPTS_NUMBER: reads of one comm() *)
          SpiTries,     (* comm() calls of one read_spi() *)
          UserCal,      (* the user blocks of the flash that are filled in *)
          Scales,       (* IMU sensitivities a caller may ask for *)
          DefaultScale, (* AS_8G, GS_2000DPS, also the controller's own *)
          MayRefuse,    (* may the controller answer with a NACK? *)
          MaxBehind,    (* bound: requests it has not handled when a read times out *)
          MaxInputs,    (* bound: input reports the controller sends *)
          MaxCommands   (* bound: queued commands that are run *)

UserBlocks == {"stickUser", "imuUser"}

\* The blocks of the flash that read_spi() is called for.
Blocks == UserBlocks \union
          {"stickFactory", "stickParams", "imuFactory", "imuOffset"}

\* The parts of the calibration that are taken from them.
CalParts == {"stick", "stickParams", "imu", "imuOffset"}

ASSUME ExchangeAssumption ==
    /\ Attempts \in Nat \ {0}
    /\ SpiTries \in Nat \ {0}
    /\ UserCal \subseteq UserBlocks
    /\ DefaultScale \in Scales
    /\ MayRefuse \in BOOLEAN
    /\ MaxBehind \in Nat
    /\ MaxInputs \in Nat
    /\ MaxCommands \in Nat

VARIABLES
    step,       (* what the worker is doing *)
    phase,      (* where it is in comm(): "send", "recv" or "returned" *)
    attempts,   (* attempts of this comm() *)
    tries,      (* tries of this read_spi() *)
    ok,         (* the result of comm(), which its callers never see *)
    command,    (* the request of the queued command being run *)
    head,       (* data[0]: what kind of report arrived last *)
    reply,      (* data[13..]: the reply left there, or NoReply *)
    toCtl,      (* output reports the controller has not handled yet *)
    toHost,     (* reports the worker has not read yet *)
    link,       (* "up" or "gone" *)
    ctl,        (* the settings of the controller *)
    hostScale,  (* the sensitivity the IMU multipliers are computed for *)
    cal,        (* the blocks the calibration has been taken from *)
    inputs,     (* input reports sent so far *)
    commands,   (* queued commands run so far *)
    gaveUp,     (* history: the parts read_spi() gave up on a block of *)
    late,       (* history: has a read timed out on a live link? *)
    refused,    (* history: has a request been refused? *)
    unheard     (* history: has a comm() ended without a reply? *)

hostVars == <<step, phase, attempts, tries, ok, command, hostScale, cal,
              commands, gaveUp, late, unheard>>
dataVars == <<head, reply>>
linkVars == <<toCtl, toHost, link>>
ctlVars == <<ctl, inputs, refused>>
vars == <<hostVars, dataVars, linkVars, ctlVars>>

-----------------------------------------------------------------------------
(* Requests and replies.                                                   *)

Req(sub, arg) == [sub |-> sub, arg |-> arg]

\* The fixed exchanges: those of setup_joycon() and those of finish().
FixedRequest ==
    [modeSimple   |-> Req("mode", "simple"),
     stickUser    |-> Req("spi", "stickUser"),
     stickFactory |-> Req("spi", "stickFactory"),
     stickParams  |-> Req("spi", "stickParams"),
     imuUser      |-> Req("spi", "imuUser"),
     imuFactory   |-> Req("spi", "imuFactory"),
     imuOffset    |-> Req("spi", "imuOffset"),
     lights       |-> Req("lights", "number"),
     imuOn        |-> Req("imu", "on"),
     modeFull     |-> Req("mode", "full"),
     finMode      |-> Req("mode", "simple"),
     finLights    |-> Req("lights", "none"),
     finImu       |-> Req("imu", "off"),
     finRumble    |-> Req("rumble", "off")]

\* The commands of the queue functions.
CommandRequests ==
    {Req("imu", "on"), Req("imu", "off"), Req("rumble", "on"),
     Req("rumble", "off"), Req("voltage", "none")}
    \union {Req("scale", s) : s \in Scales}

ExchangeSteps == DOMAIN FixedRequest \union {"command"}

Request == IF step = "command" THEN command ELSE FixedRequest[step]

\* Bytes 13 and up that are no reply: zeros, or the IMU part of a report.
NoReply == [ack |-> FALSE, req |-> Req("nothing", "none"), last |-> FALSE]

Init ==
    /\ step = "modeSimple"
    /\ phase = "send"
    /\ attempts = 0
    /\ tries = 0
    /\ ok = FALSE
    /\ command = Req("voltage", "none")
    /\ head = "none"
    /\ reply = NoReply
    /\ toCtl = <<>>
    /\ toHost = <<>>
    /\ link = "up"
    /\ ctl \in [mode : {"simple", "full"}, lights : {"none"}, imu : {"off"},
                rumble : {"on"}, scale : {DefaultScale}]
    /\ hostScale = DefaultScale
    /\ cal = [part \in CalParts |-> "none"]
    /\ inputs = 0
    /\ commands = 0
    /\ gaveUp = {}
    /\ late = FALSE
    /\ refused = FALSE
    /\ unheard = FALSE

-----------------------------------------------------------------------------
(* comm().                                                                 *)

\* History: the requests in s are no longer the last one sent, and the
\* replies not the answer to it.
Older(s) == [i \in DOMAIN s |-> [s[i] EXCEPT !.last = FALSE]]

\* hid_write(), whose result is ignored.
Send ==
    /\ step \in ExchangeSteps
    /\ phase = "send"
    /\ toCtl' = IF link = "up"
                THEN Append(Older(toCtl), [req |-> Request, last |-> TRUE])
                ELSE Older(toCtl)
    /\ toHost' = Older(toHost)
    /\ reply' = [reply EXCEPT !.last = FALSE]
    /\ phase' = "recv"
    /\ attempts' = 0
    /\ UNCHANGED <<step, tries, ok, command, hostScale, cal, commands, gaveUp,
                   late, unheard, head, link, ctlVars>>

\* Mutant: the test of data[0] is missing.
AcceptsAnyReport(h, r) == r.ack /\ r.req.sub = Request.sub

\* The three tests: report 0x21, positive acknowledgement, same subcommand.
Accepts(h, r) == h = "reply" /\ r.ack /\ r.req.sub = Request.sub

\* Mutant: one attempt too many.
AttemptOnceMore(h, r) ==
    /\ head' = h
    /\ reply' = r
    /\ \/ /\ Accepts(h, r)
          /\ phase' = "returned"
          /\ ok' = TRUE
          /\ UNCHANGED <<attempts, unheard>>
       \/ /\ ~Accepts(h, r)
          /\ attempts' = attempts + 1
          /\ \/ /\ attempts = Attempts
                /\ phase' = "returned"
                /\ ok' = FALSE
                /\ unheard' = TRUE
             \/ /\ attempts < Attempts
                /\ UNCHANGED <<phase, ok, unheard>>
    /\ UNCHANGED <<step, tries, command, hostScale, cal, commands, gaveUp, toCtl,
                   link, ctlVars>>

\* An attempt that left h and r in the buffer.
Attempt(h, r) ==
    /\ head' = h
    /\ reply' = r
    /\ \/ /\ Accepts(h, r)
          /\ phase' = "returned"
          /\ ok' = TRUE
          /\ UNCHANGED <<attempts, unheard>>
       \/ /\ ~Accepts(h, r)
          /\ attempts' = attempts + 1
          /\ \/ /\ attempts' = Attempts
                /\ phase' = "returned"
                /\ ok' = FALSE
                /\ unheard' = TRUE
             \/ /\ attempts' < Attempts
                /\ UNCHANGED <<phase, ok, unheard>>
    /\ UNCHANGED <<step, tries, command, hostScale, cal, commands, gaveUp, toCtl,
                   link, ctlVars>>

\* What a report leaves in data[13..]: a simple input report is too short to
\* get there.
Tail13(m) == IF m.head = "simple" THEN reply
             ELSE [ack |-> m.ack, req |-> m.req, last |-> m.last]

\* hid_read_timeout() finds a report ...
ReadReport ==
    /\ phase = "recv"
    /\ toHost # <<>>
    /\ toHost' = Tail(toHost)
    /\ Attempt(Head(toHost).head, Tail13(Head(toHost)))
    /\ UNCHANGED late

\* ... or none for 200 ms, or the device is gone; the attempt goes on with
\* what is in the buffer.
ReadTimesOut ==
    /\ phase = "recv"
    /\ toHost = <<>>
    /\ \/ link = "up" /\ Len(toCtl) <= MaxBehind /\ late' = TRUE
       \/ link = "gone" /\ UNCHANGED late
    /\ Attempt(head, reply)
    /\ UNCHANGED toHost

-----------------------------------------------------------------------------
(* The callers of comm().                                                  *)

Goto(s) == step' = s /\ phase' = "send" /\ tries' = 0

\* Mutant: the address is not compared.
EchoedAny == reply.req.sub = Request.sub

\* The echo of the address is in the buffer.
Echoed == reply.req = Request

\* Mutant: the tries are not counted.
RetrySpiForever ==
    /\ phase = "returned"
    /\ step \in Blocks
    /\ ~Echoed
    /\ phase' = "send"
    /\ UNCHANGED <<step, attempts, tries, ok, command, hostScale, cal, commands,
                   gaveUp, late, unheard, dataVars, linkVars, ctlVars>>

\* do { .. } while (tries < 10 && the address is not echoed)
RetrySpi ==
    /\ phase = "returned"
    /\ step \in Blocks
    /\ ~Echoed
    /\ tries + 1 < SpiTries
    /\ tries' = tries + 1
    /\ phase' = "send"
    /\ UNCHANGED <<step, attempts, ok, command, hostScale, cal, commands, gaveUp,
                   late, unheard, dataVars, linkVars, ctlVars>>

SpiDone == phase = "returned" /\ (Echoed \/ tries + 1 = SpiTries)

\* The block found at data + 20, whatever it is.
BlockRead == IF reply.req.sub = "spi" THEN reply.req.arg ELSE "garbage"

GaveUp(part) == gaveUp' = IF Echoed THEN gaveUp ELSE gaveUp \union {part}

\* A user block begins with 0xb2 0xa1 when it is filled in; other bytes may
\* look so by chance.
Magic(b) == IF Echoed THEN {b \in UserCal} ELSE BOOLEAN

\* get_stick_cal() and get_imu_cal(): the user block, if it is filled in.
TryUserBlock(user, factory, part, next) ==
    /\ step = user
    /\ SpiDone
    /\ GaveUp(part)
    /\ \E found \in Magic(user) :
         \/ found /\ Goto(next) /\ cal' = [cal EXCEPT ![part] = BlockRead]
         \/ ~found /\ Goto(factory) /\ UNCHANGED cal
    /\ UNCHANGED <<attempts, ok, command, hostScale, commands, late, unheard,
                   dataVars, linkVars, ctlVars>>

TakeBlock(block, part, next) ==
    /\ step = block
    /\ SpiDone
    /\ GaveUp(part)
    /\ cal' = [cal EXCEPT ![part] = BlockRead]
    /\ Goto(next)
    /\ UNCHANGED <<attempts, ok, command, hostScale, commands, late, unheard,
                   dataVars, linkVars, ctlVars>>

GetStickCal ==
    \/ TryUserBlock("stickUser", "stickFactory", "stick", "stickParams")
    \/ TakeBlock("stickFactory", "stick", "stickParams")
    \/ TakeBlock("stickParams", "stickParams", "imuUser")

GetImuCal ==
    \/ TryUserBlock("imuUser", "imuFactory", "imu", "imuOffset")
    \/ TakeBlock("imuFactory", "imu", "imuOffset")
    \/ TakeBlock("imuOffset", "imuOffset", "lights")

\* Mutant: finish() forgets the IMU.
NextStepShort ==
    [modeSimple |-> "stickUser", lights |-> "imuOn", imuOn |-> "modeFull",
     modeFull |-> "loop", finMode |-> "finLights", finLights |-> "finRumble",
     finImu |-> "finRumble", finRumble |-> "closed"]

\* The other fixed exchanges, each followed by the next one.
NextStep ==
    [modeSimple |-> "stickUser", lights |-> "imuOn", imuOn |-> "modeFull",
     modeFull |-> "loop", finMode |-> "finLights", finLights |-> "finImu",
     finImu |-> "finRumble", finRumble |-> "closed"]

\* After toggle_parameter(TP_IMU, true) come the default multipliers.
Advance ==
    /\ phase = "returned"
    /\ step \in DOMAIN NextStep
    /\ Goto(NextStep[step])
    /\ hostScale' = IF step = "imuOn" THEN DefaultScale ELSE hostScale
    /\ UNCHANGED <<attempts, ok, command, cal, commands, gaveUp, late,
                   unheard, dataVars, linkVars, ctlVars>>

\* Mutant: the multipliers are computed only after a positive answer.
CommandDoneIfOk ==
    /\ phase = "returned"
    /\ step = "command"
    /\ Goto("drain")
    /\ hostScale' = IF ok /\ command.sub = "scale" THEN command.arg ELSE hostScale
    /\ UNCHANGED <<attempts, ok, command, cal, commands, gaveUp, late,
                   unheard, dataVars, linkVars, ctlVars>>

\* set_imu_sensitivity() computes the multipliers whatever comm() returned.
CommandDone ==
    /\ phase = "returned"
    /\ step = "command"
    /\ Goto("drain")
    /\ hostScale' = IF command.sub = "scale" THEN command.arg ELSE hostScale
    /\ UNCHANGED <<attempts, ok, command, cal, commands, gaveUp, late,
                   unheard, dataVars, linkVars, ctlVars>>

-----------------------------------------------------------------------------
(* The loop of jcLoop() around the queued commands.                        *)

\* A report, or the error of a read from a lost device.
LoopRead ==
    /\ step = "loop"
    /\ \/ /\ toHost # <<>>
          /\ head' = Head(toHost).head
          /\ reply' = Tail13(Head(toHost))
          /\ toHost' = Tail(toHost)
       \/ /\ toHost = <<>> /\ link = "gone"
          /\ UNCHANGED <<dataVars, toHost>>
    /\ step' \in {"drain", "finMode"}
    /\ UNCHANGED <<phase, attempts, tries, ok, command, hostScale, cal, commands,
                   gaveUp, late, unheard, toCtl, link, ctlVars>>

RunCommand ==
    /\ step = "drain"
    /\ commands < MaxCommands
    /\ commands' = commands + 1
    /\ command' \in CommandRequests
    /\ Goto("command")
    /\ UNCHANGED <<attempts, ok, hostScale, cal, gaveUp, late, unheard,
                   dataVars, linkVars, ctlVars>>

DrainDone ==
    /\ step = "drain"
    /\ step' = "loop"
    /\ UNCHANGED <<phase, attempts, tries, ok, command, hostScale, cal, commands,
                   gaveUp, late, unheard, dataVars, linkVars, ctlVars>>

-----------------------------------------------------------------------------
(* The controller and the link.                                            *)

Reply(m, ack) == [head |-> "reply", ack |-> ack, req |-> m.req, last |-> m.last]

Input(mode) == [head |-> mode, ack |-> FALSE, req |-> NoReply.req, last |-> FALSE]

Obey ==
    /\ toCtl # <<>>
    /\ LET m == Head(toCtl) IN
         /\ ctl' = IF m.req.sub \in DOMAIN ctl
                   THEN [ctl EXCEPT ![m.req.sub] = m.req.arg] ELSE ctl
         /\ toHost' = Append(toHost, Reply(m, TRUE))
    /\ toCtl' = Tail(toCtl)
    /\ UNCHANGED <<hostVars, dataVars, link, inputs, refused>>

\* The negative answer to a flash read echoes the address, too: read_spi() looks
\* only at the echo and takes it for the block.
Refuse ==
    /\ MayRefuse
    /\ toCtl # <<>>
    /\ toHost' = Append(toHost, Reply(Head(toCtl), FALSE))
    /\ toCtl' = Tail(toCtl)
    /\ refused' = TRUE
    /\ UNCHANGED <<hostVars, dataVars, link, ctl, inputs>>

SendInput ==
    /\ link = "up"
    /\ inputs < MaxInputs
    /\ inputs' = inputs + 1
    /\ toHost' = Append(toHost, Input(ctl.mode))
    /\ UNCHANGED <<hostVars, dataVars, toCtl, link, ctl, refused>>

\* What had been received can still be read.
Disconnect ==
    /\ link = "up"
    /\ link' = "gone"
    /\ toCtl' = <<>>
    /\ UNCHANGED <<hostVars, dataVars, toHost, ctlVars>>

Closed ==
    /\ step = "closed"
    /\ UNCHANGED vars

HostStep ==
    \/ Send \/ ReadReport \/ ReadTimesOut
    \/ RetrySpi \/ GetStickCal \/ GetImuCal \/ Advance \/ CommandDone
    \/ LoopRead \/ RunCommand \/ DrainDone

CtlStep == Obey \/ Refuse \/ SendInput

Next == HostStep \/ CtlStep \/ Disconnect \/ Closed

Spec == Init /\ [][Next]_vars

\* The worker runs, and its reads end after 200 ms; the controller owes
\* nothing.
FairSpec == Spec /\ WF_vars(HostStep)

-----------------------------------------------------------------------------
Requests == {FixedRequest[s] : s \in DOMAIN FixedRequest} \union CommandRequests

Answers == Requests \union {NoReply.req}

TypeOK ==
    /\ step \in ExchangeSteps \union {"loop", "drain", "closed"}
    /\ phase \in {"send", "recv", "returned"}
    /\ attempts \in 0..Attempts
    /\ tries \in 0..(SpiTries - 1)
    /\ ok \in BOOLEAN
    /\ command \in CommandRequests
    /\ head \in {"none", "reply", "simple", "full"}
    /\ reply \in [ack : BOOLEAN, req : Answers, last : BOOLEAN]
    /\ toCtl \in Seq([req : Requests, last : BOOLEAN])
    /\ toHost \in Seq([head : {"reply", "simple", "full"}, ack : BOOLEAN,
                       req : Answers, last : BOOLEAN])
    /\ link \in {"up", "gone"}
    /\ ctl \in [mode : {"simple", "full"}, lights : {"none", "number"},
                imu : {"on", "off"}, rumble : {"on", "off"}, scale : Scales]
    /\ hostScale \in Scales
    /\ cal \in [CalParts -> Blocks \union {"none", "garbage"}]
    /\ inputs \in 0..MaxInputs
    /\ commands \in 0..MaxCommands
    /\ gaveUp \subseteq CalParts
    /\ late \in BOOLEAN
    /\ refused \in BOOLEAN
    /\ unheard \in BOOLEAN

SetUp == step \in {"loop", "drain", "command", "finMode", "finLights", "finImu",
                   "finRumble", "closed"}

\* The block a part of the calibration should come from.
RightBlock(user, factory) == IF user \in UserCal THEN user ELSE factory

(***************************************************************************)
(* Once set up, every part of the calibration comes from the block it      *)
(* should come from, unless read_spi() used up its tries on a block of     *)
(* that part, whatever replies came late, twice or between input reports.  *)
(* About the echo test of read_spi().                                      *)
(***************************************************************************)
CalibrationRight ==
    SetUp =>
        /\ \/ cal["stick"] = RightBlock("stickUser", "stickFactory")
           \/ "stick" \in gaveUp
        /\ cal["stickParams"] = "stickParams" \/ "stickParams" \in gaveUp
        /\ \/ cal["imu"] = RightBlock("imuUser", "imuFactory")
           \/ "imu" \in gaveUp
        /\ cal["imuOffset"] = "imuOffset" \/ "imuOffset" \in gaveUp

\* The reply comm() has just accepted answers the request it has just sent.
OwnReply == phase = "returned" /\ ok => reply.last

(***************************************************************************)
(* A controller that answers within the time of a read, refuses nothing    *)
(* and sends fewer input reports than a comm() makes attempts is heard     *)
(* every time, and each reply taken is the answer to the request just      *)
(* sent.  About the attempts loop of comm().                               *)
(***************************************************************************)
PromptControllerIsHeard ==
    ~late /\ link = "up" /\ ~refused /\ inputs < Attempts =>
        ~unheard /\ gaveUp = {} /\ OwnReply

(***************************************************************************)
(* The multipliers of the worker and the sensitivity of the controller     *)
(* agree whenever no command is on its way, although set_imu_sensitivity() *)
(* does not look at the answer, as long as nothing is refused or lost.     *)
(***************************************************************************)
ScaleAgrees ==
    /\ step \in {"loop", "drain"}
    /\ toCtl = <<>> /\ link = "up" /\ ~refused
    => ctl.scale = hostScale

(***************************************************************************)
(* When the handle has been closed and the controller has handled what it  *)
(* was sent, it is quiet: simple reports, no lights, IMU and rumble off,   *)
(* in whatever order and however late the earlier commands arrived.        *)
(* About finish().                                                         *)
(***************************************************************************)
QuietAtTheEnd ==
    step = "closed" /\ toCtl = <<>> /\ link = "up" /\ ~refused =>
        /\ ctl.mode = "simple" /\ ctl.lights = "none"
        /\ ctl.imu = "off" /\ ctl.rumble = "off"

(***************************************************************************)
(* comm() reports "subcomm return correct" only for the reply to the       *)
(* request it has sent.                                                    *)
(***************************************************************************)
AcceptedIsOwn == OwnReply

(***************************************************************************)
(* setup_joycon() ends, whatever the controller does or does not do: also  *)
(* when it is silent or gone, so that every read times out and every flash *)
(* read is tried as often as it may be, and when replies come so late that *)
(* a later try finds them.  About the loops of read_spi() and comm().      *)
(***************************************************************************)
SetupEnds == <>SetUp
=============================================================================
