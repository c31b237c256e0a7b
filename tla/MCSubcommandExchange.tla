------------------------ MODULE MCSubcommandExchange ------------------------
(* Small instances of SubcommandExchange for TLC.                          *)
EXTENDS SubcommandExchange

MCUserStick == {"stickUser"}
MCUserImu == {"imuUser"}
MCScales == {"2000dps", "500dps"}
MCDefaultScale == "2000dps"

(***************************************************************************)
(* The set-up has gone well up to the last flash read: the state of Spec   *)
(* there when every request was answered at once and nothing else was      *)
(* sent.                                                                   *)
(***************************************************************************)
MCInitOffset ==
    /\ step = "imuOffset"
    /\ phase = "send"
    /\ attempts = 0
    /\ tries = 0
    /\ ok = TRUE
    /\ command = Req("voltage", "none")
    /\ cal = [stick |-> RightBlock("stickUser", "stickFactory"),
              stickParams |-> "stickParams",
              imu |-> RightBlock("imuUser", "imuFactory"),
              imuOffset |-> "none"]
    /\ head = "reply"
    /\ reply = [ack |-> TRUE, req |-> Req("spi", cal["imu"]), last |-> TRUE]
    /\ toCtl = <<>>
    /\ toHost = <<>>
    /\ link = "up"
    /\ ctl = [mode |-> "simple", lights |-> "none", imu |-> "off",
              rumble |-> "on", scale |-> DefaultScale]
    /\ hostScale = DefaultScale
    /\ inputs = 0
    /\ commands = 0
    /\ gaveUp = {}
    /\ late = FALSE
    /\ refused = FALSE
    /\ unheard = FALSE

MCOffsetSpec == MCInitOffset /\ [][Next]_vars
=============================================================================
