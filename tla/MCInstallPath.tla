---------------------------- MODULE MCInstallPath ----------------------------
EXTENDS InstallPath

Two    == [install |-> TRUE, args |-> <<"a", "i", "b">>, bypass |-> FALSE, tty |-> TRUE]
One    == [install |-> TRUE, args |-> <<"a">>, bypass |-> FALSE, tty |-> FALSE]
Bypass == [One EXCEPT !.bypass = TRUE]
Other  == [One EXCEPT !.install = FALSE]

MCCommands == {Two, One, Bypass, Other}
MCConfigs  == {[bypass_disabled |-> b, confirm |-> c] : b \in BOOLEAN, c \in BOOLEAN}

(* Installs without overrides, bypasses among two overrides, or a bypass among the
   five that make four rotations, beside a command refused for want of a token: what
   they share is the log, and the records of a verdict and of an override pass through
   it alike. *)
First == CHOOSE s \in Shims : TRUE
Given(cmds) == shim[First].cmd = cmds[1] /\ \A t \in Shims \ {First} : shim[t].cmd = cmds[2]
Installs == /\ overrides = MaxOverrides
            /\ \E cmds \in {<<Two, Other>>, <<One, One>>, <<One, Bypass>>} : Given(cmds)
            /\ ~config.bypass_disabled
            /\ config.confirm => shim[First].cmd.tty   \* it is only read then
            /\ offline = IF shim[First].cmd = Two THEN {"a"} ELSE {}
Bypasses == /\ \/ overrides = MaxOverrides - 2 /\ Given(<<Bypass, Bypass>>) /\ token = "good"
               \/ overrides = 0 /\ Given(<<Bypass, One>>) /\ token = "none"
            /\ ~config.confirm /\ offline = {} /\ up
MCInit == Init /\ (Installs \/ Bypasses)
MCSpec == MCInit /\ [][Next]_vars /\ Fairness
=============================================================================
