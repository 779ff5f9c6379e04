------------------------------ MODULE MCRules ------------------------------
(***************************************************************************)
(* The pure rules, over the inputs each of their modules lists, and beside *)
(* them five small machines that share nothing: the first step chooses a  *)
(* rule's input or one of the machines, which then goes on alone.          *)
(***************************************************************************)
EXTENDS AccessRules, StreamTokens, M3uFormat, StreamArgs, Licensing, LivePanel, Backups, Alerts, Epg, TLC

Inputs == AccessInputs \cup LinkInputs \cup M3uInputs \cup ArgInputs
Machines == {[rule |-> "licence"], [rule |-> "panel"], [rule |-> "backup"],
             [rule |-> "alerts"], [rule |-> "epg"]}

Key(max, expires, fails) == [max |-> max, expires |-> expires, fails |-> fails]

MCLicenceKeys ==
    {Key(5, 1, "none"), Key(0, Never, "none"), Key(1, 3, "signature"), Key(7, 2, "format")}

Show(on) == [on |-> on, dated |-> TRUE]

\* A file may name a channel it does not declare, and hold dates that cannot be read.
MCXmltvFiles ==
    {[channels |-> <<"a", "b">>, shows |-> <<Show("c"), Show("a"), Show("b")>>],
     [channels |-> <<"b">>, shows |-> <<[on |-> "b", dated |-> FALSE], Show("b"), Show("a")>>],
     [channels |-> <<"a">>, shows |-> <<>>]}

\* backup.keepCount may be any number; TLC's configurations have no negative ones.
MCKeeps == {-1, 0, 1}

machineVars == <<licenceVars, panelVars, backupVars, alertVars, epgVars>>

Init ==
    input = NoInput /\ LicenceInit /\ PanelInit /\ BackupInit /\ AlertsInit /\ EpgInit

Next ==
    \/ input = NoInput /\ input' \in Inputs \cup Machines /\ UNCHANGED machineVars
    \/ input \in Inputs /\ input' = NoInput /\ UNCHANGED machineVars
    \/ /\ input.rule = "licence" /\ LicenceNext
       /\ UNCHANGED <<input, panelVars, backupVars, alertVars, epgVars>>
    \/ /\ input.rule = "panel" /\ PanelNext
       /\ UNCHANGED <<input, licenceVars, backupVars, alertVars, epgVars>>
    \/ /\ input.rule = "backup" /\ BackupNext
       /\ UNCHANGED <<input, licenceVars, panelVars, alertVars, epgVars>>
    \/ /\ input.rule = "alerts" /\ AlertsNext
       /\ UNCHANGED <<input, licenceVars, panelVars, backupVars, epgVars>>
    \/ /\ input.rule = "epg" /\ EpgNext
       /\ UNCHANGED <<input, licenceVars, panelVars, backupVars, alertVars>>

Spec == Init /\ [][Next]_<<input, machineVars>>
=============================================================================
