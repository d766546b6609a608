--------------------------- MODULE WifiProvisioning ---------------------------
(***************************************************************************)
(* echoctl wifi set: one wpa_cli command after the other on the supplicant *)
(* that Android owns.  A command may be refused, and it may be carried out *)
(* though its answer is lost; the supplicant may be restarted, and two     *)
(* operators may set a network at once.                                    *)
(***************************************************************************)
EXTENDS Naturals, Sequences, FiniteSets, FiniteSetsExt, SequencesExt

CONSTANTS
    Ssids, Setters,
    MaxRuns, MaxFaults, MaxRestarts  \* bounds

Blank == "blank"
Setup == <<"ssid", "scan_ssid", "key", "enable", "select", "save">>

VARIABLES
    networks, saved,        \* the supplicant's: by id, and as a restart finds them
    pc, ssid, listed, id, at,  \* of each run of configure: listed has yet to be removed
    runs, faults, restarts,
    \* History, read by properties only: runs that a restart met, or another one
    \* for the same name; that lost the answer to add_network or could not clean up;
    \* what was saved at first; the runs whose network was not there, or not whole,
    \* when another one saved; the networks that a run has added since the last start
    met, lost, first, mixed, made

supplicant == <<networks, saved>>
run == <<pc, ssid, listed, id, at>>
bounds == <<runs, faults, restarts>>
history == <<met, lost, first, mixed, made>>
vars == <<supplicant, run, bounds, history>>

Entries == {[ssid |-> s, key |-> TRUE, on |-> TRUE] : s \in Ssids}
Numbered(entries) == [i \in 0..Len(entries) - 1 |-> entries[i + 1]]
Ascending(ids) == [k \in 1..Cardinality(ids) |-> CHOOSE i \in ids : Cardinality({j \in ids : j < i}) = k - 1]
InOrder(nets) == LET ids == Ascending(DOMAIN nets) IN [k \in DOMAIN ids |-> nets[ids[k]]]
Without(nets, i) == [j \in DOMAIN nets \ {i} |-> nets[j]]
Running == {s \in Setters : pc[s] \notin {"idle", "ok", "failed"}}
Joinable(entries, name) == \E i \in DOMAIN entries : entries[i].ssid = name /\ entries[i].key

Init ==
    /\ saved \in UNION {[1..n -> Entries] : n \in 0..2} /\ networks = Numbered(saved)
    /\ pc = [s \in Setters |-> "idle"] /\ ssid \in [Setters -> Ssids]
    /\ listed = [s \in Setters |-> <<>>] /\ id = [s \in Setters |-> 0] /\ at = [s \in Setters |-> 1]
    /\ runs = 0 /\ faults = 0 /\ restarts = 0
    /\ met = [s \in Setters |-> FALSE] /\ lost = [s \in Setters |-> FALSE]
    /\ first = saved /\ mixed = [s \in Setters |-> FALSE] /\ made = [s \in Setters |-> {}]

-----------------------------------------------------------------------------
\* How a command ends: carried out, or refused, or carried out and its answer lost.
Carried(effect) == effect /\ UNCHANGED faults
Refused == faults < MaxFaults /\ faults' = faults + 1 /\ UNCHANGED supplicant
Unanswered(effect) == faults < MaxFaults /\ faults' = faults + 1 /\ effect

Removal(i) == i \in DOMAIN networks /\ networks' = Without(networks, i) /\ UNCHANGED saved
Missing(i) == i \notin DOMAIN networks /\ UNCHANGED <<supplicant, faults>>
\* set_network, enable_network, select_network and save_config.
Do(step, s) ==
    LET set(e) == networks' = [networks EXCEPT ![id[s]] = e] /\ UNCHANGED saved
        entry == networks[id[s]]
    IN  CASE step = "ssid"      -> set([entry EXCEPT !.ssid = ssid[s]])
          [] step = "scan_ssid" -> UNCHANGED supplicant
          [] step = "key"       -> set([entry EXCEPT !.key = TRUE])
          [] step = "enable"    -> set([entry EXCEPT !.on = TRUE])
          [] step = "select"    -> /\ networks' = [i \in DOMAIN networks |-> [networks[i] EXCEPT !.on = i = id[s]]]
                                   /\ UNCHANGED saved
          [] step = "save"      -> saved' = InOrder(networks) /\ UNCHANGED networks
\* A command that names a network that is not there; save_config names none.
Nameless(s) == Setup[at[s]] # "save" /\ id[s] \notin DOMAIN networks

-----------------------------------------------------------------------------
Fails(s) == pc' = [pc EXCEPT ![s] = "failed"]

\* list_networks; the output that is none ends the run before it changes anything.
List(s) ==
    /\ pc[s] = "idle" /\ runs < MaxRuns /\ runs' = runs + 1
    /\ LET others == {t \in Running : ssid[t] = ssid[s]}
       IN  met' = [t \in Setters |-> met[t] \/ t \in others \/ (t = s /\ others # {})]
    /\ \/ /\ listed' = [listed EXCEPT ![s] =
                Ascending({i \in DOMAIN networks : networks[i].ssid = ssid[s]})]
          /\ pc' = [pc EXCEPT ![s] = "remove"] /\ UNCHANGED <<supplicant, faults>>
       \/ Refused /\ Fails(s) /\ UNCHANGED listed
    /\ UNCHANGED <<ssid, id, at, restarts, lost, first, mixed, made>>

\* Mutant: what is removed is saved as it is removed.
RemoveListedSaved(s) ==
    /\ pc[s] = "remove" /\ listed[s] # <<>>
    /\ listed' = [listed EXCEPT ![s] = Tail(@)]
    /\ LET i == Head(listed[s])
           removed == i \in DOMAIN networks /\ networks' = Without(networks, i) /\ saved' = InOrder(networks')
       IN  \/ Carried(removed) /\ UNCHANGED pc
           \/ (Refused \/ Unanswered(removed) \/ Missing(i)) /\ Fails(s)
    /\ UNCHANGED <<ssid, id, at, runs, restarts, met, lost, first, mixed, made>>

\* The networks of the same name, one after the other.
RemoveListed(s) ==
    /\ pc[s] = "remove" /\ listed[s] # <<>>
    /\ listed' = [listed EXCEPT ![s] = Tail(@)]
    /\ LET i == Head(listed[s])
       IN  \/ Carried(Removal(i)) /\ UNCHANGED pc
           \/ (Refused \/ Unanswered(Removal(i)) \/ Missing(i)) /\ Fails(s)
    /\ UNCHANGED <<ssid, id, at, runs, restarts, met, lost, first, mixed, made>>

\* add_network: the supplicant numbers the new network after the last.
Add(s) ==
    /\ pc[s] = "remove" /\ listed[s] = <<>>
    /\ LET new == IF DOMAIN networks = {} THEN 0 ELSE Max(DOMAIN networks) + 1
           added == /\ networks' = [i \in DOMAIN networks \cup {new} |->
                        IF i = new THEN [ssid |-> Blank, key |-> FALSE, on |-> FALSE] ELSE networks[i]]
                    /\ made' = [t \in Setters |-> IF t = s THEN {new} ELSE made[t] \ {new}]
                    /\ UNCHANGED saved
       IN  \/ /\ Carried(added) /\ id' = [id EXCEPT ![s] = new] /\ at' = [at EXCEPT ![s] = 1]
              /\ pc' = [pc EXCEPT ![s] = "setup"] /\ UNCHANGED lost
           \/ Refused /\ Fails(s) /\ UNCHANGED <<id, at, lost, made>>
           \/ Unanswered(added) /\ Fails(s) /\ lost' = [lost EXCEPT ![s] = TRUE] /\ UNCHANGED <<id, at>>
    /\ UNCHANGED <<ssid, listed, runs, restarts, met, first, mixed>>

\* The runs that are not done when s has saved: no network of their name can be joined.
Mixed(s) ==
    [t \in Setters |-> \/ mixed[t]
                       \/ t # s /\ saved' # saved /\ pc[t] \notin {"idle", "ok"} /\ ~Joinable(networks, ssid[t])]

\* Mutant: it is not looked at whether the configuration was saved.
ConfigureSaved(s) ==
    /\ pc[s] = "setup" /\ at' = [at EXCEPT ![s] = @ + 1]
    /\ \/ /\ ~Nameless(s) /\ Carried(Do(Setup[at[s]], s))
          /\ pc' = [pc EXCEPT ![s] = IF at[s] = Len(Setup) THEN "ok" ELSE "setup"]
       \/ /\ \/ Nameless(s) /\ UNCHANGED <<supplicant, faults>>
             \/ Refused
             \/ ~Nameless(s) /\ Unanswered(Do(Setup[at[s]], s))
          /\ pc' = [pc EXCEPT ![s] = IF at[s] = Len(Setup) THEN "ok" ELSE "cleanup"]
    /\ mixed' = Mixed(s)
    /\ UNCHANGED <<ssid, listed, id, runs, restarts, met, lost, first, made>>

\* Mutant: a failure once the network is whole is returned without a cleanup.
ConfigureKept(s) ==
    /\ pc[s] = "setup" /\ at' = [at EXCEPT ![s] = @ + 1]
    /\ \/ /\ ~Nameless(s) /\ Carried(Do(Setup[at[s]], s))
          /\ pc' = [pc EXCEPT ![s] = IF at[s] = Len(Setup) THEN "ok" ELSE "setup"]
       \/ /\ \/ Nameless(s) /\ UNCHANGED <<supplicant, faults>>
             \/ Refused
             \/ ~Nameless(s) /\ Unanswered(Do(Setup[at[s]], s))
          /\ pc' = [pc EXCEPT ![s] = IF at[s] > 3 THEN "failed" ELSE "cleanup"]
    /\ mixed' = Mixed(s)
    /\ UNCHANGED <<ssid, listed, id, runs, restarts, met, lost, first, made>>

\* configureNetwork.
Configure(s) ==
    /\ pc[s] = "setup" /\ at' = [at EXCEPT ![s] = @ + 1]
    /\ \/ /\ ~Nameless(s) /\ Carried(Do(Setup[at[s]], s))
          /\ pc' = [pc EXCEPT ![s] = IF at[s] = Len(Setup) THEN "ok" ELSE "setup"]
       \/ /\ \/ Nameless(s) /\ UNCHANGED <<supplicant, faults>>
             \/ Refused
             \/ ~Nameless(s) /\ Unanswered(Do(Setup[at[s]], s))
          /\ pc' = [pc EXCEPT ![s] = "cleanup"]
    /\ mixed' = Mixed(s)
    /\ UNCHANGED <<ssid, listed, id, runs, restarts, met, lost, first, made>>

\* Mutant: a failure is returned without removing the network.
CleanupNothing(s) ==
    /\ pc[s] = "cleanup" /\ Fails(s)
    /\ UNCHANGED <<supplicant, ssid, listed, id, at, bounds, history>>

\* Mutant: what is left after the removal is saved.
CleanupSaved(s) ==
    /\ pc[s] = "cleanup" /\ Fails(s)
    /\ \/ /\ id[s] \in DOMAIN networks /\ networks' = Without(networks, id[s]) /\ saved' = InOrder(networks')
          /\ UNCHANGED <<faults, lost>>
       \/ Missing(id[s]) /\ UNCHANGED lost
       \/ Refused /\ lost' = [lost EXCEPT ![s] = TRUE]
    /\ UNCHANGED <<ssid, listed, id, at, runs, restarts, met, first, mixed, made>>

\* cleanupNetwork, whose own failure is not looked at.
Cleanup(s) ==
    /\ pc[s] = "cleanup" /\ Fails(s)
    /\ \/ Carried(Removal(id[s])) /\ UNCHANGED lost
       \/ Unanswered(Removal(id[s])) /\ UNCHANGED lost
       \/ Missing(id[s]) /\ UNCHANGED lost
       \/ Refused /\ lost' = [lost EXCEPT ![s] = TRUE]
    /\ UNCHANGED <<ssid, listed, id, at, runs, restarts, met, first, mixed, made>>

\* The device is started again: networks are as they were saved, and numbered
\* anew.  An operator's run that is under way goes on, with the numbers it has.
Restart ==
    /\ restarts < MaxRestarts /\ restarts' = restarts + 1
    /\ networks' = Numbered(saved) /\ UNCHANGED saved
    /\ met' = [s \in Setters |-> met[s] \/ s \in Running]
    /\ made' = [s \in Setters |-> {}]
    /\ UNCHANGED <<run, runs, faults, lost, first, mixed>>

Next ==
    \/ \E s \in Setters : List(s) \/ RemoveListed(s) \/ Add(s) \/ Configure(s) \/ Cleanup(s)
    \/ Restart
Spec == Init /\ [][Next]_vars

-----------------------------------------------------------------------------
Named(entries, name) == {i \in DOMAIN entries : entries[i].ssid = name}
Alone == \A s \in Setters : ~met[s]

\* "Duplicate SSIDs are removed": a run that reported success has made its network
\* the one of its name, on and with its key, in what is saved too; until another
\* run for the name begins.
SuccessIsSaved ==
    \A s \in Setters : pc[s] = "ok" /\ Alone /\ (\A t \in Setters \ {s} : ssid[t] # ssid[s] \/ pc[t] = "idle") =>
        /\ Cardinality(Named(saved, ssid[s])) = 1 /\ \A i \in Named(saved, ssid[s]) : saved[i].key
        /\ Cardinality(Named(networks, ssid[s])) = 1

\* "A failed new-network setup removes its newly created entry", whichever of the
\* six commands failed: a network that a run has added is gone when the run has
\* failed, unless the run never learnt its number or its removal was refused.  What
\* is saved without its key was saved by another run, before that could be.
FailureLeavesNothing ==
    /\ \A s \in Setters : \A i \in made[s] \cap DOMAIN networks :
          pc[s] = "ok" \/ lost[s] \/ (pc[s] \in {"setup", "cleanup"} /\ id[s] = i)
    /\ Alone => \A i \in DOMAIN saved : saved[i].key \/ \E s \in Setters : lost[s] \/ mixed[s]

\* A network that was saved can be joined after a restart, whatever fails and
\* whenever: it is removed from what runs only, until the new one is saved.  Only
\* another run's save takes it away, made while no network of that name runs.
SavedStaysUsable ==
    Alone => \A name \in Ssids : Joinable(first, name) =>
        Joinable(saved, name) \/ \E s \in Setters : ssid[s] = name /\ mixed[s]

\* Not so: a run that fails leaves the running supplicant without the network it
\* was to replace, and a failure after the selection leaves every other off.
FailureLeavesOnline ==
    (\E i \in DOMAIN first : TRUE) /\ Alone /\ Running = {} => \E i \in DOMAIN networks : networks[i].on

\* The networks across commands that fail, restarts and a second operator.
WifiInvariant == SuccessIsSaved /\ FailureLeavesNothing /\ SavedStaysUsable
=============================================================================
