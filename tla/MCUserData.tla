----------------------------- MODULE MCUserData -----------------------------
(* Small instances of UserData for TLC.                                        *)
EXTENDS UserData, TLC

\* projects.json, plugins.json, settings.json, presets.json and tutorials.json
FiveStores ==
    { [keep |-> "Aside",   saves |-> "locked", by |-> Threads],
      [keep |-> "Aside",   saves |-> "copied", by |-> Threads],
      [keep |-> "Aside",   saves |-> "copied", by |-> {Main}],
      [keep |-> "Aside",   saves |-> "reread", by |-> {Main}],
      [keep |-> "Nothing", saves |-> "reread", by |-> Threads] }

=============================================================================
