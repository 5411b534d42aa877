---------------------------- MODULE MCResourceCrud ----------------------------
EXTENDS ResourceCrudProps, TLC

Everything == {"reject", "drop", "noid", "garble", "oddcode", "broken", "edit",
               "remove", "crash", "timeout", "config"}
AllAsync == {<<"POST", 202>>, <<"PUT", 202>>, <<"DELETE", 202>>}
=============================================================================
