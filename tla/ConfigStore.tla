----------------------------- MODULE ConfigStore -----------------------------
(***************************************************************************)
(* What a gateway promises its controller about configuration changes: one *)
(* installed set of files at a time, at most one proposal beside it, and a *)
(* proposal that either becomes the installed set as a whole or vanishes   *)
(* without a trace.  Files, units, timers, crashes and the order of writes *)
(* are the business of module Transactions, which implements this one.     *)
(***************************************************************************)

CONSTANTS
    Tx,       \* transaction identifiers, 32 hex digits chosen by the controller
    Groups,   \* validated topologies a controller may ask for
    None,     \* no manifest, no proposal
    Factory   \* the configuration a bootstrap installs, before any transaction

VARIABLES
    installed,  \* the files every later transaction starts from
    proposal    \* the version on trial, or None

storeVars == <<installed, proposal>>

Version == [tx : Tx, groups : Groups]

\* The three files a gateway keeps, and the set a version renders to.
Files == [config   : Groups \cup {Factory},
          firewall : Groups \cup {Factory},
          manifest : Version \cup {None}]

Whole(v) == [config |-> v.groups, firewall |-> v.groups, manifest |-> v]

FactoryFiles == [config |-> Factory, firewall |-> Factory, manifest |-> None]

Coherent == {FactoryFiles} \cup {Whole(v) : v \in Version}

StoreInit == installed = FactoryFiles /\ proposal = None

Propose(v) ==
    /\ proposal = None
    /\ installed.manifest # None => installed.manifest.tx # v.tx
    /\ proposal' = v
    /\ UNCHANGED installed

Accept ==
    /\ proposal # None
    /\ installed' = Whole(proposal)
    /\ proposal' = None

Abandon ==
    /\ proposal # None
    /\ proposal' = None
    /\ UNCHANGED installed

StoreNext == (\E v \in Version : Propose(v)) \/ Accept \/ Abandon

StoreSpec == StoreInit /\ [][StoreNext]_storeVars
==============================================================================
