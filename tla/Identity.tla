-------------------------------- MODULE Identity --------------------------------
(***************************************************************************)
(* The libp2p identity of a rainbow node (src/main.go, the head of         *)
(* app.Action; loadOrInitPeerKey in src/setup.go): derived from a seed and *)
(* an index, or loaded from the file libp2p.key, which the first start     *)
(* generates.                                                              *)
(*                                                                         *)
(* The file is not created under its name in one step: os.WriteFile        *)
(* truncates, then writes, and the process may be killed, or the write may *)
(* fail, in between.  Nothing keeps two starts on one data directory       *)
(* apart until they open the datastore, well after that.                   *)
(***************************************************************************)
EXTENDS Integers

CONSTANTS
  Instances,  (* processes started with the same configuration              *)
  Seeds,      (* valid seeds                                                *)
  MaxStarts   (* bound: starts of each instance                             *)

ASSUME IdentityAssumption ==
  /\ Seeds \cap {"blank", "malformed", "absent", "key", "empty", "none"} = {}
  /\ MaxStarts \in Nat

Dirs == {"datadir", "credentials"}
Given == Seeds \cup {"blank", "malformed"}

\* Identities, and what the file libp2p.key may hold instead of one.
Key(n) == <<"key", n>>
Absent == <<"absent", 0>>
Empty == <<"empty", 0>>
None == <<"none", 0>>

Keys == {"key"} \X Nat
Contents == Keys \cup {Absent, Empty}
Derived == Seeds \X Nat
Identities == Keys \cup Derived

(***************************************************************************)
(* The configuration, the same for every start:                            *)
(*  libp2p      libp2p is enabled and no remote backend is set             *)
(*  credentials $CREDENTIALS_DIRECTORY is set                              *)
(*  file        the file `seed' of each directory                          *)
(*  flag        --seed, "blank" when not set                               *)
(*  index       --seed-index, -1 when not set                              *)
(*  peerBySeed  some --peering address has the form /p2p/rainbow-seed/N    *)
(*  locked      the datastore lets one process open it (not so flatfs)     *)
(***************************************************************************)
Configurations ==
  {c \in [libp2p : BOOLEAN, credentials : BOOLEAN,
          file : [Dirs -> Given \cup {"absent"}], flag : Given, index : {-1, 0},
          peerBySeed : BOOLEAN, locked : BOOLEAN] :
     c.credentials \/ c.file["credentials"] = "absent"}

VARIABLES
  conf,       (* the configuration                                          *)
  keyFile,    (* libp2p.key of each directory                               *)
  made,       (* how many keys were generated                               *)
  pc,         (* where the start of each instance is                        *)
  seed,       (* the seed it found                                          *)
  priv,       (* its identity, None before it has one                       *)
  starts,     (* how often it was started                                   *)
  last        (* history: the identity of the last start that came up       *)

locals == <<pc, seed, priv>>
vars == <<conf, keyFile, made, locals, starts, last>>

TypeOK ==
  /\ conf \in Configurations
  /\ keyFile \in [Dirs -> Contents]
  /\ made \in Nat
  /\ pc \in [Instances -> {"down", "readSeed", "readKey", "create", "write",
                           "peering", "open", "up", "failed", "lockedOut"}]
  /\ seed \in [Instances -> Given]
  /\ priv \in [Instances -> Identities \cup {None}]
  /\ starts \in [Instances -> 0..MaxStarts]
  /\ last \in Identities \cup {None}

\* A directory may hold a key of an earlier life of the node.
Init ==
  /\ conf \in Configurations
  /\ \E old \in SUBSET Dirs :
       /\ "credentials" \in old => conf.credentials
       /\ keyFile = [d \in Dirs |-> IF d \notin old THEN Absent
                                    ELSE IF d = "datadir" THEN Key(0) ELSE Key(1)]
  /\ made = 2
  /\ pc = [i \in Instances |-> "down"]
  /\ seed = [i \in Instances |-> "blank"]
  /\ priv = [i \in Instances |-> None]
  /\ starts = [i \in Instances |-> 0]
  /\ last = None

-----------------------------------------------------------------------------

Goto(i, l) == pc' = [pc EXCEPT ![i] = l]

\* app.Action returns an error.
Fail(i) ==
  /\ Goto(i, "failed")
  /\ UNCHANGED <<conf, keyFile, made, seed, priv, starts, last>>

secretsDir == IF conf.credentials THEN "credentials" ELSE "datadir"

\* No secrets are loaded when libp2p is off.
Start(i) ==
  /\ pc[i] = "down"
  /\ starts[i] < MaxStarts
  /\ starts' = [starts EXCEPT ![i] = @ + 1]
  /\ Goto(i, IF conf.libp2p THEN "readSeed" ELSE "up")
  /\ UNCHANGED <<conf, keyFile, made, seed, priv, last>>

\* The file counts if it exists, even an empty one; if not, the flag does.
FoundSeed ==
  IF conf.file[secretsDir] = "absent" THEN conf.flag ELSE conf.file[secretsDir]

\* Defect: a file that cannot be read is taken for a missing one.
SeedsReadLeniently == {FoundSeed, conf.flag}
SeedsRead == {FoundSeed}

UseSeed(s) == s # "blank" /\ conf.index >= 0

ReadSeed(i) ==
  /\ pc[i] = "readSeed"
  /\ \/ Fail(i)
     \/ \E s \in SeedsRead :
          /\ seed' = [seed EXCEPT ![i] = s]
          /\ IF UseSeed(s)
             THEN IF s \in Seeds
                  THEN Goto(i, "peering") /\ priv' = [priv EXCEPT ![i] = <<s, conf.index>>]
                  ELSE Goto(i, "failed") /\ UNCHANGED priv
             ELSE Goto(i, "readKey") /\ UNCHANGED priv
          /\ UNCHANGED <<conf, keyFile, made, starts, last>>

-----------------------------------------------------------------------------
(* loadOrInitPeerKey *)

Parses(c) == c \in Keys

\* os.ReadFile and what follows from it.  A file that does not exist calls for
\* a new key; one that holds no key is an error, now and at every later start.
ReadKey(i) ==
  /\ pc[i] = "readKey"
  /\ \/ Fail(i)
     \/ /\ keyFile[secretsDir] = Absent
        /\ made' = made + 1
        /\ priv' = [priv EXCEPT ![i] = Key(made)]
        /\ Goto(i, "create")
        /\ UNCHANGED <<conf, keyFile, seed, starts, last>>
     \/ /\ keyFile[secretsDir] # Absent
        /\ ~Parses(keyFile[secretsDir])
        /\ Goto(i, "lockedOut")
        /\ UNCHANGED <<conf, keyFile, made, seed, priv, starts, last>>
     \/ /\ Parses(keyFile[secretsDir])
        /\ priv' = [priv EXCEPT ![i] = keyFile[secretsDir]]
        /\ Goto(i, "peering")
        /\ UNCHANGED <<conf, keyFile, made, seed, starts, last>>

\* Defect: the new key is not written.
SavedNowhere(c) == UNCHANGED keyFile
Saved(c) == keyFile' = [keyFile EXCEPT ![secretsDir] = c]

\* os.WriteFile: the file is created, or truncated if it exists by now.
CreateKeyFile(i) ==
  /\ pc[i] = "create"
  /\ \/ Fail(i)
     \/ /\ Saved(Empty)
        /\ Goto(i, "write")
        /\ UNCHANGED <<conf, made, seed, priv, starts, last>>

\* Then written: keys have one length, so the last write counts.
WriteKeyFile(i) ==
  /\ pc[i] = "write"
  /\ \/ Fail(i)
     \/ /\ Saved(priv[i])
        /\ Goto(i, "peering")
        /\ UNCHANGED <<conf, made, seed, priv, starts, last>>

-----------------------------------------------------------------------------

\* The --peering addresses: one that does not parse is an error, and those by
\* seed need a seed and an index.
ParsePeering(i) ==
  /\ pc[i] = "peering"
  /\ \/ Fail(i)
     \/ /\ conf.peerBySeed => UseSeed(seed[i])
        /\ Goto(i, "open")
        /\ UNCHANGED <<conf, keyFile, made, seed, priv, starts, last>>

\* The rest of the setup.  External: the datastore's lock.
SetupWithLibp2p(i) ==
  /\ pc[i] = "open"
  /\ \/ Fail(i)
     \/ /\ conf.locked => \A j \in Instances : pc[j] # "up"
        /\ Goto(i, "up")
        /\ last' = priv[i]
        /\ UNCHANGED <<conf, keyFile, made, seed, priv, starts>>

\* The process ends, at any moment: stopped, killed, or after an error.
Die(i) ==
  /\ pc[i] # "down"
  /\ Goto(i, "down")
  /\ seed' = [seed EXCEPT ![i] = "blank"]
  /\ priv' = [priv EXCEPT ![i] = None]
  /\ UNCHANGED <<conf, keyFile, made, starts, last>>

Next ==
  \E i \in Instances :
    \/ Start(i)
    \/ ReadSeed(i)
    \/ ReadKey(i)
    \/ CreateKeyFile(i)
    \/ WriteKeyFile(i)
    \/ ParsePeering(i)
    \/ SetupWithLibp2p(i)
    \/ Die(i)

Spec == Init /\ [][Next]_vars

-----------------------------------------------------------------------------
(* Properties *)

(***************************************************************************)
(* main.go's help: the key is written to libp2p.key "and used in           *)
(* subsequent runs".  The node comes up with the identity it came up with  *)
(* last, whatever start was killed or failed in between.                   *)
(***************************************************************************)
IdentityIsStable == [][last # None => last' = last]_last

(***************************************************************************)
(* And its key can be loaded again: while it is up the file holds it,      *)
(* unless somebody is between truncating and writing that file.            *)
(***************************************************************************)
KeyInUseIsSaved ==
  (\A i \in Instances : pc[i] # "write") =>
    \A i \in Instances :
      pc[i] = "up" /\ priv[i] \in Keys => keyFile[secretsDir] = priv[i]

(***************************************************************************)
(* Why, as long as one process at a time uses the data directory: what a   *)
(* start loads is what the configuration and the key file say, and a key   *)
(* file is only made for a node that never came up.                        *)
(***************************************************************************)
Expected ==
  IF UseSeed(FoundSeed) THEN <<FoundSeed, conf.index>> ELSE keyFile[secretsDir]

IndInv ==
  /\ TypeOK
  /\ last # None => last = Expected
  /\ \A i \in Instances :
       /\ pc[i] = "down" => priv[i] = None
       /\ pc[i] = "readKey" => ~UseSeed(FoundSeed)
       /\ pc[i] \in {"create", "write"} =>
            /\ ~UseSeed(FoundSeed)
            /\ priv[i] \in Keys
            /\ last = None
       /\ pc[i] \in {"peering", "open"} => priv[i] = Expected
       /\ pc[i] = "up" => priv[i] \in {Expected, None}

(***************************************************************************)
(* README.md on the key file: generated "if none exist yet".  No start     *)
(* fails on what an earlier start has left.                                *)
(***************************************************************************)
NeverLockedOut == \A i \in Instances : pc[i] # "lockedOut"
=============================================================================
