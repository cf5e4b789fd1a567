------------------------------ MODULE SelfUpdate ------------------------------
(***************************************************************************)
(* zotunnel upgrade and zotunnel uninstall (protocol/self_update.rs): the  *)
(* installed binary is compared with the latest release, the release is    *)
(* downloaded and unpacked beside it, the old file is removed and the new  *)
(* one copied in its place.  Every step can fail, and the command can be   *)
(* killed between any two.  Several commands may run at once; releases are *)
(* published, and withdrawn, at any time.                                  *)
(*                                                                         *)
(* A version is the sequence of its parts between dots.  A part that does  *)
(* not parse as a u32 ("0-rc") is Junk.                                    *)
(***************************************************************************)
EXTENDS Naturals, Sequences, FiniteSets

CONSTANTS
  Commands,   \* processes running upgrade or uninstall
  Releases,   \* tags that are the latest release at some time
  Junk,       \* a part of a version that is not a number
  None,       \* no file, no version
  Torn        \* a file truncated, or filled by two writers at once

ASSUME UpdateAssumption ==
  /\ Releases \subseteq Seq(Nat \cup {Junk}) /\ Releases # {}
  /\ Junk \notin Nat
  /\ {None, Torn} \cap Releases = {} /\ None # Torn

VARIABLES
  latest,     \* the tag GitHub names as the latest release
  bin,        \* the file at install_path: a version, None or Torn
  mixed,      \* two copies have had that file open at once
  pc,         \* where each command is
  own,        \* current_version: the version compiled into its process
  tag,        \* latest_tag: what it fetched
  linked,     \* the file it copies into is still the one at install_path
  installed,  \* the last version that was put in place whole
  lost,       \* since then: a replacement was cut short, or an uninstall
  baseline    \* history: the version last put in place by hand

cmdVars == <<pc, own, tag, linked>>
vars == <<latest, bin, mixed, cmdVars, installed, lost, baseline>>

(***************************************************************************)
(* An upgrade is "fetching" the tag, "downloading", "extracting",          *)
(* "replacing" (about to remove the old file), "opening" the new one and   *)
(* "copying" into it.  An uninstall is "removing" the file and then        *)
(* "clearing" ~/.zotunnel, which holds it by default.                      *)
(***************************************************************************)
Replacing == {"opening", "copying"}
Locations == {"idle", "fetching", "downloading", "extracting", "replacing",
              "removing", "clearing"} \cup Replacing

TypeOK ==
  /\ latest \in Releases
  /\ bin \in Releases \cup {None, Torn}
  /\ mixed \in BOOLEAN
  /\ pc \in [Commands -> Locations]
  /\ own \in [Commands -> Releases \cup {None}]
  /\ tag \in [Commands -> Releases \cup {None}]
  /\ linked \in [Commands -> BOOLEAN]
  /\ installed \in Releases
  /\ lost \in BOOLEAN
  /\ baseline \in Releases

Init ==
  /\ latest \in Releases
  /\ bin \in Releases
  /\ mixed = FALSE
  /\ pc = [c \in Commands |-> "idle"]
  /\ own = [c \in Commands |-> None]
  /\ tag = [c \in Commands |-> None]
  /\ linked = [c \in Commands |-> FALSE]
  /\ installed = bin
  /\ lost = FALSE
  /\ baseline = bin

-----------------------------------------------------------------------------
(* Versions.                                                               *)

(* The parts that are numbers, the first three of them, missing ones zero. *)
parse(v) ==
  LET numbers == {p \in DOMAIN v : v[p] # Junk}
      nth(i)  == {p \in numbers : Cardinality({q \in numbers : q <= p}) = i}
  IN  [i \in 1 .. 3 |-> IF nth(i) = {} THEN 0 ELSE v[CHOOSE p \in nth(i) : TRUE]]

(* The order of Rust's tuples. *)
TupleLess(a, b) ==
  \E i \in 1 .. 3 : a[i] < b[i] /\ \A j \in 1 .. i - 1 : a[j] = b[j]

(* Fault: any other version counts as newer. *)
is_newer_Differs(current, new) == parse(current) # parse(new)

is_newer(current, new) == TupleLess(parse(current), parse(new))

-----------------------------------------------------------------------------
(* Upgrade.                                                                *)

GoTo(c, l) == pc' = [pc EXCEPT ![c] = l]

(* The command ends and is forgotten; what it did to the disk stays. *)
Forget(c) ==
  /\ GoTo(c, "idle")
  /\ own' = [own EXCEPT ![c] = None]
  /\ tag' = [tag EXCEPT ![c] = None]
  /\ linked' = [linked EXCEPT ![c] = FALSE]

(* A command is a process of the installed binary. *)
Start(c, l) ==
  /\ pc[c] = "idle"
  /\ bin \in Releases
  /\ GoTo(c, l)
  /\ own' = [own EXCEPT ![c] = bin]
  /\ UNCHANGED <<latest, bin, mixed, tag, linked, installed, lost, baseline>>

(* fetch_latest_version, and "Already up to date". *)
Fetch(c) ==
  /\ pc[c] = "fetching"
  /\ IF is_newer(own[c], latest)
     THEN /\ GoTo(c, "downloading")
          /\ tag' = [tag EXCEPT ![c] = latest]
          /\ UNCHANGED <<own, linked>>
     ELSE Forget(c)
  /\ UNCHANGED <<latest, bin, mixed, installed, lost, baseline>>

(* Fault: the old file makes room before the new one is unpacked. *)
Download_RemovesOld(c) ==
  /\ pc[c] = "downloading"
  /\ GoTo(c, "extracting")
  /\ bin' = None
  /\ UNCHANGED <<latest, mixed, own, tag, linked, installed, lost, baseline>>

(* curl wrote the tarball into a new temporary directory. *)
Download(c) ==
  /\ pc[c] = "downloading"
  /\ GoTo(c, "extracting")
  /\ UNCHANGED <<latest, bin, mixed, own, tag, linked, installed, lost, baseline>>

(* tar unpacked it and the binary is in it. *)
Extract(c) ==
  /\ pc[c] = "extracting"
  /\ GoTo(c, "replacing")
  /\ UNCHANGED <<latest, bin, mixed, own, tag, linked, installed, lost, baseline>>

(* The first half of copy_with_fallback: the old file is unlinked, and     *)
(* with it every copy in progress; a failure is ignored.                   *)
RemoveOld(c) ==
  /\ pc[c] = "replacing"
  /\ GoTo(c, "opening")
  /\ \/ /\ bin' = None
        /\ mixed' = FALSE
        /\ linked' = [d \in Commands |-> FALSE]
     \/ UNCHANGED <<bin, mixed, linked>>
  /\ UNCHANGED <<latest, own, tag, installed, lost, baseline>>

(* fs::copy, or sudo cp, opens the file and truncates it. *)
OpenCopy(c) ==
  /\ pc[c] = "opening"
  /\ GoTo(c, "copying")
  /\ bin' = Torn
  /\ mixed' = (\E d \in Commands : linked[d])
  /\ linked' = [linked EXCEPT ![c] = TRUE]
  /\ UNCHANGED <<latest, own, tag, installed, lost, baseline>>

(* Fault: the command forgets its tag before it installs it. *)
FinishCopy_TagGone(c) ==
  /\ pc[c] = "copying"
  /\ Forget(c)
  /\ bin' = tag'[c] /\ installed' = tag'[c] /\ lost' = FALSE
  /\ UNCHANGED <<latest, mixed, baseline>>

(* The file is complete, and executable.  A copy whose file was unlinked   *)
(* changes nothing; one that had company may leave any mixture.            *)
FinishCopy(c) ==
  /\ pc[c] = "copying"
  /\ Forget(c)
  /\ IF linked[c] /\ ~mixed
     THEN bin' = tag[c] /\ installed' = tag[c] /\ lost' = FALSE
     ELSE /\ lost' = TRUE
          /\ IF linked[c] THEN bin' \in {Torn, bin, tag[c]} ELSE bin' = bin
          /\ UNCHANGED installed
  /\ UNCHANGED <<latest, mixed, baseline>>

(* A step fails, or the command is killed. *)
Abandon(c) ==
  /\ pc[c] # "idle"
  /\ Forget(c)
  /\ lost' = (lost \/ pc[c] \in Replacing)
  /\ UNCHANGED <<latest, bin, mixed, installed, baseline>>

-----------------------------------------------------------------------------
(* Uninstall.                                                              *)

Unlink ==
  /\ bin' = None
  /\ mixed' = FALSE
  /\ lost' = TRUE

(* remove_with_sudo, if the file is there. *)
RemoveBinary(c) ==
  /\ pc[c] = "removing"
  /\ GoTo(c, "clearing")
  /\ Unlink
  /\ linked' = [d \in Commands |-> FALSE]
  /\ UNCHANGED <<latest, own, tag, installed, baseline>>

(* remove_dir_all on ~/.zotunnel; its result is ignored. *)
ClearHome(c) ==
  /\ pc[c] = "clearing"
  /\ GoTo(c, "idle")
  /\ own' = [own EXCEPT ![c] = None]
  /\ UNCHANGED tag
  /\ \/ Unlink /\ linked' = [d \in Commands |-> FALSE]
     \/ UNCHANGED <<bin, mixed, lost, linked>>
  /\ UNCHANGED <<latest, installed, baseline>>

-----------------------------------------------------------------------------
(* The project publishes or withdraws a release. *)
Publish ==
  /\ latest' \in Releases \ {latest}
  /\ UNCHANGED <<bin, mixed, cmdVars, installed, lost, baseline>>

(* The install script puts the latest release in place. *)
Reinstall ==
  /\ \A c \in Commands : pc[c] = "idle"
  /\ bin \in {None, Torn}
  /\ bin' = latest /\ installed' = latest /\ baseline' = latest
  /\ mixed' = FALSE /\ lost' = FALSE
  /\ UNCHANGED <<latest, cmdVars>>

Upgrade(c) ==
  \/ Start(c, "fetching") \/ Fetch(c) \/ Download(c) \/ Extract(c)
  \/ RemoveOld(c) \/ OpenCopy(c) \/ FinishCopy(c)

Uninstall(c) == Start(c, "removing") \/ RemoveBinary(c) \/ ClearHome(c)

Next ==
  \/ \E c \in Commands : Upgrade(c) \/ Uninstall(c) \/ Abandon(c)
  \/ Publish \/ Reinstall

Spec == Init /\ [][Next]_vars

-----------------------------------------------------------------------------
(* Properties.                                                             *)

(* The installed binary is missing or incomplete only while a replacement  *)
(* is between removing the old file and completing the new one, or if one  *)
(* was cut short just there, or two collided, or after an uninstall.  A    *)
(* failed download, a bad tarball or a command killed earlier leaves a     *)
(* binary that runs.                                                       *)
LostOnlyInReplacement ==
  bin \notin Releases => lost \/ \E c \in Commands : pc[c] \in Replacing

(* The order of versions, for those that are three numbers. *)
Plain(v) == Len(v) = 3 /\ \A i \in 1 .. 3 : v[i] # Junk
Older(v, w) ==
  \/ v[1] < w[1]
  \/ v[1] = w[1] /\ v[2] < w[2]
  \/ v[1] = w[1] /\ v[2] = w[2] /\ v[3] < w[3]

(* Upgrades never take an installation below the version it started from,  *)
(* also when releases are withdrawn and older ones are the latest again,   *)
(* and when upgrades overtake one another: each compares the latest        *)
(* release with the version compiled into its own process, not with the    *)
(* file it replaces.                                                       *)
NotBelowBaseline ==
  (bin \in Releases /\ Plain(baseline) /\ Plain(bin)) =>
     bin = baseline \/ Older(baseline, bin)
=============================================================================
