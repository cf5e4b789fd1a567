---------------------------- MODULE SelfUpdateProofs ----------------------------
(***************************************************************************)
(* Proofs about SelfUpdate, for any number of commands running at once and *)
(* any set of releases: types, when the installed binary can be lost, and  *)
(* that upgrades never go below the version they started from, also those  *)
(* that overtake one another.                                              *)
(***************************************************************************)
EXTENDS SelfUpdate, FiniteSetTheorems, TLAPS

(* From the comparison on, an upgrade knows the release it installs. *)
Installing == {"downloading", "extracting", "replacing"} \cup Replacing
Tagged == \A c \in Commands : pc[c] \in Installing => tag[c] \in Releases

IInv == TypeOK /\ Tagged /\ LostOnlyInReplacement

(* Commands start on an installed binary. *)
LEMMA InitIInv == Init => IInv
BY UpdateAssumption
   DEF Init, IInv, TypeOK, Tagged, Installing, LostOnlyInReplacement, Locations, Replacing

(* Steps before the old file is touched: the binary and every replacement  *)
(* of another command stay as they are.                                    *)
LEMMA EarlySteps ==
  ASSUME IInv, NEW c \in Commands,
         \/ Start(c, "fetching") \/ Start(c, "removing")
         \/ Fetch(c) \/ Download(c) \/ Extract(c)
  PROVE  IInv'
<1> USE UpdateAssumption DEF IInv, TypeOK, Locations, Replacing, GoTo, Forget
<1>1. TypeOK' BY DEF Start, Fetch, Download, Extract
<1>2. Tagged' BY DEF Tagged, Installing, Start, Fetch, Download, Extract
<1>3. bin' = bin /\ lost' = lost BY DEF Start, Fetch, Download, Extract
<1>4. \A d \in Commands : pc[d] \in Replacing => pc'[d] \in Replacing
  BY DEF Start, Fetch, Download, Extract
<1>5. LostOnlyInReplacement' BY <1>3, <1>4 DEF LostOnlyInReplacement
<1> QED BY <1>1, <1>2, <1>5 DEF IInv

(* The old file goes and the new one is opened: this very command is in    *)
(* the middle of its replacement.                                          *)
LEMMA ReplaceSteps ==
  ASSUME IInv, NEW c \in Commands, RemoveOld(c) \/ OpenCopy(c)
  PROVE  IInv'
<1> USE UpdateAssumption DEF IInv, TypeOK, Locations, Replacing, GoTo
<1>1. TypeOK' BY DEF RemoveOld, OpenCopy
<1>2. Tagged' BY DEF Tagged, Installing, RemoveOld, OpenCopy
<1>3. pc'[c] \in Replacing BY DEF RemoveOld, OpenCopy
<1>4. LostOnlyInReplacement' BY <1>3 DEF LostOnlyInReplacement
<1> QED BY <1>1, <1>2, <1>4 DEF IInv

(* The replacement is completed, or leaves a mark that it was not. *)
LEMMA FinishStep ==
  ASSUME IInv, NEW c \in Commands, FinishCopy(c)
  PROVE  IInv'
<1> USE UpdateAssumption DEF IInv, TypeOK, Tagged, Installing, Locations, Replacing, GoTo, Forget, FinishCopy
<1>1. tag[c] \in Releases OBVIOUS
<1>2. TypeOK' BY <1>1
<1>3. Tagged' OBVIOUS
<1>4. bin' \in Releases \/ lost' BY <1>1
<1>5. LostOnlyInReplacement' BY <1>4 DEF LostOnlyInReplacement
<1> QED BY <1>2, <1>3, <1>5 DEF IInv

(* A command that fails or is killed in its replacement leaves a mark. *)
LEMMA AbandonStep ==
  ASSUME IInv, NEW c \in Commands, Abandon(c)
  PROVE  IInv'
<1> USE UpdateAssumption DEF IInv, TypeOK, Locations, Replacing, GoTo, Forget, Abandon
<1>1. TypeOK' OBVIOUS
<1>2. Tagged' BY DEF Tagged, Installing
<1>3. \A d \in Commands \ {c} : pc'[d] = pc[d] OBVIOUS
<1>4. bin' = bin /\ (pc[c] \in Replacing => lost') /\ (lost => lost') OBVIOUS
<1>5. LostOnlyInReplacement' BY <1>3, <1>4 DEF LostOnlyInReplacement
<1> QED BY <1>1, <1>2, <1>5 DEF IInv

(* An uninstall means to lose the binary. *)
LEMMA UninstallSteps ==
  ASSUME IInv, NEW c \in Commands, RemoveBinary(c) \/ ClearHome(c)
  PROVE  IInv'
<1> USE UpdateAssumption DEF IInv, TypeOK, Locations, Replacing, GoTo, Unlink
<1>1. TypeOK' BY DEF RemoveBinary, ClearHome
<1>2. Tagged' BY DEF Tagged, Installing, RemoveBinary, ClearHome
<1>3. lost' \/ (bin' = bin /\ lost' = lost) BY DEF RemoveBinary, ClearHome
<1>4. \A d \in Commands : pc[d] \in Replacing => pc'[d] \in Replacing
  BY DEF RemoveBinary, ClearHome
<1>5. LostOnlyInReplacement' BY <1>3, <1>4 DEF LostOnlyInReplacement
<1> QED BY <1>1, <1>2, <1>5 DEF IInv

(* Every step keeps the invariant. *)
LEMMA NextIInv == IInv /\ [Next]_vars => IInv'
<1> SUFFICES ASSUME IInv, [Next]_vars PROVE IInv'
  OBVIOUS
<1>1. CASE Publish
  BY <1>1 DEF Publish, IInv, TypeOK, Tagged, LostOnlyInReplacement, cmdVars
<1>2. CASE Reinstall
  BY <1>2 DEF Reinstall, IInv, TypeOK, Tagged, LostOnlyInReplacement, cmdVars
<1>3. CASE UNCHANGED vars
  BY <1>3 DEF vars, cmdVars, IInv, TypeOK, Tagged, LostOnlyInReplacement
<1> QED BY <1>1, <1>2, <1>3, EarlySteps, ReplaceSteps, FinishStep, AbandonStep, UninstallSteps
        DEF Next, Upgrade, Uninstall

(* The inductive invariant holds in every reachable state. *)
THEOREM InductiveInvariant == Spec => []IInv
BY InitIInv, NextIInv, PTL DEF Spec

(* What is at install_path is nothing, a torn file or a release, and what  *)
(* was last put in place whole is a release.                               *)
THEOREM TypeCorrect == Spec => []TypeOK
<1>1. IInv => TypeOK BY DEF IInv
<1> QED BY <1>1, InductiveInvariant, PTL

(* However many upgrades and uninstalls run, fail or are killed, only a    *)
(* replacement in progress or cut short, or an uninstall, costs the binary. *)
THEOREM BinaryLostOnlyInReplacement == Spec => []LostOnlyInReplacement
<1>1. IInv => LostOnlyInReplacement BY DEF IInv
<1> QED BY <1>1, InductiveInvariant, PTL

-----------------------------------------------------------------------------
(* A version of three numbers is read as it stands. *)
LEMMA ParsePlain ==
  ASSUME NEW v \in Releases, Plain(v), NEW i \in 1 .. 3
  PROVE  parse(v)[i] = v[i]
<1> DEFINE numbers == {p \in DOMAIN v : v[p] # Junk}
           nth     == {p \in numbers : Cardinality({q \in numbers : q <= p}) = i}
<1>1. v \in Seq(Nat \cup {Junk}) /\ Len(v) = 3 /\ DOMAIN v = 1 .. 3
  BY UpdateAssumption DEF Plain
<1>2. numbers = 1 .. 3 BY <1>1 DEF Plain
<1>3. ASSUME NEW p \in 1 .. 3
      PROVE  Cardinality({q \in numbers : q <= p}) = p
  <2>1. {q \in numbers : q <= p} = 1 .. p BY <1>2
  <2>2. 1 \in Int /\ p \in Int /\ 1 <= p /\ p - 1 + 1 = p OBVIOUS
  <2>3. Cardinality(1 .. p) = p - 1 + 1 BY <2>2, FS_Interval
  <2> QED BY <2>1, <2>2, <2>3
<1>4. nth = {i} BY <1>2, <1>3
<1>5. parse(v)[i] = IF nth = {} THEN 0 ELSE v[CHOOSE p \in nth : TRUE] BY DEF parse
<1>6. (CHOOSE p \in nth : TRUE) = i BY <1>4
<1> QED BY <1>4, <1>5, <1>6

(* A version is read as three numbers. *)
LEMMA ParseType ==
  ASSUME NEW v \in Releases, NEW i \in 1 .. 3
  PROVE  parse(v)[i] \in Nat
<1> DEFINE numbers == {p \in DOMAIN v : v[p] # Junk}
           nth     == {p \in numbers : Cardinality({q \in numbers : q <= p}) = i}
<1>1. v \in Seq(Nat \cup {Junk}) BY UpdateAssumption
<1>2. \A p \in DOMAIN v : v[p] \in Nat \cup {Junk} BY <1>1
<1>3. \A p \in nth : v[p] \in Nat BY <1>2
<1>4. parse(v)[i] = IF nth = {} THEN 0 ELSE v[CHOOSE p \in nth : TRUE] BY DEF parse
<1>5. nth # {} => (CHOOSE p \in nth : TRUE) \in nth OBVIOUS
<1> QED BY <1>3, <1>4, <1>5

(* The comparison, with the numbers written out. *)
LEMMA LessExpanded ==
  ASSUME NEW v \in Releases, NEW w \in Releases
  PROVE  is_newer(v, w) <=>
           \/ parse(v)[1] < parse(w)[1]
           \/ parse(v)[1] = parse(w)[1] /\ parse(v)[2] < parse(w)[2]
           \/ /\ parse(v)[1] = parse(w)[1] /\ parse(v)[2] = parse(w)[2]
              /\ parse(v)[3] < parse(w)[3]
<1> DEFINE a == parse(v)
           b == parse(w)
           At(i) == a[i] < b[i] /\ \A j \in 1 .. i - 1 : a[j] = b[j]
<1>1. At(1) <=> a[1] < b[1] OBVIOUS
<1>2. At(2) <=> a[1] = b[1] /\ a[2] < b[2]
  <2>1. 1 .. 2 - 1 = {1} OBVIOUS
  <2> QED BY <2>1
<1>3. At(3) <=> a[1] = b[1] /\ a[2] = b[2] /\ a[3] < b[3]
  <2>1. 1 .. 3 - 1 = {1, 2} OBVIOUS
  <2> QED BY <2>1
<1>4. (\E i \in 1 .. 3 : At(i)) <=> At(1) \/ At(2) \/ At(3)
  <2>1. 1 .. 3 = {1, 2, 3} OBVIOUS
  <2> HIDE DEF At
  <2> QED BY <2>1
<1>5. is_newer(v, w) <=> \E i \in 1 .. 3 : At(i) BY DEF is_newer, TupleLess
<1> QED BY <1>1, <1>2, <1>3, <1>4, <1>5

(* What is newer than something not below b is not below b either. *)
LEMMA NewerStaysAbove ==
  ASSUME NEW b \in Releases, NEW v \in Releases, NEW w \in Releases,
         ~is_newer(v, b), is_newer(v, w)
  PROVE  ~is_newer(w, b)
<1>1. \A i \in 1 .. 3 : parse(b)[i] \in Nat /\ parse(v)[i] \in Nat /\ parse(w)[i] \in Nat
  BY ParseType
<1>2. /\ parse(b)[1] \in Nat /\ parse(b)[2] \in Nat /\ parse(b)[3] \in Nat
      /\ parse(v)[1] \in Nat /\ parse(v)[2] \in Nat /\ parse(v)[3] \in Nat
      /\ parse(w)[1] \in Nat /\ parse(w)[2] \in Nat /\ parse(w)[3] \in Nat
  BY <1>1
<1> QED BY <1>2, LessExpanded

(* For versions of three numbers the comparison is the order of versions. *)
LEMMA PlainOrder ==
  ASSUME NEW b \in Releases, NEW v \in Releases, Plain(b), Plain(v), ~is_newer(v, b)
  PROVE  v = b \/ Older(b, v)
<1>1. \A i \in 1 .. 3 : parse(v)[i] = v[i] /\ parse(b)[i] = b[i] BY ParsePlain
<1>2. \A i \in 1 .. 3 : v[i] \in Nat /\ b[i] \in Nat BY <1>1, ParseType
<1>3. ~Older(v, b)
  <2>1. parse(v)[1] = v[1] /\ parse(v)[2] = v[2] /\ parse(v)[3] = v[3] BY <1>1
  <2>2. parse(b)[1] = b[1] /\ parse(b)[2] = b[2] /\ parse(b)[3] = b[3] BY <1>1
  <2> QED BY <2>1, <2>2, LessExpanded DEF Older
<1>4. CASE v[1] = b[1] /\ v[2] = b[2] /\ v[3] = b[3]
  <2>1. v \in Seq(Nat \cup {Junk}) /\ Len(v) = 3 BY UpdateAssumption DEF Plain
  <2>2. b \in Seq(Nat \cup {Junk}) /\ Len(b) = 3 BY UpdateAssumption DEF Plain
  <2>3. \A i \in 1 .. 3 : v[i] = b[i] BY <1>4
  <2> QED BY <2>1, <2>2, <2>3
<1>5. CASE ~(v[1] = b[1] /\ v[2] = b[2] /\ v[3] = b[3])
  <2>1. v[1] \in Nat /\ v[2] \in Nat /\ v[3] \in Nat BY <1>2
  <2>2. b[1] \in Nat /\ b[2] \in Nat /\ b[3] \in Nat BY <1>2
  <2> QED BY <2>1, <2>2, <1>3, <1>5 DEF Older
<1> QED BY <1>4, <1>5

(* Nothing is below the version put in place by hand: the file, the        *)
(* processes that were started from it, and the releases they fetched.     *)
(* An upgrade that others overtook compares with its own process, which    *)
(* may be older than the file it replaces, but is not below that version.  *)
AtLeast(v) == ~is_newer(v, baseline)
Above ==
  /\ bin \in Releases => AtLeast(bin)
  /\ \A c \in Commands : pc[c] # "idle" => own[c] \in Releases /\ AtLeast(own[c])
  /\ \A c \in Commands : pc[c] \in Installing => AtLeast(tag[c])

(* A version is not newer than itself. *)
LEMMA NotNewerThanItself == ASSUME NEW v \in Releases PROVE ~is_newer(v, v)
<1>1. parse(v)[1] \in Nat /\ parse(v)[2] \in Nat /\ parse(v)[3] \in Nat BY ParseType
<1> QED BY <1>1, LessExpanded

(* The first version is the one put in place by hand. *)
LEMMA InitAbove == Init => Above
BY NotNewerThanItself DEF Init, Above, AtLeast, Installing, Replacing

(* A release is fetched by a process it is newer than. *)
LEMMA FetchAbove ==
  ASSUME IInv, Above, NEW c \in Commands, Fetch(c)
  PROVE  Above'
<1> USE DEF IInv, TypeOK, GoTo, Forget, Fetch
<1>1. baseline' = baseline /\ bin' = bin OBVIOUS
<1>2. own[c] \in Releases /\ ~is_newer(own[c], baseline) BY DEF Above, AtLeast
<1>3. is_newer(own[c], latest) => ~is_newer(latest, baseline) BY <1>2, NewerStaysAbove
<1> QED BY <1>1, <1>3 DEF Above, AtLeast, Installing, Replacing

(* Every step keeps it. *)
LEMMA NextAbove == IInv /\ Above /\ [Next]_vars => Above'
<1> SUFFICES ASSUME IInv, Above, [Next]_vars PROVE Above'
  OBVIOUS
<1> USE UpdateAssumption
    DEF IInv, TypeOK, Locations, Installing, Replacing, Above, AtLeast, GoTo, Forget
<1> DEFINE Kept == /\ baseline' = baseline /\ bin' \in {bin, None, Torn}
                   /\ \A d \in Commands :
                        /\ pc'[d] # "idle" => pc[d] # "idle" /\ own'[d] = own[d]
                        /\ pc'[d] \in Installing => pc[d] \in Installing /\ tag'[d] = tag[d]
<1>0. Kept => Above' OBVIOUS
<1>1. ASSUME NEW c \in Commands, NEW l \in {"fetching", "removing"}, Start(c, l) PROVE Above'
  <2>1. pc' = [pc EXCEPT ![c] = l] /\ own' = [own EXCEPT ![c] = bin] /\ bin \in Releases
    BY <1>1 DEF Start
  <2>2. UNCHANGED <<bin, tag, baseline>> BY <1>1 DEF Start
  <2> QED BY <2>1, <2>2
<1>2. ASSUME NEW c \in Commands, Download(c) \/ Extract(c) PROVE Above'
  BY <1>2 DEF Download, Extract
<1>3. ASSUME NEW c \in Commands, RemoveOld(c) \/ OpenCopy(c) PROVE Above'
  <2>1. Kept BY <1>3 DEF RemoveOld, OpenCopy
  <2> QED BY <1>0, <2>1
<1>4. ASSUME NEW c \in Commands, FinishCopy(c) PROVE Above'
  <2>1. bin' \in {Torn, bin, tag[c]} BY <1>4 DEF FinishCopy
  <2>2. baseline' = baseline /\ pc[c] = "copying" BY <1>4 DEF FinishCopy
  <2>3. bin' \in Releases => ~is_newer(bin', baseline') BY <2>1, <2>2
  <2>4. /\ pc' = [pc EXCEPT ![c] = "idle"]
        /\ own' = [own EXCEPT ![c] = None]
        /\ tag' = [tag EXCEPT ![c] = None]
    BY <1>4 DEF FinishCopy
  <2> QED BY <2>2, <2>3, <2>4
<1>5. ASSUME NEW c \in Commands, Abandon(c) PROVE Above'
  BY <1>5 DEF Abandon
<1>6. ASSUME NEW c \in Commands, RemoveBinary(c) \/ ClearHome(c) PROVE Above'
  <2>1. Kept BY <1>6 DEF RemoveBinary, ClearHome, Unlink
  <2> QED BY <1>0, <2>1
<1>7. CASE Publish
  BY <1>7 DEF Publish, cmdVars
<1>8. CASE Reinstall
  BY <1>8, NotNewerThanItself DEF Reinstall, cmdVars
<1>9. CASE UNCHANGED vars
  BY <1>9 DEF vars, cmdVars
<1> QED BY <1>1, <1>2, <1>3, <1>4, <1>5, <1>6, <1>7, <1>8, <1>9, FetchAbove
        DEF Next, Upgrade, Uninstall

(* Whatever is published, withdrawn or raced, and however upgrades         *)
(* overtake one another, the installation does not fall below the version  *)
(* that was put in place by hand.                                          *)
THEOREM NeverBelowBaseline == Spec => []NotBelowBaseline
<1>1. IInv /\ Above => NotBelowBaseline
  BY PlainOrder DEF IInv, TypeOK, Above, AtLeast, NotBelowBaseline
<1>2. Spec => []Above
  BY InductiveInvariant, InitAbove, NextAbove, PTL DEF Spec
<1> QED BY <1>1, <1>2, InductiveInvariant, PTL
=============================================================================
