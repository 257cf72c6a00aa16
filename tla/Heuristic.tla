----------------------------- MODULE Heuristic -----------------------------
(***************************************************************************)
(* The behaviour score of one process                                      *)
(* (userland/spectreshield/src/heuristic.rs): the kernel's audit hook      *)
(* reports behaviours in any order and at any pace, the score adds their   *)
(* weights and the bonus of the combinations they complete, and decays.    *)
(* Every window and the half-life is a multiple of 30 s.                   *)
(***************************************************************************)
EXTENDS Integers, Sequences, Functions

CONSTANTS
    Repertoires,   \* sets of behaviours; a process shows those of one of them
    HalfMinute,    \* units of time in 30 s (30 000 in the code)
    Gaps,          \* the time that may pass between two observations
    Ring,          \* observations kept (128 in the code)
    MaxScore,      \* the largest score (2^32 - 1 in the code)
    MaxObserved    \* bound: observations reported

VARIABLES
    role, repertoire,  \* the process
    history,           \* recent observations, as behaviour and age; oldest first
    score, credited,
    observed, earned   \* history: observations, and the weight they have added
                       \* since the score was last zero

process == <<role, repertoire>>
profileVars == <<process, history, score, credited, observed, earned>>

Behaviours == {"EnumerateUserDocuments", "ReadForeignFile", "RawNetwork", "WriteHighEntropy",
               "MassRename", "PersistenceInstall", "CredentialAccess", "UnsignedModuleLoad",
               "ConnectWithoutDns", "PrivilegeRequest", "DestroySnapshot",
               "ForeignCodeWrite", "LogTampering"}

ASSUME ProfileAssumption ==
    /\ Repertoires \subseteq SUBSET Behaviours
    /\ HalfMinute \in Nat \ {0} /\ Gaps \subseteq Nat
    /\ Ring \in Nat \ {0}
    /\ MaxScore \in Nat /\ MaxScore >= 110

Weight == [EnumerateUserDocuments |-> 5, ReadForeignFile |-> 5, RawNetwork |-> 10,
           WriteHighEntropy |-> 12, MassRename |-> 18, PersistenceInstall |-> 15,
           CredentialAccess |-> 20, UnsignedModuleLoad |-> 15, ConnectWithoutDns |-> 22,
           PrivilegeRequest |-> 18, DestroySnapshot |-> 35, ForeignCodeWrite |-> 40,
           LogTampering |-> 45]

\* Mutation of Combinations: the bonus of 60 that the comment speaks of.
Combinations_Weak ==
    [ransomware |-> [required |-> {"EnumerateUserDocuments", "ReadForeignFile",
                                   "WriteHighEntropy", "DestroySnapshot"},
                     window |-> 3 * HalfMinute, bonus |-> 60],
     exfiltration |-> [required |-> {"CredentialAccess", "ConnectWithoutDns"},
                       window |-> 10 * HalfMinute, bonus |-> 45],
     injection |-> [required |-> {"ForeignCodeWrite", "PrivilegeRequest"},
                    window |-> 2 * HalfMinute, bonus |-> 40],
     implant |-> [required |-> {"PersistenceInstall", "UnsignedModuleLoad", "LogTampering"},
                  window |-> 20 * HalfMinute, bonus |-> 55]]

Combinations ==
    [ransomware |-> [required |-> {"EnumerateUserDocuments", "ReadForeignFile",
                                   "WriteHighEntropy", "DestroySnapshot"},
                     window |-> 3 * HalfMinute, bonus |-> 70],
     exfiltration |-> [required |-> {"CredentialAccess", "ConnectWithoutDns"},
                       window |-> 10 * HalfMinute, bonus |-> 45],
     injection |-> [required |-> {"ForeignCodeWrite", "PrivilegeRequest"},
                    window |-> 2 * HalfMinute, bonus |-> 40],
     implant |-> [required |-> {"PersistenceInstall", "UnsignedModuleLoad", "LogTampering"},
                  window |-> 20 * HalfMinute, bonus |-> 55]]

Roles == {"None", "BackupAgent", "Compiler", "EncryptionTool", "SandboxedAntiCheat"}

\* The share of a behaviour's weight, in percent, that a role is spared.
Discount(r, b) ==
    CASE r = "BackupAgent" /\ b \in {"EnumerateUserDocuments", "ReadForeignFile"} -> 100
      [] r \in {"Compiler", "EncryptionTool"} /\ b = "WriteHighEntropy" -> 100
      [] r = "Compiler" /\ b = "MassRename" -> 90
      [] r = "EncryptionTool" /\ b = "ReadForeignFile" -> 60
      [] r = "SandboxedAntiCheat" /\ b \in {"RawNetwork", "UnsignedModuleLoad"} -> 100
      [] OTHER -> 0

Discounted(r, b) == (Weight[b] * (100 - Discount(r, b))) \div 100

Verdict(s) == IF s >= 110 THEN "SuspendAndAsk" ELSE IF s >= 60 THEN "Alert"
              ELSE IF s >= 25 THEN "Watch" ELSE "Clean"

HalfLife == 10 * HalfMinute

\* s >> n.
Shifted(s, n) == LET by[i \in 0 .. n] == IF i = 0 THEN s ELSE by[i - 1] \div 2 IN by[n]

\* Halved for each whole half-life, then linearly for the rest, rounded down.
Decay(s, elapsed) ==
    LET periods == elapsed \div HalfLife
        halved == Shifted(s, periods)
    IN  IF periods >= 32 THEN 0
        ELSE halved - (halved * (elapsed % HalfLife)) \div (2 * HalfLife)

\* saturating_add
Saturated(s) == IF s > MaxScore THEN MaxScore ELSE s

ProfileInit ==
    /\ role \in Roles /\ repertoire \in Repertoires
    /\ history = <<>> /\ score = 0 /\ credited = {}
    /\ observed = 0 /\ earned = 0

\* Mutation of CheckCombinations: what was credited before is credited again.
CheckCombinations_Again(recent, before) ==
    {c \in DOMAIN Combinations :
        \A b \in Combinations[c].required :
            \E k \in DOMAIN recent : recent[k].is = b /\ recent[k].age <= Combinations[c].window}

\* The combinations not credited yet whose behaviours are all in the ring and in
\* their window.
CheckCombinations(recent, before) ==
    {c \in DOMAIN Combinations \ before :
        \A b \in Combinations[c].required :
            \E k \in DOMAIN recent : recent[k].is = b /\ recent[k].age <= Combinations[c].window}

Bonuses(fired) == SumFunctionOnSet([c \in DOMAIN Combinations |-> Combinations[c].bonus], fired)

\* observe: decay, weigh, remember, look for combinations.  The clock of the
\* decay moves on even when nothing was taken off the score.
Observe(b, elapsed) ==
    LET aged == [k \in DOMAIN history |-> [history[k] EXCEPT !.age = @ + elapsed]]
        recent == Append(IF Len(aged) = Ring THEN Tail(aged) ELSE aged, [is |-> b, age |-> 0])
        decayed == Decay(score, elapsed)
        before == IF elapsed > 0 /\ decayed = 0 THEN {} ELSE credited
        fired == CheckCombinations(recent, before)
    IN  /\ observed < MaxObserved /\ observed' = observed + 1
        /\ history' = recent
        /\ score' = Saturated(Saturated(decayed + Discounted(role, b)) + Bonuses(fired))
        /\ credited' = before \cup fired
        /\ earned' = Discounted(role, b) + (IF decayed = 0 THEN 0 ELSE earned)
        /\ UNCHANGED process

ProfileNext == \E b \in repertoire, elapsed \in Gaps : Observe(b, elapsed)
ProfileSpec == ProfileInit /\ [][ProfileNext]_profileVars

-----------------------------------------------------------------------------
(* Properties *)

\* The four behaviours of the ransomware shape within 90 s put the process to
\* the user, though its role is spared some of their weight and the score has
\* decayed between them (heuristic.rs:132-138).  Not so for the two roles that
\* are spared the writes: a score of 45, 90 s old, comes to 109 with the bonus.
Decisive(r) == "ransomware" \notin credited /\ "ransomware" \in credited' /\ role = r
                   => Verdict(score') = "SuspendAndAsk"
AsksAboutRansomware == [][\A r \in Roles : Discount(r, "WriteHighEntropy") = 0 => Decisive(r)]_profileVars

\* A sustained pattern earns its bonus once: the score never exceeds what the
\* observations weighed since it was last zero, and one bonus for each
\* combination credited (heuristic.rs:254-257); and it earns enough.
BonusesAreRight ==
    /\ [](score <= earned + Bonuses(credited))
    /\ AsksAboutRansomware
=============================================================================
