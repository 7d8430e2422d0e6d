------------------------- MODULE CatalogueAcceptance -------------------------
(***************************************************************************)
(* What publication promises its readers and its operator, without rows,   *)
(* Workflows or fences: evidence is accepted one preparation at a time,    *)
(* the facts served for a game change only when evidence for that game is  *)
(* accepted, and nothing more is accepted before everything accepted so    *)
(* far is protected by a verified backup.                                  *)
(***************************************************************************)
CONSTANTS Games, Preparations, GameOf, Contents, None

VARIABLES
  facts,         \* game -> the content readers are served, or None
  acceptances,   \* preparations accepted so far
  latest,        \* the newest of them, or None
  protected      \* acceptances whose backup is verified

acceptanceVars == <<facts, acceptances, latest, protected>>

AcceptanceInit ==
  /\ facts = [g \in Games |-> None]
  /\ acceptances = {}
  /\ latest = None
  /\ protected = {}

Accept(p, c) ==
  /\ p \notin acceptances
  /\ acceptances \subseteq protected
  /\ acceptances' = acceptances \cup {p}
  /\ latest' = p
  /\ facts' = [facts EXCEPT ![GameOf[p]] = c]
  /\ UNCHANGED protected

Protect(p) ==
  /\ p = latest
  /\ p \notin protected
  /\ protected' = protected \cup {p}
  /\ UNCHANGED <<facts, acceptances, latest>>

AcceptanceNext ==
  \E p \in Preparations : Protect(p) \/ \E c \in Contents : Accept(p, c)

AcceptanceSpec == AcceptanceInit /\ [][AcceptanceNext]_acceptanceVars

=============================================================================
