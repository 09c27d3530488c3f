-------------------------- MODULE PreferenceIntake --------------------------
(***************************************************************************)
(* The agent that learns what postings a user without a resume looks for   *)
(* (agents/preference_intake.py): preferences are recorded by a tool and   *)
(* by a rule, postings are looked up with a copy of the session, and rules *)
(* say when enough is known.                                               *)
(***************************************************************************)
EXTENDS AgentLoop

CONSTANTS
    Said,           \* what record_preference may be given: functions from dimensions to sets of values
    RoleLike,       \* values role_taxonomy takes for a role
    MinDimensions,  \* _MIN_DIMENSIONS
    MaxProbes,      \* _MAX_PROBE_TURNS
    MaxTurns        \* bound on the turns

VARIABLES
    prefs,      \* the preferences of the turn
    session,    \* session.preferences
    requested,  \* _requested: the material the model wants to ask for
    searched,   \* preferences in the copy of the session the other agent sees
    shown       \* what the last turn asked for, and who decided that

preferenceVars == <<loop, prefs, session, requested, searched, shown>>

Dimensions == {"roles", "companies", "domains", "regions", "techStack"}
NoPreferences == [d \in Dimensions \cup {"turns"} |-> IF d = "turns" THEN 0 ELSE {}]
Known(p) == {d \in Dimensions : p[d] # {}}

\* _sufficient
Sufficient(p) ==
    Cardinality(Known(p)) >= MinDimensions \/ (Known(p) # {} /\ p["turns"] >= MaxProbes)

\* _merge, and a role is a role only
Merged(p, said) ==
    LET all == [d \in DOMAIN p |-> IF d \in DOMAIN said THEN p[d] \cup said[d] ELSE p[d]]
    IN  [all EXCEPT !["domains"] = @ \ (all["roles"] \cup RoleLike),
                    !["companies"] = @ \ (all["roles"] \cup RoleLike)]

-----------------------------------------------------------------------------
IntakeInit ==
    /\ loop = Idle /\ prefs = NoPreferences /\ session = NoPreferences /\ requested = None
    /\ searched = NoPreferences /\ shown = [asks |-> None, by |-> None]

\* run, up to the loop: a role the message names is found by rule
Open(roles) ==
    /\ loop = Idle /\ session["turns"] < MaxTurns
    /\ prefs' = [session EXCEPT !["roles"] = @ \cup roles]
    /\ searched' = prefs' /\ requested' = None
    /\ loop' = Started
    /\ UNCHANGED <<session, shown>>

\* record_preference; a text without labels changes nothing
Record(said) ==
    /\ Uses("record_preference", {})
    /\ prefs' = IF DOMAIN said = {} THEN prefs ELSE Merged(prefs, said)
    /\ searched' = IF DOMAIN said = {} THEN searched ELSE prefs'
    /\ UNCHANGED <<session, requested, shown>>

\* preview_postings: job_recommend on the copy
Preview ==
    /\ \/ \E target \in Declared : AsksAgent("preview_postings", target,
                                             IF Known(searched) # {} THEN {"preferences"} ELSE {})
       \/ \E tool \in Tools : Breaks(tool)
    /\ UNCHANGED <<prefs, session, requested, searched, shown>>

\* request_material
Request(material) ==
    /\ Uses("request_material", {})
    /\ requested' = IF material = None THEN requested ELSE material
    /\ UNCHANGED <<prefs, session, searched, shown>>

Speak == Talks /\ UNCHANGED <<prefs, session, requested, searched, shown>>

Probing(p) == [p EXCEPT !["turns"] = @ + 1]

\* run, after the loop: the model's answer asks for what was requested, or else counts as
\* a probe; without one the rules ask
Deliver ==
    /\ loop.phase = "over"
    /\ LET spoke == loop.reply # NoText
           asks == IF spoke THEN (IF requested # None THEN requested ELSE "preferences")
                   ELSE IF Sufficient(prefs) THEN "resume" ELSE "preferences"
       IN  /\ shown' = [asks |-> asks, by |-> IF spoke THEN "model" ELSE "rule"]
           /\ session' = IF asks = "preferences" THEN Probing(prefs) ELSE prefs
    /\ loop' = Idle /\ requested' = None /\ prefs' = NoPreferences /\ searched' = NoPreferences

IntakeNext ==
    \/ \E roles \in {{}} \cup {{r} : r \in RoleLike} : Open(roles)
    \/ \E said \in Said : Record(said)
    \/ Preview
    \/ \E material \in {None, "resume", "job_posting"} : Request(material)
    \/ Speak
    \/ Deliver

-----------------------------------------------------------------------------
\* Where a rule decides, a user of whom something is known is probed no more than
\* MaxProbes times in all; a role stands among the roles only as soon as anything is
\* recorded, and the agent that previews postings sees what was recorded so far
\* (preference_intake.py, _sufficient, _tool_record_preference and _sync_session)
IntakeAsksInBounds ==
    /\ (loop = Idle /\ shown.by = "rule" /\ shown.asks = "preferences" /\ Known(session) # {})
         => session["turns"] <= MaxProbes
    /\ \A p \in {prefs, session} : (p["domains"] \cup p["companies"]) \cap RoleLike = {}
    /\ loop.phase = "running" => searched = prefs

\* What the user said stays in the session from turn to turn
PreferencesStay == \A d \in Dimensions \ {"domains", "companies"} : session[d] \subseteq session'[d]
=============================================================================
