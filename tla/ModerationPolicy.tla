-------------------------- MODULE ModerationPolicy --------------------------
(***************************************************************************)
(* What a guild's policy makes of a recommendation of Muxivo Core:          *)
(* AiModerationPolicyEnforcer.apply, the policies it is given, and the last  *)
(* check of the cog before it acts.  Nothing is kept; the decisions it makes *)
(* are what ModerationEnforcement carries out.                                *)
(* Actions are numbered as _ACTION_RANK numbers them.  A text is the set of  *)
(* the blacklist's words it has and the set of the hosts it links to; a host *)
(* is the set of its domains, itself and those it is below.                  *)
(***************************************************************************)
EXTENDS Integers

CONSTANTS Users, Roles, Channels, Words, Domains,
          OtherLabels \* labels the default policy has no rule for

IGNORE == 0
LOG == 1
REVIEW == 2
WARN == 3
DELETE == 4
DELETE_WARN == 5
TIMEOUT == 6
KICK == 7
BAN == 8
Action == IGNORE..BAN
HighImpact == {TIMEOUT, KICK, BAN}

\* AiModerationLabelPolicy and AiModerationGuildPolicy, as their validators leave them
LabelPolicy == {r \in [risk_threshold : Nat, min_action : Action, max_action : Action] :
                   r.min_action <= r.max_action}
Labels == {"SPAM", "ADVERTISEMENT", "INVITE", "SCAM", "TOXIC", "PROFANITY", "POLITICS_IRL", "HATE",
           "THREAT", "NSFW", "EVASION", "FLOOD", "URL"}
AllLabels == Labels \cup {"BLACKLIST"} \cup OtherLabels
Modes == {"SHADOW", "LIMITED", "ELEVATED"}
Switches == [HighImpact -> BOOLEAN]
GuildPolicy ==
    {p \in [labels : UNION {[S -> LabelPolicy] : S \in SUBSET AllLabels},
            blacklist_words : SUBSET Words, allowed_domains : SUBSET Domains,
            blacklist_action : Action, unapproved_domain_action : Action, repeat_offender_action : Action,
            escalation_enabled : BOOLEAN, escalation_score_threshold : Nat,
            excluded_user_ids : SUBSET Users, excluded_role_ids : SUBSET Roles,
            excluded_channel_ids : SUBSET Channels, exclude_bots : BOOLEAN, test_mode : BOOLEAN,
            enforcement_mode : Modes, limited_min_confidence : Nat, limited_hard_rule_labels : SUBSET AllLabels,
            beta_enforcement_acknowledged : BOOLEAN, allow_automated : Switches] :
        p.enforcement_mode = "ELEVATED" /\ ~p.beta_enforcement_acknowledged
            => \A a \in HighImpact : ~p.allow_automated[a]}

Request == [author : Users, roles : SUBSET Roles, channel : Channels, bot : BOOLEAN,
            words : SUBSET Words, hosts : SUBSET (SUBSET Domains),
            history : BOOLEAN, score : Nat]     \* user_context, and its weighted_escalation_score

\* Of a decision: rules, that rule_matches is not empty; blacklist, that the primary label is BLACKLIST;
\* planned, that its execution_plan is the one of its action
Decision == [action : Action, proposed_action : Action, labels : SUBSET AllLabels, risk : Nat, confidence : Nat,
             rules : BOOLEAN, blacklist : BOOLEAN, planned : BOOLEAN, dry_run : BOOLEAN]

-----------------------------------------------------------------------------
\* The policy of a guild: get_policy, _effective_policy

Rule(threshold, least, most) == [risk_threshold |-> threshold, min_action |-> least, max_action |-> most]

DefaultLabels == [l \in Labels |->
    CASE l = "SPAM" -> Rule(30, LOG, DELETE)
      [] l = "ADVERTISEMENT" -> Rule(25, LOG, DELETE)
      [] l = "INVITE" -> Rule(20, LOG, DELETE)
      [] l = "SCAM" -> Rule(55, DELETE_WARN, DELETE_WARN)
      [] l = "TOXIC" -> Rule(45, LOG, WARN)
      [] l = "PROFANITY" -> Rule(25, LOG, WARN)
      [] l = "POLITICS_IRL" -> Rule(40, REVIEW, REVIEW)
      [] l = "HATE" -> Rule(55, WARN, WARN)
      [] l = "THREAT" -> Rule(65, TIMEOUT, TIMEOUT)
      [] l = "NSFW" -> Rule(55, DELETE, DELETE)
      [] l = "EVASION" -> Rule(50, WARN, WARN)
      [] l = "FLOOD" -> Rule(20, TIMEOUT, TIMEOUT)
      [] l = "URL" -> Rule(45, REVIEW, DELETE)]

\* The former defaults, which a stored policy still holds when it was saved with them.
Legacy(l, rule) ==
    \/ l = "THREAT" /\ rule = Rule(65, DELETE_WARN, DELETE_WARN)
    \/ l = "FLOOD" /\ rule = Rule(30, LOG, DELETE)

\* merge_with_default_ai_moderation_policy
Merged(p) ==
    [p EXCEPT !.labels = [l \in Labels \cup DOMAIN p.labels |->
        IF l \in DOMAIN p.labels /\ ~Legacy(l, p.labels[l]) THEN p.labels[l] ELSE DefaultLabels[l]]]

-----------------------------------------------------------------------------
\* What the policy proposes

\* _apply_label_rule
LabelAction(rule, d) ==
    CASE d.risk < rule.risk_threshold -> LOG
      [] d.risk >= rule.risk_threshold /\ d.action < rule.min_action -> rule.min_action
      [] d.risk >= rule.risk_threshold /\ d.action > rule.max_action -> rule.max_action
      [] OTHER -> d.action

\* _configured_action
Configured(p, d) == {LabelAction(p.labels[l], d) : l \in d.labels \cap DOMAIN p.labels}

\* _blacklist_action
Blacklisted(p, r) == r.words \cap p.blacklist_words # {}
BlacklistAction(p, r) == IF Blacklisted(p, r) THEN {p.blacklist_action} ELSE {}

\* _unapproved_domain_action, _is_allowed_domain
DomainAction(p, r) ==
    IF p.allowed_domains # {} /\ \E host \in r.hosts : host \cap p.allowed_domains = {}
    THEN {p.unapproved_domain_action} ELSE {}

\* _repeat_offender_action
HistoryAction(p, r, d) ==
    IF /\ p.escalation_enabled /\ r.history
       /\ d.action \notin {IGNORE, LOG}
       /\ r.score >= p.escalation_score_threshold
    THEN {p.repeat_offender_action} ELSE {}

Candidates(p, r, d) ==
    Configured(p, d) \cup BlacklistAction(p, r) \cup DomainAction(p, r) \cup HistoryAction(p, r, d)

Severest(S) == CHOOSE a \in S : \A b \in S : b <= a

Proposed(p, r, d) == IF Candidates(p, r, d) = {} THEN d.action ELSE Severest(Candidates(p, r, d))

-----------------------------------------------------------------------------
\* What of it may be carried out

\* _limited_action
LimitedAction(p, d, a) ==
    IF /\ a \in {DELETE, DELETE_WARN}
       /\ d.labels \cap p.limited_hard_rule_labels # {} /\ d.rules
       /\ d.confidence >= p.limited_min_confidence
    THEN a
    ELSE IF a \in {WARN, DELETE, DELETE_WARN} THEN WARN ELSE REVIEW

\* _elevated_action
ElevatedAction(p, a) ==
    IF ~p.beta_enforcement_acknowledged \/ (a \in HighImpact /\ ~p.allow_automated[a]) THEN REVIEW ELSE a

\* _limit_enforcement
Limited(p, d, a) ==
    CASE a \in {IGNORE, LOG, REVIEW} -> a
      [] a > REVIEW /\ p.enforcement_mode = "SHADOW" -> REVIEW
      [] a > REVIEW /\ p.enforcement_mode = "LIMITED" -> LimitedAction(p, d, a)
      [] OTHER -> ElevatedAction(p, a)

\* _is_excluded
Excluded(p, r) ==
    \/ r.author \in p.excluded_user_ids \/ r.channel \in p.excluded_channel_ids
    \/ r.roles \cap p.excluded_role_ids # {}
    \/ r.bot /\ p.exclude_bots

\* _execution_plan, as the set of the things done
Plan(a) ==
    CASE a = DELETE_WARN -> {DELETE, WARN}
      [] a \in HighImpact -> {DELETE, a}
      [] OTHER -> {a}

\* apply: where nothing it looks at differs, the recommendation itself is returned.
Applied(p, r, d) ==
    LET proposed == Proposed(p, r, d)
        action == IF p.test_mode THEN proposed ELSE Limited(p, d, proposed)
        blacklist == d.blacklist \/ Blacklisted(p, r)
        dry == d.dry_run \/ p.test_mode
    IN IF Excluded(p, r)
       THEN [d EXCEPT !.action = IGNORE, !.proposed_action = d.action, !.planned = TRUE]
       ELSE IF action = d.action /\ blacklist = d.blacklist /\ d.planned /\ dry = d.dry_run
       THEN d
       ELSE [d EXCEPT !.action = action, !.proposed_action = proposed, !.blacklist = blacklist,
                      !.labels = IF Blacklisted(p, r) THEN @ \cup {"BLACKLIST"} ELSE @,
                      !.planned = TRUE, !.dry_run = dry]

\* _limit_to_executable_member_action: can, that Discord would let the bot do it
Executable(d, can) ==
    IF d.dry_run \/ d.action \notin HighImpact \/ can THEN d ELSE [d EXCEPT !.action = DELETE_WARN]

\* What is done to the member or the message: _execute_action of the plan.
Done(d) == IF d.dry_run THEN {} ELSE Plan(d.action) \ {IGNORE, LOG, REVIEW}
=============================================================================
