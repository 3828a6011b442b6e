----------------------------- MODULE ContextPlan -----------------------------
(***************************************************************************)
(* What of a conversation reaches the model: the planning step of          *)
(* chat_completions.  The inbound messages are split into history and      *)
(* current request, the history is grouped into units, and either          *)
(* plan_context (the window planner) or ContextEngine.build (which also    *)
(* packs what memory.retrieve returned) chooses units within the token     *)
(* budget.  All of it is a function of the inbound messages, the tools and *)
(* the retrieved items; the actions put an input together and plan it.     *)
(*                                                                         *)
(* A message is its role and its text.  "system" stands for both           *)
(* instruction roles, "assistant" for every role that is neither an        *)
(* instruction nor "user".  Cost is TokenCounter.message.  A retrieved     *)
(* item's content is what its dedup_text is compared as: the messages of a *)
(* chunk, or one message without a role for the text of a memory, and <<>> *)
(* if the dedup_text is empty.                                             *)
(***************************************************************************)
EXTENDS Integers, Sequences, FiniteSets, FiniteSetsExt

CONSTANTS
    Inbound,            \* the messages clients send
    Cost,               \* TokenCounter.message, on the texts
    HeaderCost,         \* what the "[retrieved ...]" label adds
    Items,              \* what memory.retrieve may return
    Similarity,         \* the similarity of two keys, in tenths
    Lambda,             \* ASSEMBLY__MMR_LAMBDA, in tenths
    MaxRetrievedItems,  \* ASSEMBLY__MAX_RETRIEVED_ITEMS
    RetrievedBudget,    \* ASSEMBLY__RETRIEVED_BUDGET_TOKENS
    Reserved,           \* CONTEXT__PINNED_BUDGET_TOKENS
    Budgets,            \* values of the usable budget
    ToolCosts,          \* TokenCounter.tools of the tools of a request
    MaxMessages,        \* bound: inbound messages
    MaxItems            \* bound: retrieved items

VARIABLES
    inbound,    \* payload["messages"]
    retrieved,  \* what memory.retrieve returned
    tools,      \* the cost of payload["tools"]
    usable,     \* the usable budget of this deployment
    plan        \* the outcome of planning

vars == <<inbound, retrieved, tools, usable, plan>>

-----------------------------------------------------------------------------
(* Lists. *)

SumOf(costs) ==
    LET sum[n \in 0 .. Len(costs)] == IF n = 0 THEN 0 ELSE sum[n - 1] + costs[n]
    IN  sum[Len(costs)]

(* The elements of a list that are in S, in their order. *)
Only(list, S) ==
    LET kept[n \in 0 .. Len(list)] ==
            IF n = 0 THEN <<>>
            ELSE IF list[n] \in S THEN Append(kept[n - 1], list[n]) ELSE kept[n - 1]
    IN  kept[Len(list)]

Tokens(messages) == SumOf([n \in DOMAIN messages |-> Cost[messages[n].text]])

ASSUME ContextAssumption ==
    /\ \A m \in Inbound : m.role \in {"system", "user", "assistant"}
    /\ \A m \in Inbound : Cost[m.text] \in Nat \ {0}
    /\ \A i \in Items : /\ i.id \in Int /\ i.id > MaxMessages /\ i.score \in Int
                        /\ Tokens(i.content) \in Nat
    /\ \A i, j \in Items : Similarity[i.id][j.id] \in 0 .. 10 /\ (i.id = j.id => i = j)
    /\ Lambda \in 0 .. 10 /\ HeaderCost \in Nat
    /\ MaxRetrievedItems \in Nat /\ RetrievedBudget \in Nat /\ Reserved \in Nat
    /\ Budgets \subseteq Int /\ ToolCosts \subseteq Nat
    /\ MaxMessages \in Nat /\ MaxItems \in Nat

-----------------------------------------------------------------------------
(* Units.  A unit, or a candidate made of one, has its place in the         *)
(* history as key; the current request has key 0, an item its id.           *)

Unit(kind, key, messages) ==
    [kind |-> kind, key |-> key, messages |-> messages, tokens |-> Tokens(messages)]

Total(units) == SumOf([n \in DOMAIN units |-> units[n].tokens])

(* The units of some kinds. *)
OfKinds(units, kinds) == Only(units, {u \in Range(units) : u.kind \in kinds})

System == {"system"}

History == {"turn", "prefill"}

Close(units, kind, messages) ==
    IF messages = <<>> THEN units
    ELSE Append(units, Unit(kind, Len(units) + 1, messages))

CloseBoth(s) == Close(Close(s.units, "turn", s.turn), "prefill", s.prefill)

(* Mutant: an instruction closes the turn that is open. *)
SegmentClosing(s, m) ==
    CASE m.role = "system" ->
            [units |-> Close(CloseBoth(s), "system", <<m>>), prefill |-> <<>>, turn |-> <<>>]
      [] m.role = "user" -> [units |-> CloseBoth(s), prefill |-> <<>>, turn |-> <<m>>]
      [] OTHER ->
            IF s.turn # <<>> THEN [s EXCEPT !.turn = Append(@, m)]
            ELSE [s EXCEPT !.prefill = Append(@, m)]

SegmentStep(s, m) ==
    CASE m.role = "system" ->
            [s EXCEPT !.units = Close(Close(@, "prefill", s.prefill), "system", <<m>>),
                      !.prefill = <<>>]
      [] m.role = "user" -> [units |-> CloseBoth(s), prefill |-> <<>>, turn |-> <<m>>]
      [] OTHER ->
            IF s.turn # <<>> THEN [s EXCEPT !.turn = Append(@, m)]
            ELSE [s EXCEPT !.prefill = Append(@, m)]

Segment(messages) ==
    LET segment[n \in 0 .. Len(messages)] ==
            IF n = 0 THEN [units |-> <<>>, prefill |-> <<>>, turn |-> <<>>]
            ELSE SegmentStep(segment[n - 1], messages[n])
    IN  segment[Len(messages)]

segment_messages(messages) == CloseBoth(Segment(messages))

(* Mutant: the request is the last user message alone, and what follows it   *)
(* is lost.                                                                 *)
SeparateAtUser(messages) ==
    LET users == {i \in DOMAIN messages : messages[i].role = "user"}
    IN  IF users = {} THEN [history |-> messages, request |-> <<>>]
        ELSE [history |-> SubSeq(messages, 1, Max(users) - 1),
              request |-> <<messages[Max(users)]>>]

separate_current_request(messages) ==
    LET users == {i \in DOMAIN messages : messages[i].role = "user"}
        last == Max(users)
        end == Max({i \in last .. Len(messages) : messages[i].role # "system"})
    IN  IF users = {} THEN [history |-> messages, request |-> <<>>]
        ELSE [history |-> SubSeq(messages, 1, last - 1)
                          \o SubSeq(messages, end + 1, Len(messages)),
              request |-> SubSeq(messages, last, end)]

CurrentRequest(request) ==
    IF request = <<>> THEN <<>> ELSE <<Unit("request", 0, request)>>

(* An outcome, with the tokens that the planner kept in reserve. *)
Outcome(status, reserved, ordered) ==
    [status |-> status, reserved |-> reserved, ordered |-> ordered]

Overflow(reserved) == Outcome("overflow", reserved, <<>>)

(* The last check of both planners, "never expected" to fail. *)
Checked(ordered, cost, budget, reserved) ==
    Outcome(IF Total(ordered) + cost > budget THEN "broken" ELSE "planned",
            reserved, ordered)

-----------------------------------------------------------------------------
(* The window planner.                                                      *)

(* The units left when the non-instruction ones up to position p are dropped. *)
KeepAfter(units, p) ==
    Only(units, {u \in Range(units) : u.kind \in System \/ u.key > p})

DropOldest(units, available) ==
    KeepAfter(units,
        Min({q \in 0 .. Len(units) : Total(KeepAfter(units, q)) <= available}))

plan_context(history, request, cost, budget, reserved) ==
    LET units == segment_messages(history)
        current == CurrentRequest(request)
        mandatory == Total(OfKinds(units, System)) + cost + reserved + Total(current)
        available == budget - cost - reserved - Total(current)
    IN  IF mandatory > budget THEN Overflow(reserved)
        ELSE Checked(DropOldest(units, available) \o current, cost, budget, reserved)

-----------------------------------------------------------------------------
(* The engine.                                                              *)

(* Retrieved content renders as one user message behind its header. *)
candidate_from_retrieved(i) ==
    [kind |-> "retrieved", key |-> i.id,
     messages |-> <<[role |-> "user", text |-> "retrieved"]>>,
     tokens |-> HeaderCost + Tokens(i.content)]

Bare(m) == [role |-> "none", text |-> m.text]

(* What _deduplicate has seen once it is past the raw candidates: the text  *)
(* of every unit and of the request, and the bare texts in the units.       *)
RawTexts(units, current) ==
    {u.messages : u \in Range(units \o current)}
    \cup UNION {{<<Bare(m)>> : m \in Range(u.messages)} : u \in Range(units)}

(* An item with nothing to compare is kept, however many there are. *)
Deduplicate(items, raw) ==
    {items[i] : i \in {j \in DOMAIN items :
                         \/ items[j].content = <<>>
                         \/ /\ items[j].content \notin raw
                            /\ \A k \in 1 .. j - 1 : items[k].content # items[j].content}}

Mmr(i, selected) ==
    Lambda * i.score
    - (10 - Lambda) * Max({Similarity[i.id][s.id] : s \in Range(selected)} \cup {0})

(* rank = (-mmr, -score, key) *)
RanksBefore(i, j, selected) ==
    \/ Mmr(i, selected) > Mmr(j, selected)
    \/ Mmr(i, selected) = Mmr(j, selected) /\ i.score > j.score
    \/ Mmr(i, selected) = Mmr(j, selected) /\ i.score = j.score /\ i.id < j.id

(* The first of some items, other items being selected. *)
Best(items, selected) ==
    CHOOSE i \in items : \A j \in items \ {i} : RanksBefore(i, j, selected)

(* Mutant: what was selected stays among the remaining. *)
SelectAgain(items, limit) ==
    IF items = {} THEN <<>> ELSE [n \in 1 .. limit |-> Best(items, <<>>)]

mmr_select(items, limit) ==
    LET pick[n \in 0 .. limit] ==
            IF n = 0 THEN <<>>
            ELSE LET remaining == items \ Range(pick[n - 1])
                 IN  IF remaining = {} THEN pick[n - 1]
                     ELSE Append(pick[n - 1], Best(remaining, pick[n - 1]))
    IN  pick[limit]

(* Whole items in rank order, skipping what does not fit under the cap. *)
Pack(ranked, cap) ==
    LET packed[n \in 0 .. Len(ranked)] ==
            IF n = 0 THEN <<>>
            ELSE IF Total(packed[n - 1]) + ranked[n].tokens > cap THEN packed[n - 1]
                 ELSE Append(packed[n - 1], ranked[n])
    IN  packed[Len(ranked)]

(* Mutant: a unit that does not fit is skipped and older ones are tried. *)
FillWindow(recent, remaining) ==
    LET Reversed(s) == [n \in DOMAIN s |-> s[Len(s) - n + 1]]
    IN  Reversed(Pack(Reversed(recent), remaining))

(* The newest units until the first that does not fit. *)
NewestWindow(recent, remaining) ==
    LET n == Len(recent)
        fits == {k \in 0 .. n : \A j \in 0 .. k :
                    Total(SubSeq(recent, n - j + 1, n)) <= remaining}
    IN  SubSeq(recent, n - Max(fits) + 1, n)

(* Mutant: the cap on retrieved blocks forgets what the window used. *)
PackUncapped(items, remaining) ==
    IF remaining <= 0 THEN <<>>
    ELSE LET ranked == mmr_select(items, MaxRetrievedItems)
         IN  Pack([n \in DOMAIN ranked |-> candidate_from_retrieved(ranked[n])], RetrievedBudget)

PackRetrieved(items, remaining) ==
    IF remaining <= 0 THEN <<>>
    ELSE LET ranked == mmr_select(items, MaxRetrievedItems)
         IN  Pack([n \in DOMAIN ranked |-> candidate_from_retrieved(ranked[n])],
                  Min({remaining, RetrievedBudget}))

(* A retrieved block that would speak as an instruction. *)
Untrusted(u) == u.kind = "retrieved" /\ u.messages[1].role = "system"

(* _make_plan: the guard against such blocks, then the last check. *)
make_plan(ordered, cost, budget) ==
    IF \E n \in DOMAIN ordered : Untrusted(ordered[n]) THEN Outcome("broken", 0, ordered)
    ELSE Checked(ordered, cost, budget, 0)

(* Instructions and request first, then the window, then what was retrieved; *)
(* sent in another order.                                                   *)
Allocate(units, current, items, cost, budget) ==
    LET system == OfKinds(units, System)
        mandatory == Total(system) + Total(current)
        remaining == budget - mandatory - cost
        window == NewestWindow(OfKinds(units, History), remaining)
        picked == PackRetrieved(items, remaining - Total(window))
    IN  IF mandatory + cost > budget THEN Overflow(0)
        ELSE make_plan(system \o picked \o window \o current, cost, budget)

build(history, request, items, cost, budget) ==
    LET units == segment_messages(history)
        current == CurrentRequest(request)
    IN  Allocate(units, current, Deduplicate(items, RawTexts(units, current)), cost, budget)

-----------------------------------------------------------------------------

NoPlan == Outcome("none", 0, <<>>)

Init ==
    /\ inbound = <<>> /\ retrieved = <<>>
    /\ tools \in ToolCosts /\ usable \in Budgets
    /\ plan = NoPlan

(* The client's payload. *)
Receive(m) ==
    /\ plan = NoPlan /\ retrieved = <<>>
    /\ Len(inbound) < MaxMessages
    /\ inbound' = Append(inbound, m)
    /\ UNCHANGED <<retrieved, tools, usable, plan>>

(* Retrieval answers a query, which is the text of the last user message. *)
Retrieve(i) ==
    /\ plan = NoPlan
    /\ Len(retrieved) < MaxItems /\ i \notin Range(retrieved)
    /\ \E m \in Range(inbound) : m.role = "user"
    /\ retrieved' = Append(retrieved, i)
    /\ UNCHANGED <<inbound, tools, usable, plan>>

(* chat_completions without an engine, and with one. *)
PlanWindow ==
    LET s == separate_current_request(inbound)
    IN  /\ plan = NoPlan /\ retrieved = <<>> /\ inbound # <<>>
        /\ plan' = plan_context(s.history, s.request, tools, usable, Reserved)
        /\ UNCHANGED <<inbound, retrieved, tools, usable>>

Assemble ==
    LET s == separate_current_request(inbound)
    IN  /\ plan = NoPlan /\ inbound # <<>>
        /\ plan' = build(s.history, s.request, retrieved, tools, usable)
        /\ UNCHANGED <<inbound, retrieved, tools, usable>>

(* The next request. *)
Forget ==
    /\ plan # NoPlan
    /\ inbound' = <<>> /\ retrieved' = <<>> /\ plan' = NoPlan
    /\ UNCHANGED <<tools, usable>>

Next ==
    \/ \E m \in Inbound : Receive(m)
    \/ \E i \in Items : Retrieve(i)
    \/ PlanWindow
    \/ Assemble
    \/ Forget

Spec == Init /\ [][Next]_vars

-----------------------------------------------------------------------------

(* Kinds and statuses are those above, and nothing is packed twice: keys    *)
(* are unique, as by_key and mmr_select rely on.                            *)
TypeOK ==
    /\ inbound \in Seq(Inbound) /\ retrieved \in Seq(Items)
    /\ tools \in ToolCosts /\ usable \in Budgets
    /\ plan.status \in {"none", "overflow", "broken", "planned"}
    /\ \A n \in DOMAIN plan.ordered :
          plan.ordered[n].kind \in {"system", "turn", "prefill", "request", "retrieved"}
    /\ \A m, n \in DOMAIN plan.ordered :
          plan.ordered[m].key = plan.ordered[n].key => m = n

(* The instructions among some messages, and the other messages. *)
Instructions(messages) == Only(messages, {m \in Range(messages) : m.role = "system"})

Others(messages) == Only(messages, {m \in Range(messages) : m.role # "system"})

(* The inbound messages before the last from the user, and from it on,      *)
(* found without separate_current_request.                                  *)
LastUser(messages) == Max({0} \cup {i \in DOMAIN messages : messages[i].role = "user"})

Earlier(messages) ==
    IF LastUser(messages) = 0 THEN messages ELSE SubSeq(messages, 1, LastUser(messages) - 1)

FromLastUser(messages) ==
    IF LastUser(messages) = 0 THEN <<>>
    ELSE SubSeq(messages, LastUser(messages), Len(messages))

Rendered(units) ==
    LET rendered[n \in 0 .. Len(units)] ==
            IF n = 0 THEN <<>> ELSE rendered[n - 1] \o units[n].messages
    IN  rendered[Len(units)]

Count(m, messages) == Len(Only(messages, {m}))

(* Instructions, the interaction of the last user message, tools and the    *)
(* reserve: what has to fit.                                                *)
Mandatory ==
    Tokens(Instructions(Earlier(inbound))) + Tokens(FromLastUser(inbound))
    + tools + plan.reserved

(* Both planners keep the budget and fail exactly when what is mandatory    *)
(* does not fit.  In particular the check at the end of plan_context and of *)
(* _make_plan, where units have already been dropped, never fails, and      *)
(* neither does the guard of _make_plan: no retrieved block is ever sent as *)
(* an instruction.                                                          *)
BudgetKept ==
    plan # NoPlan =>
        /\ plan.status = (IF Mandatory > usable THEN "overflow" ELSE "planned")
        /\ plan.status = "planned" => Total(plan.ordered) + tools + plan.reserved <= usable

(* No instruction is lost or duplicated, wherever in the payload it stands, *)
(* and the request is last and complete: the last user message sent is the  *)
(* client's last, not a retrieved block, followed by the client's answers   *)
(* and tool results to it, and an instruction at the end moves before it.   *)
RequestLast ==
    plan.status = "planned" =>
        LET sent == Rendered(plan.ordered)
        IN  /\ \A m \in Range(inbound) :
                  m.role = "system" => Count(m, sent) = Count(m, inbound)
            /\ LastUser(inbound) # 0 =>
                  /\ Others(FromLastUser(sent)) = Others(FromLastUser(inbound))
                  /\ sent[Len(sent)].role # "system"

(* The history that is kept is the newest contiguous part of the inbound    *)
(* history, no answer is kept without the user message it belongs to, even  *)
(* if an instruction stands between them, and nothing older that starts at  *)
(* a user message, and not the whole, would have fitted.                    *)
NewestWholeTurns ==
    plan.status = "planned" =>
        LET raw == Others(Earlier(inbound))
            kept == Rendered(OfKinds(plan.ordered, History))
            cut == Len(raw) - Len(kept)
        IN  /\ cut >= 0 /\ kept = SubSeq(raw, cut + 1, Len(raw))
            /\ \/ kept = <<>>
               \/ raw[cut + 1].role = "user"
               \/ \A i \in 1 .. cut : raw[i].role # "user"
            /\ \A j \in 0 .. cut - 1 :
                  j = 0 \/ raw[j + 1].role = "user" =>
                      Tokens(SubSeq(raw, j + 1, Len(raw))) + Mandatory > usable

(* The two planners agree: whatever was retrieved, the engine keeps the     *)
(* history that the window planner keeps within the same budget, since      *)
(* retrieved blocks only get what the window leaves.  One loops from the    *)
(* newest unit until one does not fit, the other drops from the oldest.     *)
PlannersAgree ==
    plan = NoPlan =>
        LET s == separate_current_request(inbound)
            engine == build(s.history, s.request, retrieved, tools, usable)
            window == plan_context(s.history, s.request, tools, usable, 0)
        IN  /\ engine.status = window.status
            /\ \A kind \in {"system", "turn", "prefill", "request"} :
                  OfKinds(engine.ordered, {kind}) = OfKinds(window.ordered, {kind})
=============================================================================
