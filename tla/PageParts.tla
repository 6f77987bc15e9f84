----------------------------- MODULE PageParts -----------------------------
(***************************************************************************)
(* How AdminPages and FilesPages describe a React component: the queries   *)
(* it shows, the requests its controls start, and the forms it keeps in    *)
(* local state.  A confirmation the user may decline and a form that must  *)
(* be filled in first are part of pressing the control, so they are not    *)
(* told apart; layout, wording and toasts are left out.                    *)
(***************************************************************************)
EXTENDS ApiHooks

\* Mutant: every control stays enabled.
NeverShut(does) ==
    [does |-> does, shut |-> FALSE, elevates |-> FALSE, awaits |-> FALSE,
     tells |-> {}, then |-> does.lands, whole |-> FALSE]

(***************************************************************************)
(* A control that runs mutation `does'.  As written here it is disabled    *)
(* while its request runs (disabled={m.isPending}), its own callbacks are  *)
(* passed to mutate() and so dropped with the component, and its payload   *)
(* holds only what the user changed.                                       *)
(***************************************************************************)
Act(does) ==
    [does |-> does, shut |-> TRUE, elevates |-> FALSE, awaits |-> FALSE,
     tells |-> {}, then |-> does.lands, whole |-> FALSE]

\* The control stays enabled while its request runs.
Open(act) == [act EXCEPT !.shut = FALSE]
\* Mutant: the code is a callback of mutate(), dropped with the component.
Unawaited(act) == [act EXCEPT !.awaits = FALSE]
\* Code after `await mutateAsync()' runs even when the component is gone.
Awaited(act) == [act EXCEPT !.awaits = TRUE]
\* runWithElevation(() => mutateAsync()): a 403 prompts and tries once more.
Elevated(act) == [Awaited(act) EXCEPT !.elevates = TRUE]
\* The page invalidates these keys itself once the request has succeeded.
Telling(act, keys) == [act EXCEPT !.tells = keys]
\* The page navigates once the request has succeeded.
Then(act, page) == [act EXCEPT !.then = page]
\* The payload also carries fields the user did not touch, as they were
\* cached or as the form was seeded.
Whole(act) == [act EXCEPT !.whole = TRUE]

Part(shows, acts) == [shows |-> shows, acts |-> acts, forms |-> {}]

\* Local edits of what `query' answered, sent by `save'; `follows' when an
\* effect copies every new answer of the query over them.
Form(query, save, follows) == [query |-> query, save |-> save, follows |-> follows]
Editing(part, form) == [part EXCEPT !.forms = @ \cup {form}]

\* A screen and the sections it renders are mounted and unmounted together.
Screen(parts) ==
    [shows |-> UNION {p.shows : p \in parts},
     acts |-> UNION {p.acts : p \in parts},
     forms |-> UNION {p.forms : p \in parts}]

(***************************************************************************)
(* Requests that have no hook.  Local state fetched by an effect is        *)
(* written as a query that nothing trusts and nobody else can name.        *)
(***************************************************************************)
Fetched(name, reads) == Query(<<"local", name>>, reads, "never", "no")
Raw(kind, writes) == Mutation(kind, writes, {})
=============================================================================
