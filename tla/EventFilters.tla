---------------------------- MODULE EventFilters ----------------------------
(***************************************************************************)
(* EventRouter and its filters as operators.                               *)
(*                                                                         *)
(* What a filter looks at is the attrs of an event: for every attribute    *)
(* the string it compares, and the strings found below it by path (the     *)
(* nodes of an XML document, the members of a JSON one).                   *)
(***************************************************************************)
EXTENDS Sequences, SequencesExt

CONSTANTS
  Found,      \* the pairs <<pattern, string>> for which re.search finds one
  NoPath,     \* the path of a filter that compares the attribute itself
  NoFilter    \* no next filter

Whole(attrs, scope) == IF scope \in DOMAIN attrs THEN {attrs[scope].text} ELSE {}

Below(attrs, scope, path) ==
  IF scope \in DOMAIN attrs /\ path \in DOMAIN attrs[scope].nodes
    THEN attrs[scope].nodes[path] ELSE {}

(* _get_value: nothing when a step of the way is missing.                  *)
Values(f, attrs) ==
  IF f.path = NoPath THEN Whole(attrs, f.scope) ELSE Below(attrs, f.scope, f.path)

(* The patterns of an EventXMLXpathsFilter are themselves in the event.    *)
Patterns(f, attrs) ==
  IF f.regexPath = NoPath THEN f.patterns ELSE Below(attrs, f.scope, f.regexPath)

Hits(f, attrs) ==
  \E p \in Patterns(f, attrs), v \in Values(f, attrs) : <<p, v>> \in Found

(* EventFilter.__init__ takes a next filter but assigns what               *)
(* set_next_filter returns, which is nothing ...                           *)
NewFilter(patterns, scope, path, outs, next) ==
  [patterns |-> patterns, scope |-> scope, path |-> path, regexPath |-> NoPath,
   outs |-> outs, chain |-> <<>>]

XpathsFilter(scope, path, regexPath, outs) ==
  [NewFilter({}, scope, path, outs, NoFilter) EXCEPT !.regexPath = regexPath]

(* ... only set_next_filter, called afterwards, makes a chain. All filters *)
(* of a chain have to match; the outboxes are those of its first.          *)
SetNextFilter(f, next) == [f EXCEPT !.chain = <<next>> \o next.chain]

Matches(f, attrs) == Hits(f, attrs) /\ \A i \in DOMAIN f.chain : Hits(f.chain[i], attrs)

-----------------------------------------------------------------------------
(* A router before its start: filters, the outboxes set as defaults by a   *)
(* subclass, the patterns of default outboxes, and its type.               *)
Router(filters, defaults, patterns, whitelist) ==
  [filters |-> filters, defaults |-> defaults, patterns |-> patterns,
   whitelist |-> whitelist, methods |-> FALSE]

(* SimpleRouter.pre_hook: a filter per outbound queue, whose name is the   *)
(* pattern; the default queue becomes a default outbox.                    *)
SimpleRouter(outbound, default, scope) ==
  LET others == SelectSeq(outbound, LAMBDA o : o # default)
  IN  Router([i \in DOMAIN others |-> NewFilter({others[i]}, scope, NoPath, <<others[i]>>, NoFilter)],
             SelectSeq(outbound, LAMBDA o : o = default), <<".*">>, FALSE)

(* HTTPMethodEventRouter.pre_hook.                                         *)
MethodRouter(outbound, methods) ==
  LET known == SelectSeq(outbound, LAMBDA o : o \in methods)
  IN  [Router([i \in DOMAIN known |-> NewFilter({known[i]}, "method", NoPath, <<known[i]>>, NoFilter)],
              <<>>, <<".*">>, FALSE) EXCEPT !.methods = TRUE]

(* EventRouter.pre_hook fails without anything to route by, and when a     *)
(* filter names an outbox that is not connected.                           *)
CanStart(r, outbound) ==
  /\ r.filters # <<>> \/ r.defaults # <<>> \/ ~r.whitelist
  /\ \A i \in DOMAIN r.filters : ToSet(r.filters[i].outs) \subseteq ToSet(outbound)

Filtered(r) == UNION {ToSet(r.filters[i].outs) : i \in DOMAIN r.filters}

(* An outbox is sent to by way of a place: <<i, j>> for the outbox j of the *)
(* filter i, the queue j that the pattern i makes a default, or with i = 0 *)
(* the default j of a subclass.                                            *)
Way(i, j, outbox) == [place |-> <<i, j>>, outbox |-> outbox]

Preset(r) == {Way(0, j, r.defaults[j]) : j \in DOMAIN r.defaults}

(* Every pattern adds the unfiltered outboxes it finds to the defaults,    *)
(* also those that are defaults already.                                   *)
Unfiltered(r, outbound, i) ==
  {j \in DOMAIN outbound : outbound[j] \notin Filtered(r) /\ <<r.patterns[i], outbound[j]>> \in Found}

WithDefaults(r, outbound) ==
  [r EXCEPT !.defaults =
     IF r.whitelist THEN {}
     ELSE Preset(r) \cup UNION {{Way(i, j, outbound[j]) : j \in Unfiltered(r, outbound, i)} :
                                i \in DOMAIN r.patterns}]

-----------------------------------------------------------------------------
Matching(r, attrs) == {i \in DOMAIN r.filters : Matches(r.filters[i], attrs)}

(* consume: every filter that matches sends the event to its outboxes; if  *)
(* none does the event goes to the defaults of a blacklist, is discarded   *)
(* by a whitelist, and refused by a router of HTTP methods.                *)
Refuses(r, attrs) == r.methods /\ Matching(r, attrs) = {}

Boxes(r, i) == {Way(i, j, r.filters[i].outs[j]) : j \in DOMAIN r.filters[i].outs}

Deliveries(r, attrs) ==
  IF Matching(r, attrs) # {} THEN UNION {Boxes(r, i) : i \in Matching(r, attrs)}
                             ELSE r.defaults
=============================================================================
