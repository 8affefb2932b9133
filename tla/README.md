# AstraGraph: specifications and proofs

TLA+ models of the enforcement core of AstraGraph, the TLC runs that check them
on small instances, and the TLAPS proofs of the main theorems for every value
of the constants. Paths below are relative to the repository;
`enforcement.rs:84` is a line of `src/proxy/src/enforcement.rs` here.

## 1. The system

AstraGraph stands between AI agents and the tools they call. Three services and
one library of models work on each tool call:

```
 agent --HTTP/stdio--> proxy --(allowed)--> upstream tool server / agent
                        |  EvaluateAction     -> policy service
                        |  StreamScore        -> verifier
                        |  InsertNode, LinkEdge, GetDriftPath -> graph service
```

The proxy sees every call. It asks the policy service for a decision (cached
per agent, tool and arguments), the verifier for a score of the agent's
reasoning trace, decides, records the call in the graph service, and forwards
it or answers with an error.

### Inventory

| Component | State | Operations | What is hard | What makes it correct |
|---|---|---|---|---|
| **Enforcement** (`proxy/src/enforcement.rs`) | none of its own but the call's locals; shares the policy cache, `NODE_COUNTER` | `evaluate_tool_call`, scoring with one retry, audit inserts, edge, drift query | eleven awaits per request, all requests share the cache; each service may fail; the client may leave at any await | only cleared calls go out; the log agrees with the answer; nothing is logged after release; every request is answered |
| **Circuit breaker** (`circuit_breaker.rs`) | none | `decide`, `map_fallback` | order of tests, boundary of the threshold, unknown wire values | allows exactly when policy, trace rule and score (or fallback) agree |
| **Policy cache** (`policy_cache.rs`) | map key → decision and time stored | `get` (removes what expired), `insert` | lock is not held across the RPC; stamped when stored; answers stored in any order | no decision is used that the policy service gave up long before |
| **MCP HTTP front end** (`mcp/http.rs`) | none; a task, an inspector and a channel per answer | `proxy_mcp`, streaming | cancellation; chunks that end anywhere; an upstream that breaks off; a full channel | verdict obeyed; the inspection finds what the body holds; a truncated answer is seen to be |
| **A2A front end, card cache** (`a2a/`) | map agent → card hash; answers as above | card check, handoff record, forwarding, streaming | cards fetched long before they are compared, by requests that overtake each other; calls that fail in between | each change of a card is refused once; what is forwarded was allowed and recorded first |
| **MCP stdio transport** (`mcp/transport.rs`) | child process, pipes, a locked stdout | two line pumps | both write to one stdout; full pipes; writes that fail unnoticed; the end of either side | lines stay whole, in order, none lost or sent twice; all flow; `run_stdio` ends with both sides |
| **Parsers, trace extraction** (`mcp/parser.rs`, `a2a/parser.rs`, `thinking_trace.rs`) | none | classification of JSON | many shapes | pure, unit-tested |
| **Policy store, rollouts, watcher** (`policy/src/store.rs`, `main.rs`, `watcher.rs`) | stable policies, active rollouts, history, a gauge; files; the watcher's queue | load, watch and apply files, start/stop/promote/rollback rollout, resolve | gauge moved after the lock is released; file read before the lock is taken; files change before the watcher runs; restarts | gauge exact; candidates stay in their share; files reach the store |
| **Policy evaluation** (`evaluator.rs`, `grpc.rs`) | none | rules, tool lists, time windows, advanced rules, rollout key | wrap-around windows, ordering of rules, unordered maps | first matching rule decides |
| **Key caches** (`auth.rs` of policy and graph) | JWKS keys and time fetched, under a lock | `ensure_role`: refetch after the TTL, judge | the lock is kept over the whole fetch; the one that fetches may leave; keys change while an answer is under way | no token is judged by keys withdrawn long ago; one fetches for all; nobody waits for ever |
| **Graph store** (`graph/src/store.rs`, `ccg.rs`, `main.rs`) | a graph per workflow, violations, JSONL files | insert node, link edge, record violation, flush, clean up, restart | flush and cleanup take the lock separately; I/O errors ignored; repeated ids; handoffs that close a cycle | acyclic, ids unique, records kept, blocked nodes reported, nothing dropped unwritten |
| **Graph algorithms** (`algorithms.rs`) | none | cycle check, handoff edge, drift path | depends on arrival order; omits good verifications | drift path is a lineage, root first |
| **Graph queries, SLO summary** (`graph/src/store.rs`, `main.rs`) | none | read-only | empty lists, percentile index | the summary is that of what is stored |
| **PII scrubber**, **verifier**, **connectors**, **dashboard**, **scripts**, **deployment** | -- | -- | -- | see section 8 |

| **Proxies and graph service together** | `NODE_COUNTER` of each proxy process; the graphs | a call's inserts and its edge, in the order of its awaits | every process counts from 1; calls of several proxies meet in one workflow; clients leave in between | what was accepted of a call is kept, listed and linked as its own |

Calls between them: proxy → policy, verifier, graph by gRPC (unary but for
`StreamScore`, a server stream of which only the first message is used). Policy
and graph services call nobody but their disks and, for alerts, a webhook. No
service reads another's state, so the proxy's model needs of the others only
what they may answer, and the two stores can be specified on their own.

The hazards of each component, at their lines, are the `hazards` of
`PROJECT.json`, each with the properties aimed at it.

## 2. Modules

| Module | Models | Uses |
|---|---|---|
| `CircuitBreaker` | `decide`, `map_fallback`, `fallback_to_decision` as operators | |
| `Gate` | the abstract promise about a call: scored twice at most and queued only after the second try, judged once, logged as judged, released only if allowed, never logged after release | |
| `Enforcement` | `evaluate_tool_call` for a set of concurrent requests with the shared cache | `CircuitBreaker` |
| `EnforcementProps` | its properties and the refinement mapping to `Gate` | `Enforcement`, `Gate` |
| `EnforcementProofs` | its theorems | `EnforcementProps` |
| `CausalGraph` | one graph: `upsert_node`, `link_handoff`, `latest_action_node`, `validate_dag` | |
| `GraphStore`, `GraphStoreProps`, `GraphStoreProofs` | the store with its flush loop, disk and restarts; properties, the refinement mapping to `AuditLog`, theorems | `CausalGraph`, `AuditLog` |
| `AuditLog` | the abstract promise of the graph service: a log per workflow, to which records are only appended | |
| `Summary` | `slo_summary` and `percentile_ms` as operators on a state of the store, against a reference | `GraphStore` |
| `AuditTrail`, `AuditTrailProofs` | the proxies composed with the graph service: numbers, ids, what each call leaves in the graphs | `EnforcementProps`, an instance of `GraphStore` |
| `DriftPath` | `trace_drift_path` with a reference definition | `CausalGraph` |
| `PolicyStore`, `PolicyStoreProps`, `PolicyStoreProofs` | the store with its files, watcher, rollouts and gauge | |
| `Evaluation` | `evaluate_policy_with_runtime` and `policy_migrate` as operators | |
| `EvaluationProps`, `EvaluationProofs` | a policy as its owner edits and migrates it; properties and theorems | `Evaluation` |
| `A2aProxy` | `proxy_a2a` for a set of concurrent requests over the card cache | |
| `ResponseStream` | `build_intercepted_response` of both front ends with their inspectors | |
| `FrontEndProofs` | the theorems of both | `A2aProxy`, `ResponseStream` |
| `StdioTransport`, `StdioTransportProofs` | `run_stdio`: both pumps, the pipes, the lock on stdout, the end of either side | |
| `KeyCache`, `KeyCacheProofs` | `ensure_role` with its key cache, for a set of concurrent requests and a key server that rotates | |
| `MCEnforcement`, `MCAuditTrail`, `MCKeyCache`, `MCGraphStore`, `MCPolicyStore`, `MCEvaluation`, `MCA2aProxy`, `MCResponseStream` | constants for the runs (`StdioTransport` takes numbers only and needs none) | the module of the same name |

Definitions marked *Mutant* beside a definition are forms of it with a
plausible bug; no `Next` uses them. `PROJECT.json` names the property each one
breaks.

### Enforcement and the code

One request is one element of `Calls`; `pc` names the await it is suspended at
(the header of `Enforcement.tla` lists them), and an action is the code from
one await to the next, which tokio may interleave with other requests only at
its ends. `LookupHit`/`LookupMiss` are `PolicyCache::get` under its mutex;
`PolicyAnswer` is the moment the policy service evaluates, `PolicyReply` the
moment the proxy sees the answer and stores it, so two requests that miss on
one key can store their answers in either order. `ThinkingDone` is the other
half of `tokio::join!`. `JoinFailed`, `JoinDenied` and `JoinPermitted` are what
follows the join. `HeadersArrive`, `ScoreArrives`, `ScoreFailsOnce`,
`ScoreFails`, `SleepOver` are `score_with_retry`: a timeout of 2 s covers the
call that opens the stream, none covers the message. `RecordAction`,
`RecordVerification`, `LinkVerification`, `DriftOrigin` and `Forward` are the
awaits of the audit and of `forward_request`. `Disconnect` drops the handler at
any await; `LateEffect` is what the call that was under way may still do at its
service.

`policy`, `lastHeld`, `evaluatedAt`, `usedAt` are not in the proxy: the first
is the policy service (external), the others are history the staleness property
talks about.

### GraphStore and the code

Each gRPC handler takes the write lock for its whole operation, so it is one
action: `Insert` includes the upsert, the handoff edge, the cycle check with
its roll-back, the time stamp and the captured violation. `LinkEdge` likewise.
The flush loop is two actions because `main.rs` releases the read lock after
`flush_to_disk` and takes the write lock for `cleanup_expired`. `FlushError`
stops the flush after any set of graphs (a `HashMap` order) or after any number
of violations. `Crash` empties the memory; the files are never read back.
`disk` keeps the last line of each graph's file, which is what a reader of the
append-only file takes for its state.

`AuditLog` is what the service's clients may rely on: `Record`, `Repeat`,
`Link`, `Forget`, `Restart`. `GraphStoreProps` maps `log` to `nodes`, `links`
to `edges` and `reports` to `violations`; a handoff's edge comes with its
record, a refused cycle is a stutter, a cleanup forgets all that expired at
once.

`Summary` reads a state as `slo_summary` does under the read lock. The latency
of a verification, which nothing else reads, is given by a constant instead of
a field. `Latencies` is the sorted list by what makes it one, not by an
algorithm: a listing of the samples, each at one place, in the order of their
latencies. `percentile_ms` rounds a float product up; for 50, 95 and 99 percent
of up to two million samples it gives the integer rank of `PercentileMs`.

### AuditTrail and the code

The composition keeps every step of `Enforcement` and adds what it does to the
numbers of its proxy and to the graphs: `NumbersOnArrival` (the action's id
and, with a trace, the thinking node's and the trace's are drawn before the
first await), `Numbers` (the verification's id when the action was sent,
another number for a refusal's `violation_id`), and `GraphFollows`: when the
graph service accepts an insert or an edge of the call, the service takes the
step of an instance of `GraphStore` that belongs to it. A node is sent with the
call it is about, so that the properties can tell whose record is stored.
`NamesRule` says whether the `__policy_rule_id` in an action's arguments names
a rule, which is what the graph service looks at: the proxy writes the
decision's rule there only if the call was denied and its arguments are an
object (not in `NoObject`), and a decision has one only if a rule denied and
not a tool list (`ruled`); a call that was permitted keeps what its client
wrote there (`Marked`). A proxy is one life of a process, so a restarted proxy
is another one. The clock and the disk of the graph service stand still, as no
query reads the disk.

### KeyCache and the code

One handler is one request: `lock` (waiting for the write lock of `get_jwks`),
`send` and `body` (the two awaits of the fetch, with the lock held), then the
verdict with no await in between. `UseCached` and `StartFetch` are the two
branches of `get_jwks` once it has the lock; `Disconnect` drops the handler and
its lock. The server publishes key sets one after another. Both services have
the same lines; the map names those of the policy service but for the lock and
the specification as a whole.

### PolicyStore and the code

A policy is the version its file holds, and each policy has one file.
`LoadFile` and `StartWatcher` are start-up in its order: load all, then watch,
and a watcher that cannot start is dropped silently (service `blind`). The
watcher's thread reads a file (`ReadFile`) before it takes the lock
(`StoreFile`). A rollout handler changes the store under the lock (`Begin`,
`End`, `PromoteCandidate`) and moves the gauge after it: `StartRollout`,
`StopRollout`, `Promote` leave what they owe in `pending`, and `Count` pays it.
`Resolve` is `resolve_for_evaluation` for a bucket 0..99. `released`, `granted`
and `overridden` are history, not state of the service: the versions a policy's
file held or a promotion made stable in this life of the service, the share
that the last rollout request asked for, which a stop, a promotion and the next
start take back, and whether the store was promoted past its file.

### Evaluation and the code

The evaluator keeps no state, so it is a set of operators; what changes is the
policy it is given. `EvaluationProps` lets an owner append rules and advanced
rules and run `policy_migrate` at any point, and asks for every call and either
mode what `Evaluate` says. A condition is the set of clauses its text is split
into; a clause is one of the forms `matches_clause` and
`matches_advanced_clause` know, or another that matches nothing. `Compare`
follows `compare_expression_values`: the literal's type decides, a text
compares with any value by its written form.

### A2aProxy, ResponseStream and the code

One handler is one request; an action runs from one await of `proxy_a2a` to the
next. `FetchCard` is the moment the card's server produced its answer;
`UpdateCard` is when its text has arrived and `AgentCardCache::update` compares
and replaces under its lock, which may be long after. The verdict is any that
`evaluate_tool_call` can give: `Enforcement` says which. `InsertHandoff` may
succeed, fail, or succeed with its answer lost. `Cancel` drops the handler at
any await. `ChangeCard` and the card servers are external.

`ResponseStream` is one answer: the spawned task (`task`, `hand`), the channel
and hyper's end of it (`ReceiveChunk`, `ReceiveEnd`, `Leave`). The two
inspectors differ in whether only `task_status` events count (`byEvent`). A
body is a sequence of units - field names, line ends, texts, the two bytes of
one character - and a chunk may end after any unit. `"\r"` stands for all white
space but the line end. `PushChunk` looks for line ends in the new text, unit
by unit: what was pending has none, or it would be a line. The `\r` that the
code pops off a line's end goes in `Trim`, to which every line and value comes.

### StdioTransport and the code

`run_stdio` as two pumps whose place is `at`: `read` (in `next_line`), `judge`
(`handle_message`), `forward` (writing to the child), `lock`, `text` and `end`
(the three awaits of `write_line` on stdout), `over`. Only the agent's pump
writes to the child, so the lock on its stdin is never contended and `Forward`
is one step. `TakeLine` and `TakeChildLine` are what follows `next_line`: a
blank line is skipped, one that is no UTF-8 ends the pump, and one from the
agent that does not parse is sent back and then ends it. Errors of `write_line`
are ignored, so a line for a child that has gone is lost silently (`Forward`).
`run_stdio` keeps a handle of the child's stdin until both pumps are over: the
agent's closing never reaches the child, and `ChildExits` is the child's own
choice.

## 3. Abstractions

Chosen so that every branch the properties can see remains:

- **Enforcement.** A key stands for agent, tool and arguments, with what is
  extracted from them (a trace or not, an allowlisted tool or not); different
  calls have different keys (hash collisions are ignored). Scores and
  thresholds are integers, since only `<` is used; a NaN score compares as
  false and blocks, as any score at the threshold does. Node ids, argument
  envelopes, error texts and telemetry are left out. Time windows appear as
  policy changes, for the proxy passes `time_window_ok = true` and the policy
  service decides. An insert reported as failed is taken as not applied. An
  upstream failure after forwarding changes nothing here.
- **GraphStore.** Texts, edge types, parallel edges, telemetry and the snapshot
  inside a violation are left out; a node's payload type is its node type. A
  request that fails before the store is touched is no step.
- **AuditTrail.** The call a node is about stands for its tool, arguments and
  trace. Policies do not change and decisions do not expire (`Enforcement` says
  what they may do); both kinds of decision are among the initial ones.
- **KeyCache.** A token is the key that signed it and whether its roles are
  enough; one with a bad signature, audience or expiry is one whose key nobody
  publishes. Disabled authentication and a missing JWKS url are left out: the
  cache is then never filled.
- **Summary.** The review queue and the actions that are pending are left out:
  neither is told apart by the store's nodes. The block rate is the quotient of
  two numbers that are there.
- **PolicyStore.** The history on disk, the webhook alerts, the counters of
  rollout events and the read-only handlers are left out; popping an event and
  reading its file are one step, because what lies between them touches nothing
  shared and a change between the two is a change before both.

- **Evaluation.** Values are integers with a type; tool names are integers too,
  and `NumericNames` are those a migrated literal reads as a number.
  `threshold` and `fallback`, passed through, are left out. Parsing texts into
  clauses is left out, so a text that splits oddly is the clause "other".
- **A2aProxy.** Cards are compared by value: two cards of one hash are the
  same. A request that is no JSON is one that is no task.
- **ResponseStream.** The channel holds two chunks for 32. What is done with a
  datum that was found (telemetry) is left out.
- **StdioTransport.** A pipe holds lines (the child's stdin) or texts and ends
  of lines (stdout), not bytes; the verdict on a call is any that `Enforcement`
  can give. The agent is taken to read until it is done: writes to a closed
  stdout, which are ignored, are left out. The scan of tool lists changes only
  telemetry.

Some things the models show, or reading the code for them did, that are not
stated as properties, since the code promises nothing about them: a late answer
of an older evaluation may overwrite a newer cache entry (the bound of
`BoundedStaleness` holds nevertheless), and a promotion promotes whichever
candidate is active by then, for the request names no version. A changed agent
card is remembered when it is refused, so the same request sent again passes:
`ChangeNoticed` says what is left, one refusal per change. `policy_migrate`
drops the time window of a rule and replaces the advanced rules a policy had
(`docs/advanced_policy_mode.md:46` says it "appends" them);
`MigrationPreserves` holds for rules that an expression can say
(`Expressible`).

About the audit trail: a call blocked only by a fallback or for want of a score
is recorded as blocked but is no violation, for neither its rule nor a
verification says so (`store.rs:418`). Nor is a call that `blocked_tools` or
`allowed_tools` denied: such a decision has no rule (`evaluator.rs:77`), so its
`rule_id` is empty (`policy/src/grpc.rs:70`), and the graph service takes an
empty rule for none (`store.rs:413`). Nor is one a rule denied whose arguments
are no JSON object, into which no rule can be written (`enforcement.rs:140`). A
permitted call that is refused later keeps the arguments of its client
(`enforcement.rs:211`), so one whose client wrote a `__policy_rule_id` itself
is listed under that rule. The `violation_id` a client is given
(`enforcement.rs:466`) never names a stored violation, whose id is made from
its node's (`store.rs:422`), and the stored id does not name the workflow. The
snapshot inside a violation is taken before the edge to its verification
exists. Proxies create no edge into an action, so the drift origin of a refused
MCP call is the action itself. A verification's violation and the REST drift
path use the threshold 0.7 (`store.rs:400`, `graph/src/main.rs:200`) whatever
the policy's, so the review queue of the summary knows nothing of a call that
was refused at another. A resent node that is blocked is listed again.
Violations are never dropped, and each flush appends all of them to
`violations.jsonl` once more. The cleanup runs after a flush that failed as
after any other (`graph/src/main.rs:109`), so a graph that has expired and that
the failed flush did not reach is dropped unwritten. Of an A2A request, the
action goes to the workflow of the request's id and the handoff to that of its
`workflow_id`. About policies: the lines of `history.jsonl` do not name their
policy and are never read; the policy of a file that was deleted or renamed
stays in force until a restart; an empty `policy_id`, the proxy's default, is
judged by whichever policy a `HashMap` yields first.

## 4. Runs

State counts are distinct states of a complete search. Symmetry is used where
requests are interchangeable and no liveness is checked.

| Run | Question | Bounds | States |
|---|---|---|---|
| `enforcement_gate` | With failures anywhere, `fail_closed` off, every fallback and score: does `Enforcement` implement `Gate`, is only what was cleared released (or what the policy service failed on), is the one retry made before a call is queued, does the log agree? | 2 requests; a traced, a bare and an allowlisted key; 4 decisions; 2 scores; clock still | 4,094,784 |
| `enforcement_stale` | How old can a decision be when it is used, and does a request keep the one it adopted while the policy and the cache change? | 3 requests on 1 key whose decision changes; `fail_closed` on; TTL = RpcMax = 1, MaxNow = 3 | 2,572,950 |
| `audit_own` | Is what was accepted of a call kept under its own ids, are refusals with a rule or a score listed exactly once and others never, do edges stay inside their call, is every request answered or waiting for the verifier? | 2 calls at one proxy or at two, in one workflow; one key traced and marked, the other with arguments that are no object; denied by a rule or by a tool list, or permitted with QUEUE; fair | 1,172,635 |
| `audit_doc` | see section 6 | 2 proxies, 1 workflow, both calls traced and permitted | -- |
| `graphstore_graph` | Acyclic, an `AuditLog`, the drift path a lineage, under every order of operations? | 1 workflow; 5 nodes over 4 ids, one id sent twice; all edges between 3 ids; 3 violations; clock still | 257,392 |
| `graphstore_disk` | Are blocked nodes reported, is nothing dropped in a state that is not on disk (unless a failed flush did not reach it), is every stored node written before it expires, when flushes fail and the service crashes; does the summary agree with what is stored? | 2 workflows; 3 blocked nodes, two of them timed verifications, no edges; TTL = MaxGap = 1, MaxNow = 2; 2 violations; fair | 636,166 |
| `policystore` | Is the gauge exact, do candidates stay in the share of the rollout in force and end with it, does the store end with what the file holds, does every edit seen get there? | 1 policy, 3 versions, 3 handlers, 4 percentages, 4 buckets, 2 events; restarts; fair | 518,158 |
| `evaluation` | Do windows act as intervals of the clock, does migration preserve decisions, does an appended rule ever override an earlier one? | policies of up to 3 added rules out of 22 and 10 advanced rules; 37 calls; a day of 4 minutes | 148,642 |
| `a2a_proxy` | Is each change of a card refused, is what is forwarded allowed and recorded first? | 3 handlers, 1 agent, 2 card urls, 2 cards, 1 change, a repeated task id, a request that is no task | 2,556,456 |
| `response_stream` | Does an answer that broke off look so, does the inspection find what the body holds, does the task end when its client leaves? | 7 bodies of up to 17 units, cut anywhere; a channel of 2 | 32,864 |
| `stdio_transport` | Do lines stay whole, is none lost or sent twice, does everything flow through full pipes, does `run_stdio` end? | 2 lines of each side, of every kind; pipes of 1; fair | 77,847 |
| `key_cache` | How old can keys be when a token is judged by them, does one request fetch for all, does every request end? | 3 requests; tokens of an old and a new key, permitted and not; 2 key sets; TTL = RpcMax = 1, MaxNow = 3; fair | 186,766 |

Why the bounds are enough. *Enforcement*: two requests are the fewest that
interleave on the cache, one more lets a stale answer be stored over a newer
one and then be hit by a third. The keys cover with and without a trace and
allowlisted; the decisions cover deny and each fallback; the scores lie on
either side of the threshold. The clock stands still (`MaxNow = 0`) except in
`enforcement_stale`, the only question about time, where `MaxNow = 3` exceeds
`TTL + RpcMax = 2`, so a decision can be too old; there, calls without a trace
are enough because staleness is settled at the join. So `JudgedOnce` is checked
there from the adoption over the join to the verdict; two calls that score
while time passes and policies change are more states than a run can visit, and
`JudgedOnceCorrect` says the rest. *AuditTrail*: ids clash between two calls or
not at all, so two calls suffice; one key is traced and one is not, so that
verifications and calls without one meet, and the proxies of the two keys are
the same or differ by the keys the calls choose. A denial with a rule meets
arguments that take it and arguments that cannot, one without a rule a text
that stands there already, and a refusal by its score the same text. Requests
end, so the system may really stop: `CHECK_DEADLOCK FALSE`. *GraphStore*: three
actions and handoffs are enough for an edge, a repeated handoff and a cycle;
the graph run stops the clock and the disk errors because they do not touch
edges, the disk run has two workflows because a failed flush writes some and
not others, and `MaxNow = 2 > TTL` lets a graph expire; the two verifications
have different latencies and come in both orders. `MaxViolations` bounds what
the code leaves unbounded. *PolicyStore*: the percentages 0, 30, 100, 101 and
the buckets 0, 29, 30, 99 are both sides of every comparison; three handlers
let a start, a stop and a promotion of one policy be counted in every order;
with three versions the stable one, the candidate and the one a file is edited
to can all differ; an event queue of two lets a file change behind an event
that is still unread. *Evaluation*: three rules are enough for one that
decides, one behind it and one that is migrated; four minutes hold windows of
one minute, of two, and one past midnight. *A2aProxy*: two requests overtake
each other with an old and a new card, a third is judged by what they left.
*ResponseStream*: the bodies have events named before, after and twice, lines
without an end, white space before a line end, and a character that a cut goes
through; two chunks fill the channel. *StdioTransport*: a pipe of one is full
after one line, and with two lines there is one in the pipe and one that waits,
on either side. *KeyCache*: three requests are one that fetches and two that
wait, one of which fetches next when the first fails or leaves; `MaxNow = 3`
exceeds `TTL + RpcMax`, so keys can be too old. `a2a_proxy`, `response_stream`,
`stdio_transport` and `key_cache` end when their requests, sides or clock do:
`CHECK_DEADLOCK FALSE`.

## 5. Fairness

- `Enforcement!LiveSpec`: weak fairness of each request's own steps
  (`ProxyStep`): the tasks are run by tokio, the calls to the policy and graph
  services answer or fail, and opening the verifier's stream has a timeout.
  That the two services answer or fail is an assumption: those calls have no
  timeout in the proxy. Nothing is assumed of the verifier's message
  (`ScoreStep`), for which there is no timeout either (`enforcement.rs:392`): a
  verifier that opens the stream and stays silent holds its request for ever.
  So `Answered` says that every request ends up answered, left by its client,
  or waiting for that message, and nowhere else. Nothing is assumed of arriving
  clients, disconnects, the clock or the policy.
- `AuditTrail!TrailLiveSpec`: the same, for the steps of the composition: each
  call's `ProxyTrail`. `Answered` is checked here.
- `KeyCache!LiveSpec`: strong fairness of taking the lock, since tokio's
  `RwLock` is first in, first out and nobody can be overtaken for ever; weak
  fairness of the fetch, which is an assumption about the key server: the
  client that fetches has no timeout (`policy/src/auth.rs:113`).
- `GraphStore!LiveSpec`: weak fairness of `Flush` and of `Cleanup`: the loop is
  a tokio interval and its errors do not end it. `StoredIsFlushed` excuses a
  flush that failed and a crash, since the code gives no guarantee then.
- `PolicyStore!LiveSpec`: weak fairness of the watcher's two steps: its thread
  runs until the service dies.
- `ResponseStream!StreamSpec`: weak fairness of `Send`: tokio polls a task
  whose channel has room or has lost its receiver. Nothing is assumed of the
  upstream and the client, so a task that waits for a silent upstream may wait
  for ever, also after its client has left.
- `StdioTransport!Spec`: weak fairness of each pump (tokio runs both; that
  judging a call ends is assumed, see `Answered` for what it may wait for) and
  of both readers, without which a full pipe stays full. Nothing is assumed of
  the child's exit or of the agent's closing. Weak fairness is enough for the
  lock because the lines are bounded; tokio's mutex is first in, first out
  anyway.

## 6. Disagreement between the documentation and the code

One run ends in a counterexample to a sentence of the documentation.

`audit_doc`. `RULES.md:8`: "Audit records must be emitted for allow and block
outcomes." Every proxy process numbers its nodes from 1 (`enforcement.rs:571`),
workflow ids repeat (the request's id, or `mcp-default`), and the graph service
ignores a node whose id it knows (`ccg.rs:90`). With two proxies, or one that
was restarted while the graph lives, a call's action node is taken for
another's: its insert succeeds and no record of the outcome exists. The chart
runs several proxies by default (`charts/astragraph/values.yaml:3`).
`RecordsOwn` says what holds instead: as long as one proxy life writes into a
workflow, every accepted record is there.

Reading alone shows another gap of the same sentence: when `EvaluateAction`
fails, `evaluate_tool_call` returns (`enforcement.rs:131`) before any action
node is inserted, so the block (or, with `fail_closed` off, the allow) leaves
no record.

## 7. Proofs

All proofs are for arbitrary constants that satisfy the named assumptions of
the modules (types of the sets, `Day` positive, `TTL`, `RpcMax`, `MaxNow`
natural, `MaxGap <= TTL` in the graph store, finite `Handlers` in the policy
store; finite `Calls` in the audit trail, and keys whose arguments are no
object are neither traced nor marked; in a response stream, that the bytes of a
character and its replacement are no line end, white space or field name): any
number of requests, keys, proxies, workflows, nodes, policies, any body.

**EnforcementProofs.** `TypeCorrect` is inductive as it stands. `Control`
relates each `pc` to what must have happened before it (who holds a verdict, a
score, a record, how often the verifier was asked) and is the invariant the
others rest on.
- `ForwardJustifiedCorrect`: `ForwardJustified` speaks of calls already sent,
  so it is not inductive; `JustifiedInv` says the same from the moment the
  verdict is `Allow`. `DecideExact` says when `Decide` allows.
- `AuditAgreesCorrect`: by `AuditedInv`, that a node, once written, has the
  status of the final verdict, at every `pc`.
- `BoundedStalenessCorrect`: `PastInv` (no time stamp lies in the future) and
  `FreshInv`, which bounds the age of the three things a decision passes
  through: an answer under way (at most `RpcMax`), a cache entry (held `RpcMax`
  before it was stored), a request's own decision (`TTL + RpcMax`).
- `JudgedOnceCorrect`: an action property, in two halves: `AdoptedStep` (no
  step alters an adopted decision) and `VerdictStep` (none alters verdict,
  score or tries once there is a verdict), both from `Control`.
- `EnforcementImplementsGate`: initial states map to initial states and each
  step to a `Gate` step or a stutter, from `Control`; that a call is queued
  after two tries only is `LastTry`.

**GraphStoreProofs.** `StoreTypeCorrect`; `AcyclicCorrect` and
`IdsUniqueCorrect` (both inductive, over lemmas about `Upsert` and `IsDag`);
`RecordsKeptCorrect` and `ViolationsGenuineCorrect` (action properties).
`BlockedReportedCorrect` needs `ReportedInv`: if the last flush was complete,
the nodes on disk are on disk with their violations; if it was not, the
violations are at least still held; that is what makes one crash harmless after
a good flush. `DropsAreFlushedCorrect` needs `FlushedInv`: between a flush and
its cleanup, a graph that has expired was not touched since, which takes
`MaxGap <= TTL`, so it was there at the flush and is on disk as it is, unless
the flush failed and did not reach it.

`DriftPathsAlwaysSound` is about what a recursive function computes.
`PathsExist` shows that the recursion is defined: from a node with a least
number of nodes left to visit and no value, one more visit would give one
(`LeastExists` stands in for induction). `PathsCollected` unfolds it.
`LineageLoopless` shows that in an acyclic graph no node is in the lineage of
its own parent, since the nodes between the two would be a set in which each
has a parent, which `IsDag` excludes; so the walk never meets its `visited` set
and ends where the reference does (`WalkGivesDriftPath`). The theorem needs
`AcyclicCorrect`: what it says does not hold of any nodes and edges, only of
what the store keeps.

`SummaryAlwaysExact`: `CanBeSorted` shows that the `CHOOSE` in `Latencies` is
not vacuous, for any finite set of samples (a smallest set that cannot be
sorted would be one that an insertion sorts, `InsertSorted`). `RankCovers` is
the arithmetic of the rank, `RankCounts` that as many samples as the rank do
not exceed what is there and fewer lie below. `CountedOnce` maps the stored
nodes to pairs of a workflow and an id, one to one because ids are unique. The
sets are finite by the invariant `LiveIsFinite`.

`GraphStoreImplementsAuditLog` is the refinement: `InsertRefines` shows that an
insert is a `Record` or a `Repeat` with its links and its report, `LogStep`
does the other steps. That ids are unique, records kept and violations genuine
is proved as well and not a property of a run, because `LogSpec` says it.

**AuditTrailProofs.** `TrailImplementsEnforcement`: hiding the numbers and the
graphs, every step is one of `Enforcement` or a stutter, so its theorems hold
of the composition. The other theorems rest on `TrailInv`, built in layers.
`Calm`: types; every number in use lies below its proxy's counter; the numbers
of two calls of one proxy, and of two kinds of one call, differ. `Genuine`:
every stored node is the record of a call that sent it. From both, a record
sent under a fresh id is stored as it was sent, as long as its proxy is alone
in the workflow (`FreshId`, `LonelinessFades`: once it is not, it never is
again): `Kept`, hence `RecordsOwnCorrect` with `EdgesOwn`. `ViolationsGenuine`
and `ListedOnce` say of the violations what `Kept` says of the records, hence
`BlocksListedCorrect`, for which `Placed` links the status of a record to the
verdict of its call; `SameIdSameRecord` and `ListedIs` turn the count into at
most one index. `TrailTypeCorrect` is part of `Calm`.

**KeyCacheProofs.** `TypeCorrect` says that the lock is held exactly by the one
that fetches. `VerdictsAlwaysCurrent` needs `StaleInv`, which bounds how long
ago the keys in hand, in the cache and used were withdrawn; `KeysAlwaysAdvance`
needs `FetchInv`, that whoever fetches found the cache expired and still does.

**PolicyStoreProofs.** `PolicyTypeCorrect`, `RolloutsAnchoredCorrect`;
`CandidateContainedCorrect` by `GrantedInv` (stable versions and everything on
its way into the store are released, and an active rollout is what the last
request asked for); `FilesAppliedCorrect` by `FilesInv` (a file that differs
from the store has an event, or was read before its last change and then has
another event); `GaugeBalancedCorrect` by `BalancedInv`, which counts the
handlers that owe with the cardinality theorems.

**EvaluationProofs.** The state is a policy, so the theorems are facts about
`Evaluate`. `LeastExists` (from the library's fact that inclusion of finite
sets is well-founded) lets `FirstOf` be characterised: `FirstOfLeast`, and
`FirstOfExtended` for a sequence that grew at its end, from which
`LaterRulesAlwaysDefer` follows. `MigratedClause` shows clause by clause that
the migrated form matches the same calls under both engines, `MigratedMatching`
lifts it to rules, and `MigrationAlwaysPreserves` to decisions.
`WindowsAreCyclic` holds for a day of any length (`Around` is its arithmetic).
`PolicyShape` is the invariant they need.

**FrontEndProofs.** `TypeCorrect` is inductive, since `TypeOK` also says what a
handler knows at each step. `ChangeAlwaysNoticed` needs `CacheCurrent`: a
handler that passed did so with the card that is cached still, or a request of
its agent has been refused since; two that passed with different cards cannot
both have the cached one. `ForwardedAlwaysRecorded` needs `RecordFirst`: a
handler at `forward` or in the upstream has its record, and one at `handoff`
its verdict.

`CompleteAlwaysWhole`, of `ResponseStream`, needs `StreamInv`: there are cut
positions such that what the client has, each chunk in the channel and the one
the task holds are adjacent parts of the body, in this order; what follows them
can only be the error, and then the task is over. The witness changes with each
step: a receive drops the first position, a send adds one.

`InspectionAlwaysExact`, of the same module, needs `InspectInv`: until the task
is over, the inspector has read exactly what arrived, and when it is over while
the client still reads, the body broke off or all of it was found. "Has read
the first `n` units" (`HasRead`) means: there is a line start `b` where the
current block begins and one, `p`, where the open line begins; `found` lists
the data lines of interest before `b` and `data` those from `b` to `p`, `event`
is the last event line between them (`Block`), and what is pending is the text
from `p` on, but for cut characters (`Open`). `UnitRead` is the step for one
unit: within a line it grows what is pending; a line end makes it a line, which
either adds to the block (`LineAdded`) or is blank and ends it (`BlockEnds`,
since then no later event line can belong to it). `RoundsExist` shows that the
recursion of `PushChunk` is defined and `ChunkRead` follows it through a chunk;
both count positions up to a bound (`UpToBound`, from the least number that
fails), which stands in for induction over the data. `AllRead` is what `Finish`
adds: the last line may have no end. `OfInterest` says all this by positions in
the whole body, without reference to chunks.

**StdioTransportProofs.** `TypeCorrect` is inductive and says that no pipe
overflows. `LinesAlwaysWhole` needs `WriterInv`: a pump is inside a line
exactly while it holds the lock, and between its text and its end the text is
the last thing on stdout. `LinesAlwaysKept` needs `AgentInv` and `ChildInv`:
the line in a pump's hand is the last it took, is due to be passed or answered
if the pump is on its way there, and is neither passed nor answered yet; every
earlier line has been, exactly as it should.

**Only model-checked.** The liveness properties `Answered`, `StoredIsFlushed`,
`LeavingStopsTask`, `EditsReachStore`, `LinesFlow`, `EndsWithBoth` and
`RequestsEnd`: fairness and `ENABLED` are beyond the prover. Every invariant
and every action property of a passing run is stated by a theorem.

## 8. Not modelled

The verifier's scoring and training (a model's output; `Enforcement` lets it
give any score, fail or be silent), the PII scrubber (text rewriting), policy
parsing, signatures and command-line tools (`policy_simulator` calls the
evaluator `Evaluation` models, once per line of its input), rollout webhooks,
connectors, the dashboard (a view whose requests may overtake each other: it
shows the drift path that arrived last), evaluation scripts, deployment,
start-up and configuration: I/O, cryptography or data without a state of their
own. The parsers and the extraction of the trace are classifications of texts;
which calls have a trace is an input. Of the graph queries, the lists and their
filters copy what is stored.

## 9. Plan

Done: `CircuitBreaker`, `Gate`, `Enforcement`; `CausalGraph`, `GraphStore`,
`AuditLog`, `Summary`, `DriftPath`; `AuditTrail`; `PolicyStore`; `Evaluation`;
`A2aProxy`; `ResponseStream`; `StdioTransport`; `KeyCache`.

Left, in order of importance:

1. `PolicyStore` with files that name their policy: two files of one policy, a
   file renamed; the request without a `policy_id`.
2. `A2aProxy` and `StdioTransport` as users of `Gate`: their verdicts replaced
   by an instance.
3. `Summary`: the review queue, once violations carry their score.
