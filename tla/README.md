# TLA+ models of the ALU, its testbenches and the documentation's scripts

The repository holds an 8-bit ALU in SystemVerilog (`src/code/dut`) and a
sequence of testbenches for it: plain modules (`src/code/non_oop_tb`) and, chapter
by chapter, UVM benches (`src/code/oop_tb`, `Ch.10` to `Ch.23`). It also
vendors the UVM 1.1d library (`src/code/uvm-1.1d`, most of the repository's files)
with its HTML documentation, whose scripts (`docs/html/javascript/main.js`,
`searchdata.js`) are a small event-driven program.

The hardware is small; what is hard is the *protocol* between the ALU, whose
`done` is a pipeline of flip-flops behind a multiplexer, and benches made of
processes that wake at the same clock edge in no particular order. The scripts
are hard in their way: handlers, timers and pages that arrive whenever they do,
held together by a few remembered values. These modules model both, model-check
them, and prove the central parts for every value of the constants.

## 1. Inventory

### Hardware (`src/code/dut`)

| Component | State | Operations | What makes it correct |
|---|---|---|---|
| `CLA4b`, `CLA8b`, `CLA16b` | none (gates) | addition with carry in; group generate and propagate | the sum is `+`, for every operand and carry |
| `Multiplier8b` | `mul_A0..7`, `sum_reg_bit*`, four `done` flip-flops | one clock edge: sample `A`, `B`, `start`, `opcode`, `rst_n` | a request held for four edges gets its own product exactly at `done`; nothing of an earlier request remains |
| `ALU` | the multiplier's and `single_cycle_done` | the same edge; multiplexers on `opcode` | `done` is that of the operation on the pins, never of one already over |

### Benches

| Component | State | Operations | Hard behaviours |
|---|---|---|---|
| `CLA8b_tb`, `CLA16b_tb` | loop indices, counters | drive a pair, compare | is every pair driven; what does the bench *not* drive |
| `ALU_tb` | pins, one tester process, one scoreboard process | issue an operation, wait for `done`, compare | level-sensitive `wait(done)` on a `done` still up; the delta cycle of `assign op = op_set`; `#1` after `posedge done` |
| Ch. 23 `ALU_BFM` (interface) | pins, clock, `new_command` | `send_op`; three `always` blocks that call the monitors | all of them wake at the same posedge as the ALU; `rst_n` falls at the edge it is sampled at; the output argument of a reset |
| Ch. 23 `scoreboard`, monitors | an unbounded FIFO of commands | `write` of a command, `write` of a result | a result before its command (`uvm_fatal`) or against another command (`uvm_error`) |
| Ch. 23 `driver`, `sequencer`, sequences, tests | queue of requests, items, Fibonacci's `n1`, `n2`, the test's objection | `start_item`, `finish_item`, `get_next_item`, `item_done`, `drop_objection` | two sequences share the driver; the test ends while the last result is on its way |
| Ch. 21, 18, 16 benches | a FIFO of depth 1 between tester and driver | `put`, `get`, `#500` | the drain time at the end of the test |
| Ch. 10 to 13, `ALU_tb_separate_modules` | as `ALU_tb`, with `send_op` | `op_set` assigned before the clock edge, the other pins after it | the opcode switches while `done` of the last operation is up; the scoreboard reads pins that have moved on |
| multiplier benches | | | four-state values: an unconnected opcode, a clock tied to 0 |
| coverage collectors | covergroups | sample | none of their own: they only read |

### Scripts of the documentation (`src/code/uvm-1.1d/docs/html`)

| Component | State | Operations | Hard behaviours |
|---|---|---|---|
| search panel (`SearchPanel`) | focus, text, select, two timer handles, `lastSearchValue`, `lastResultsPage`, the results frame | focus and blur, key up, change of the select, close, both timers, the arrival of a page | a search that overtakes the page being loaded; a deactivation under the visitor's hands; a text that is taken for one already searched; Internet Explorer's rows that cannot be shown again |
| search index and results (`searchdata.js`, `SearchResults`) | rows and their display, `lastMatchCount` | choose a page, `Search`, `Toggle` | a table and files generated apart; an encoding of names compared by prefix; a walk through the document by hand |
| tooltips (`ShowTip`, `ReallyShowTip`, `HideTip`) | the timer's handle, visible tips | over, out, the timer | a tip that comes up after the mouse has gone; the two borders of the page |
| menu (`ToggleMenu`, `HideAllBut`) | display of the groups | toggle, hide all but some | only the first id is compared with the counter |
| blockquotes (`NDOnLoad`, `NDOnResize`, `NDDoResize`) | user agent, widths, the resize timer | load, resize, the timer | browsers that bear other browsers' names; a parent that is as wide as what it holds |

### Interaction

A test raises an objection and starts sequences. A sequence asks the sequencer
for a grant, fills its item and waits; the driver gets the item and calls
`send_op`, which drives the pins at a negedge and looks for `done` at later
negedges. At each posedge the command monitor may write the command on the pins,
the result monitor a result, and the ALU samples the pins; the negedge of
`rst_n` wakes a third block. Commands go into the scoreboard's FIFO, results
take them out. When the sequences have ended the objection is dropped and the
simulation stops at once.

The scripts run one handler or timer callback at a time, but in any order: the
visitor's events, timers that are due and pages that arrive. The panel lives in the
menu's document and works on another one, the frame's: it decides by
`lastResultsPage` whether that document is the right one, and calls its object
`searchResults` if there is one. A page of content shares its window between
tooltips and blockquotes; the other documents share nothing.

`PROJECT.json` lists every component with its status, and every hazard at its line.

## 2. Modules

| Module | Models | How it corresponds |
|---|---|---|
| `Bits` | wires and buses | a bus is a function to `{0, 1}` at gate level and the number it denotes at register level; `Val8`, `ToWord` convert |
| `CarryLookahead` | `CLA4b.sv`, `CLA8b.sv`, `CLA16b.sv` | one operator per named wire: `Generate`, `Propagate`, `CarryInto`, `GroupGenerate`, `GroupPropagate`, `GroupCarry`, `NibbleSum` |
| `CLA_tb`, `MC_CLA*` | the two adder benches | one action per inner iteration; the adder under test and the bench's `+` are constants |
| `Multiplier8b` | `Multiplier8b.sv` | one operator per `always_ff` block, `PosedgeClk` all of them |
| `MulPipeline` | what the multiplier promises | products in flight, requests by their age; `Multiplier8b` implements it |
| `MultiplierRequests` | `Multiplier8b` with the last four inputs recorded | relates `done` and `result` to the request they answer |
| `ALU_pkg` | `operation_t`, `predict_result` | |
| `ALU` | `ALU.sv` | the multiplier as an instance, the single-cycle flip-flop, the multiplexers; no `Spec` of its own, its inputs come from the benches |
| `ALU_BFM` | Ch. 23 below the sequencer, around the ALU | see below |
| `AluService` | what that bench promises: items one at a time, each operation seen once, answered with its result, checked before the next is seen | `ALU_BFM` implements it |
| `SeqTest`, `MC_SeqTest` | Ch. 23 above the driver, on top of `AluService` | the tests' plans, sequences, arbitration, objection |
| `DoneBench` | what the benches with a scoreboard on `posedge done` share: the ALU, the clock, the scoreboard, the first reset | see below |
| `ALU_tb` | the rounds of `ALU_tb.sv` | see below |
| `SendOp` | the rounds of `ALU_tb_separate_modules` and of chapters 10 to 13: `send_op` of their interface | one action from each wait of the task to the next |
| `DoneBenches` | both over `DoneBench` | `bench` says which; the same properties are asked of both |
| `SearchIndex` | `searchdata.js` and the choice of a page in `SearchPanel.Search` | the table as sets of sections; `PageExtension`, `ResultsPage` |
| `SearchPanel`, `MC_SearchPanel` | class `SearchPanel` | one action per handler and timer, see below |
| `SearchResults` | class `SearchResults`, `Search`, over the generated pages | `Encode` is the chain of replacements, character by character (`Code`), `Found` the comparison by prefix |
| `ResultsToggle` | `SearchResults.Toggle` | one action per round of its loop, on any document of `N` elements |
| `Window`, `Tooltips` | the window's width; `ShowTip`, `ReallyShowTip`, `HideTip` | `tips` are the calls the browser is to make, `tooltipTimer` the handle |
| `Scrollboxes` | browser detection, `NDOnLoad`, `NDOnResize`, `NDDoResize` | both loops of `NDDoResize` at once; `OffsetWidth` is the browser's layout |
| `Menu` | `ToggleMenu`, `HideAllBut` | one action per round of its loop |
| `Documents`, `MC_Documents` | the documents with these scripts | `watched` is the document in which something happens, see below |
| `*_proofs` | | the inductive invariants and the proofs, see section 5 |

**Time.** `ALU_BFM` and `DoneBench` do not count nanoseconds. Time is the sequence
of instants at which something happens: the clock's edges and the instants one
nanosecond later that a `#1` waits for (`slot`). At an instant the processes that
wait for it are in `todo` and run one at a time in any order: the order in which a
simulator runs them is not defined. The ALU's nonblocking assignments come
last. In `ALU_BFM` the driver pulls `rst_n` by a blocking assignment at a
posedge, so each of the ALU's five blocks may have sampled it before or
after: `ClockALU` chooses for each block, and so it does in `DoneBench` for the
`send_op` of chapter 10. In `DoneBench`, `opcode` follows `op_set` by
a step of its own (`AssignOp`), and a `wait(done)` may be evaluated before or
after it.

**`ALU_BFM` in the code's terms.** `pc` is the wait at which `send_op` stands
(`OpWait` is the first `@(negedge clk)`, `DoneWait` the do-while, ...); each
driver action is the code from one wait to the next. `CommandMonitor`,
`ResetMonitor` and `ResultMonitor` are the three `always` blocks with the monitor
and the scoreboard's `write` they call. `cmd_fifo` and `verdict` are the
scoreboard. `GetItem` is `get_next_item`; it happens at the instant of the last
`item_done` or any time later except in the middle of a posedge (a sequence never
wakes there: it waits for the driver only). `FirstIsReset` is what the sequences
provide; `SeqTest` checks that they do (`FirstItemIsReset`).

**`SeqTest` in the code's terms.** `at` is where a sequence stands; `arb_sequence_q`
is the sequencer's queue; `serving` the item the driver has. `Bench` lets the
service work, and only when no process of zero duration can run: a
sequence goes on before the sequencer looks for a request
(`wait_for_sequences`), and the objection is dropped before the clock moves.

**The `done` benches in the code's terms.** A round begins at the wait `RoundBegins`.
In `ALU_tb`, `Issue` is the code from the `@(negedge clk)` of a round to the wait of
its `case` branch, or through it when `wait(done)` is over at once. In `SendOp`,
`Call` is the call up to the first wait of the task, at the instant at which the last
call returned; the operands are chosen when they are driven, which is when anyone
first sees them. `Compare` is the scoreboard after its `#1`. `fate` and `compared`
are history variables: how the last round ended, and how often the scoreboard has
compared since `op_set` was assigned. The first operations that chapter 10 directs
(`rst_op`, two `mul_op`, `rst_op`) are among the random ones.

**`SearchPanel` in the code's terms.** The panel of the repository is made by
`new SearchPanel("searchPanel", "FramedHTML", "search")` in `menu.html`; the class also
has a mode with a popup window, and `Setting` chooses. A control's loss of the focus and
the next one's gain are separate events, and a timer may fire at any moment after it
was set: the delay of the deactivation is not what was meant anyway, as `main.js:645`
uses `inactivateTimeoutLength` and `main.js:399` sets `deactivateTimeoutLength`.
`keyTimers` and `inactivateTimers` are the timers the browser holds, `keyTimeout` and
`inactivateTimeout` the handles. The frame is a page, its query, whether its scripts
have run, and the text its rows were last filtered by; `loading` is the page asked
for, and the old document stays, scripts and all, until that one arrives. `escape`
and `unescape` are inverse to each other, so a query is the text itself. `overtaken`
is a history variable.

**`Documents` in the code's terms.** The menu, a page of content, a page of results and
the files of a result are documents of their own and share no variable, except that a
page of content has both tooltips and blockquotes in one window. An interleaving of two
of them shows nothing that each does not show alone, so a behaviour keeps to one
(`watched`). Rows, their ids, the pages and the `ids` given to `HideAllBut` come from the
generator, Natural Docs: `MC_Documents` has a name for every file of
`docs/html/search`, so that `FindsWhatThereIs` compares the table of `searchdata.js` with
the files.

## 3. Runs

| Run | Question | Bounds |
|---|---|---|
| `cla8b_tb` | does the 8-bit adder agree with `+` on everything the bench drives, and does the bench drive all | none: the bench to its end, 65536 pairs |
| `cla16b_tb` | the same of the 16-bit adder, as far as its bench goes | the bench's own: operands below 512. `CLA16bCorrect` proves the rest |
| `cla4b_group_generate` (violation) | is `GG` "High if any bit will generate a carry", as its comment says | all operands of 4 bits |
| `multiplier` | does the register-level multiplier implement `MulPipeline` under arbitrary inputs and resets | `Operand = {0, 3, 171, 255}`: zero, the largest product, and mixed bit patterns, which fill every pipeline stage with different products; `Opcode = {1, 4}`: one that requests and one that does not, as the multiplier looks at nothing else. `RefinesPipeline` proves it for all bytes |
| `multiplier_requests` | what do `done` and `result` say about the request four edges back | two operands suffice to tell "the same operands" from "others" |
| `multiplier_pulse` (violation) | is the product of a one-cycle request there when `done` is | the same |
| `alu_bfm` | is the bench right about a right ALU, in every order of its processes; does every wait end | `Operand = {3, 255}`: a small and a large one, with all results distinct where it matters and products above 32767; `FifoBound = 2`: no_op and rst_op items are held back while two commands lie in the scoreboard's FIFO, enough for the one real command to have others before and behind it. All phases of section 5 are met |
| `seq_test` | Fibonacci, turns, results, the end of the test | `RandomItems = 3` for 5000: random items come before, between and after Fibonacci's, and the random sequence ends first; `Operand = {3, 255}` |
| `alu_tb` | which operations do the `done` benches lose, and is what they compare right | `Repeats = 5` for 1000: a state of ALU and bench repeats after two rounds, the longest memory being the flags of one operation; `Operand = {3, 255}`; `CompareBound = 2` tells "once" from "more than once" |
| `search_panel` | does the panel keep its fields, its timers and the frame in step | texts that differ by a space in front or between, the empty one and the panel's own "Search"; two search types, one with and one without a page for "Search"; two timers of a kind, so that one may outlive its handle; the framed panel and the popup in Internet Explorer |
| `search_panel_stale` (violation) | is a search repeated on the right page, as the comments say | the same texts, the framed panel, one timer of a kind |
| `documents` | do the other scripts do what they are for, and come to rest | four groups and every set of ids; all documents of five elements, where a walk goes down, along and up two levels; four links and three widths, with a tip that fits nowhere; seven user agents, some of them borrowed names; every type and section of the table, every first character, texts and names that share beginnings or look like codes |

What they show:

* The benches compare correctly: no order of processes, and no outcome of
  the reset race, makes the scoreboard blame a right ALU (`NeverBlamesTheALU`,
  `NoFalseError`), a result always finds its own command (`OneCommandInFlight`) and
  `send_op` returns its own operation's result (`ReturnsTheResult`,
  `SwitchesOnlyWhenIdle`).
* `send_op` of chapters 10 to 13 switches the opcode while `done` of the last operation
  is still up, yet loses nothing: `done` rises at the clock only
  (`DoneRisesAtTheClock`), every answer is compared exactly once
  (`EveryAnswerIsCompared`), and the caller gets its own result
  (`SendOpReturnsItsResult`). The missing `begin` and `end` in chapter 10's scoreboard,
  which make it compare no_op and reset as well, never bite (`NoFalseError`).
* `ALU_tb` loses operations: one issued right after an answered one
  sees the old `done` and is over before a clock edge. It never loses two in a row
  (`NeverTwoSkipped`).
* The three tests of chapter 23 end, and lose the check of at most the last
  operation (`OnlyTheLastIsLost`). The committed `simulation.log` shows it: its
  last `add_op`, monitored at 129475, is not scored.
* The search panel is active under the visitor's hands (`FocusedPanelStaysActive`), forgets
  no text (`NoTextIsForgotten`), never filters an emptied page again in Internet Explorer
  (`NeverReusesAnEmptyPage`), resets when it is left (`LeftPanelIsReset`), and what is in
  the frame follows the last search (`FrameFollowsLastSearch`) but for one case, the
  violation run: a search that finds `lastResultsPage` right while that page is still
  loading filters the old document, and is lost.
* A search shows exactly what begins with the text, for every type and section
  (`FindsWhatThereIs`); `Toggle` turns exactly the indexes below its element
  (`TurnsWhatIsBelow`); tips, menus and blockquotes are as they should be in every order
  of events (`OnlyTheHoveredTip`, `ComesUpOnThePage`, `HidesTheOthers`,
  `SettledBoxesFit`) and the scripts come to rest (`ComesToRest`).
* Two comments of the hardware do not say what it does (the violation runs): `GG`,
  and "done when finish multiplying" for a request that is not held.

## 4. Fairness

`ALU_BFM`: `WF_vars(Simulate)`, every step but `GetItem`: a simulator always runs the
next process or advances time, and nothing obliges a sequence to send another
item. `SeqTest` and `DoneBenches`: `WF_vars(Next)`, since a test and an initial block go
on until they stop. No process is assumed to be favoured: the runs are finite
or their instants are, so nothing can be put off for ever by others. The adder
benches are the same. `SearchPanel` assumes that a deactivation that is due happens
(`WF` of `InactivateTimer`), `Documents` that a loop that runs goes on, a timer that is set
fires and a page that is loaded says so: a browser does all of this by itself. Nothing is
assumed of the visitor. `MulPipeline` and `Multiplier8b` need none: only safety is
stated of them. `AluService` assumes `WF` of its `Work`, which is what
`ALU_BFM` is shown to provide.

## 5. Proofs

All proofs are checked by TLAPS down to the last leaf, from the modules' named
assumptions: operands are bytes (`MulAssumption`, `BFMAssumption`, ...).

* `ALU_proofs`, first part: the gates compute addition. `CLA8bCorrect` and `CLA16bCorrect`
  hold for every operand and carry in; the argument is per nibble, one `CLA4b` adding
  two base-16 digits, then the lookahead carries between the nibbles.
  `CLA16bIsAdd16` lets the models above use `(x + y) % 65536` for the gates.
  Second part: the lemmas about the ALU that a bench needs. Its registers keep their
  types, `result` is the prediction for single-cycle operations and the oldest
  product in the pipeline for `mul_op`, and what an edge does to the flags.
* `CLA_tb_proofs`: the loops of the adder benches drive every pair below any bound, none
  twice (`BenchDrivesEveryPair`), and count no mismatch of an adder that agrees with the
  expected sum (`BenchCountsNone`); `CLA8bIsSum` and `CLA16bCorrect` say that of the gates.
* `Multiplier8b_proofs`: `MulTypeCorrect` (no intermediate sum leaves 16 bits) and
  `RefinesPipeline`: the eight partial products sum to `A * B`, each level of
  registers holds the product sampled so many edges ago, and the four flags are the
  ages of the requests in flight. On top of it the two properties of
  `MultiplierRequests`, for all bytes and any resets: `AnswersAreToHeldRequests` and
  `HeldRequestsAreAnswered`.
* `ALU_BFM_proofs`: for every set of byte operands and every `FifoBound`, the invariants
  of the run `alu_bfm` and `SwitchesOnlyWhenIdle`; and `BenchImplementsService`: every
  step of the bench is a step of `AluService` or none, which is the safety part of the
  property `ImplementsService` of that run.
* `SeqTest_proofs`: for every `RandomItems` and all byte operands, the properties of the
  run `seq_test` but `TestEnds`: the results reach their sequences, Fibonacci computes its
  numbers, two sequences take turns, at most the last operation is lost, and the first
  item is a reset.
* `DoneBenches_proofs`: for all byte operands and any number of rounds, the properties of
  the run `alu_tb` but `TesterStops`: the scoreboards blame no right ALU, an answer is
  compared once, `send_op` returns its own result, `ALU_tb` never skips two operations in
  a row, and `done` rises at the clock only.
* `SearchPanel_proofs`: `PanelTypes`, `PanelStaysActive`, `PanelFollowsLastSearch`,
  `PanelNeverReusesAnEmptyPage` and `PanelForgetsNoText`, for any texts, search types,
  settings and number of timers.
* `Documents_proofs`: `MenuHidesTheOthers`, `TipsFollowTheMouse`, `TipsComeUpOnThePage`,
  `BoxesFit` and `ToggleTurnsWhatIsBelow`, for menus of any length, any links and offsets,
  any boxes and documents of any size; `EncodingKeepsBeginnings`, for any two texts; and
  `SearchesFindWhatThereIs`, for any names and any texts searched for.

The type invariants of `CLA_tb`, `ALU_BFM`, `SearchPanel` and `DoneBenches` are proved and
not part of a run.

**The inductive invariant of the bench.** "The scoreboard reports no error" is far
from inductive: it depends on which flip-flops are up, what the FIFO holds, and where
`send_op` is. `BenchInv` says that an operation goes through four phases:

1. `Quiet`: no flag is up, the scoreboard waits for nothing.
2. `Driven`: the operation is on the pins, `new_command` is set, and the posedge at
   which the monitor writes it is still to come.
3. `Working`: the FIFO holds exactly this operation; `done` may have come up, but
   then the driver looks before the next posedge. A product in the pipeline is one
   stage ahead of its flag.
4. `Answered`: the driver has dropped `start`; `result` is the prediction; the coming
   posedge shows it to the result monitor and then clears the flag.

To these come the schedule (who can be in `todo` at which instant), the resets (none
while an operation is under way), the item (it fits the driver's place) and
`Rearmed` (`start` low for one posedge sets `new_command`). There is one lemma per
action; `FlagsFall` and `WorkingEdge` carry the hardware's part, whatever each block
samples of `rst_n`. `BenchImplementsService` reads the service's state off these
phases: an item is accepted while the driver is not `Ready`, seen once `new_command` has
fallen and the driver stands at the do-while, and what lies unscored in the FIFO is unchecked.
The monitors take the service's steps `See` and `Check`, the driver `Accept`, `Answer` and `Skip`.

**The requests.** `MultiplierRequests` records the last four inputs. `RequestInv` relates
them to the registers: `StagesHoldThePast`, each stage of the data pipeline holds the
product of the operands of its edge and each flag that is up a request of its edge; and
`HeldRequestsFill`, a request made of an idle multiplier and held has filled the stages up
to its age and no more.

**The `done` benches.** `DoneInv` names the phases again, which differ from those of chapter
23 since the opcode may switch while `done` is up. `Issued`: `ALU_tb` waits for `done` of
an operation no edge has seen yet, so a flag that is still up must not count for it.
`Working`: the ALU is at it; when `done` comes up the scoreboard wakes at that edge and
the tester before the next one. `Answered`: the tester has seen it, `result` is the
prediction. `Fading`: the next round has begun, the flags of the last operation fall at the
next edge, and `done`, a function of flags and opcode, may fall earlier but not rise
again. With `Schedule` (who runs at which instant) and `Pins` (when `start` and `rst_n` are
high) it is inductive, and each property is read off a phase.

**The sequences.** `SeqInv` has one part per concern: `PlanIsKept` (which sequences of
the plan run), `LoopIsKept` (an item under way is one more of the loop), `TurnIsKept` (the
driver has the item of the one granted; all others that run ask), `OrderIsKept` (the one
ahead in the queue has sent as many items as the other, or one less), `ItemIsKept` (the
bench works on the item of the sequence that waits) and `NumbersAreKept` (`n1` and `n2`
between two rounds of Fibonacci). The recurrence is a recursive function; the
proof unfolds it for the 14 numbers there are (`FibValues`).

**The panel.** `FocusedPanelStaysActive` needs what the handle means: `HandlesArePending`, a
handle that is set stands for a pending timer, and `OneDeactivation`, in the framed
panel every pending deactivation has the handle, so the `clearTimeout` of the next focus
leaves none behind. `FrameFollowsLastSearch` needs two more: `FrameAtLastPage`, the page
`lastResultsPage` names is in the frame or asked for, unless a link led elsewhere, and
`FrameHasLastValue`, which says the same of the text on the two ways it takes, in the
query of a page under way and in the filter of the page there, unless `overtaken`. Only
`Search`, the two arrivals, the reset and `FollowLink` touch them. `NoTextIsForgotten` is
about the visitor's field when the panel is in use; inductive is `TextIsKnown`, which adds
that a field nobody uses may hold "Search", and `ResultsInSight`, that the popup is up while
`lastSearchValue` is something. The panel compares texts without spaces but remembers them
without leading ones only; `SpacesDoNotCount` says that this makes no difference.

**The documents.** `HidesTheOthers` is inductive with its types: what is left of `ids` is
what was to be kept from the counter on, so comparing the first one suffices. For
the tips, that the handle stands for the one timer there is (`HandleIsExact`) is part
of the property. `BoxInv` adds to the boxes' property that the resize timer and its
handle agree and that `window.onresize` is set in Internet Explorer 6 only;
`OtherBrowsers` follows the questions of the browser detection in their order.

**The walk.** `Toggle` has neither stack nor mark: what it has done shows in where it is.
`Precedes` is document order, stated by ancestors and siblings, and `Passed` what comes
before the walk's element. `WalkInv`: the element is one of those to be reached, and the
indexes among the passed ones, and no others, are turned. The step is `FollowingOrder`:
the next element by `firstChild`, `nextSibling` and `parentNode` is the next one in
document order among those to be reached, or the end. It splits as the loop does: down to
the first child (`DownOrder`), on to the next sibling, of an ancestor if need be
(`AcrossOrder`), and back when none remains (`NothingRemains`); below a dead end, an
element that is no DIV, nothing is to be reached (`NothingBelowDeadEnd`).

**The results.** A row is found by comparing prefixes of encodings, so the encoding has to be
a prefix code. `CodesApart` says why it is one: a code is an underscore and three letters
that only one character has, and everything else stands for itself, but the underscore has a
code too; so two codes that begin alike are of one length, and if they agree they are one.
`PrefixCode` makes that a statement about texts, by induction on how far two texts agree:
where they differ first, their encodings do. The replacement of `/ +/` spoils it a little, as
it takes a run of spaces for one; `EncodeSqueezed` says that this is all it does: the
encoding of a text is that of the text with its runs squeezed. Together they are
`EncodingKeepsBeginnings`. Small letters can be taken before or after encoding
(`LowerEncode`), which the code does for the text and for the id respectively, and what
follows `sr` and its number in an id is the encoded name (`RowNames`). A text and a name that
begins with it are of one section (`SectionOfFirst`), so no other page has to be looked
at. That the page is there is data: `ResultsAssumption` says that the table has, for each type,
the sections of the entries of that type, that names do not begin or end with a space and
that texts are made of letters, digits and characters with a code. TLC evaluates it for the
table of `searchdata.js` and a name for every file of `docs/html/search`.

**Induction.** The library's induction theorems cannot be used, but the well-foundedness of
`<` can: `LeastNat` takes the least element of a set, and `Reaches` makes it induction, the
property being a set of numbers. That is how what recursive functions compute is proved
here (`SpacesOut`, `Below`, `PositionAfter`, and what `FlattenSeq` joins).

TLC has checked the inductive invariants on the bounds of the runs, before they were proved:
`BenchInv` in the run `alu_bfm` itself, `DoneInv`, `SeqInv`, `RequestInv` and `WalkInv`, which stand
in the modules of the proofs, by adding them to the `INVARIANTS` of the run of their model, in
a module that extends both. They are where to look first when a change of the code breaks
a proof.

Every safety and action property of the runs is a theorem. Only model-checked are those
under fairness (`EveryItemIsDone`, `EveryCommandIsScored`,
`TestEnds`, `TesterStops`, `LeftPanelIsReset`, `ComesToRest`, and that `ALU_BFM` grants
`AluService` the fairness of its `Work`: liveness and `ENABLED` are beyond the prover), and
that the files of the documentation are as `ResultsAssumption` says.

## 6. Abstractions and what is not modelled

* Registers start at 0; the simulator starts them at X. The first reset of every
  bench precedes the first use, but a bench without one would see X where the model
  sees 0. Four-state values would be needed for the two multiplier benches.
* Random distributions: any choice may happen; weights are left out.
* Printing, `uvm_info`, the factory, the configuration database, copying and
  comparison of transactions, build and connect phases.
* The task `reset_alu` of the chapter 23 interface, which nothing there calls.
* Of UVM: the sequencer's FIFO arbitration and the handshake of `get_next_item` and
  `item_done` (`m_select_sequence`, `wait_for_sequences`), an analysis FIFO as a
  sequence, an objection as a flag. Locks, priorities, responses and phases are not
  used by the benches.
* Coverage: covergroups only read.
* Chapters 16 to 21 as far as they differ from chapter 23: the task `reset_alu` before the
  first `send_op` (16), the tester's FIFO of depth 1 (18, 21), and the 500 ns before the
  objection is dropped. Whether these are enough is a count of clock periods, 50
  against at most two operations of a few each, which the models, having no clock to
  count by, do not ask.
* `CLA16b_tb` drives operands below 512 only; what its run leaves out is proved.
* The scoreboard's FIFO of chapter 23 is unbounded, and nothing says how long it may get.
* Scripts: positions on the screen, except a tip's horizontal one; the codes of the double
  quote and the backtick (the tilde stands for the backtick in
  `MC_Documents`) and the last replacement of the encoding; `ids` with doubles. The searched
  texts of `SearchResults` have something other than spaces, as the panel sees to it. The
  markup of the generated pages is no program.

## 7. Plan

What is left is the drain time of chapters 16 to 21: whether 500 ns are enough for the last
operation. It needs a model that counts clock periods.
