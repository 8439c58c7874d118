# Vutu in TLA+

Vutu (`src/source/common`, `src/source/widgets`) analyses a sound file into partials with the
Loris library, edits and stores the partials, synthesizes audio from them and plays both sounds.
This directory models the program's actors, the data they share and the audio thread that plays
it; TLC checks the models on small instances and TLAPS proves theorems about them for every value
of the constants.

## 1. The system

| Part | State | Operations | Talks to |
|---|---|---|---|
| Controller, `vutuController.cpp` | source sample, partials (Vutu's and Loris's form), synthesized sample, parameters, paths | `set_param`, `set_prop`, `do/open`, `analyze`, `synthesize`, `import`, `export`, `export_synth`, `toggle_play_*`, `playback_*` | sends pointers to its data, parameters, enable states and texts to view and processor |
| Processor, `vutuProcessor.cpp` | `playbackState`, `playbackSampleIdx`, a resampled copy of the source, a pointer to the controller's synthesized sample, parameters | `set_param`, `set_source_data`, `set_synth_data`, `toggle_play` on the main thread; `processVector()` on the audio thread | tells the controller that playback started or stopped, and the time |
| View, `vutuView.cpp` | parameters, the properties and pointers of its widgets | `set_param`, `do/set_*_data`, other `do`, `widget/*/set_prop/*` | forwards the user's parameter changes and commands to the controller |
| Application, `vutu.cpp` | the SDL loop | start-up broadcasts, key "o", shutdown | starts and stops the others |
| Partials, `vutuPartials.h` | arrays of time, amplitude, frequency, bandwidth and phase; statistics | `cutHighs`, `cleanOutliers`, `calcStats`, frame look-ups, JSON and binary forms | used by controller and partials display |
| Sample display, `sampleDisplay.cpp` | pointer to a sample, the end of the interval being dragged, a picture in a layer | drag, paint | sends `set_param/analysis_interval` to the view |
| Partials display, `vutuPartialsDisplay.cpp` | pointer to partials, a picture in a layer, redraw timer | resize, redraw, paint | reads the controller's partials |
| Parameter list, `vutuParameters.h` | descriptions | projection of normalized values | all actors |
| madronalib, mlvg, Loris, libsndfile, libresample, SDL, RtAudio | | | external |

How they run. Controller, processor and view are `ml::Actor`s. A timer empties each actor's queue;
handlers of all three, and the GUI, run on the main thread, one at a time and to completion.
`processVector()` is called by the audio device on its own thread. The actors share memory as well as messages: view and processor hold raw pointers into the controller's data.

What is hard about it:

- three copies of each parameter and of what data there is, kept alike only by messages that cross;
- the view's pointer to partials that the controller frees, the processor's copy of a source that
  the controller replaces, the synthesized sample that the controller rewrites while it is played;
- commands that fail half way (a short file, a file that is no sound, no partials found);
- playback that starts, stops and ends on two threads, with the buttons' texts following by messages;
- arithmetic on frames in `size_t`, and the last vector of a sample;
- statistics and look-ups at ties and boundaries: partials that touch, breakpoints that are hit exactly;
- what is written in two file formats and read again, key by key;
- a display that is dragged and deaf while values for it arrive, pictures that go stale.

What makes it correct: replicas that agree once their messages have been handled; partials,
source and synthesized audio that belong together; vectors read from inside their sample, as far as the
two threads let them; playback that ends; buttons that tell what plays and what can be done; statistics and frames that are those of the
data; files that give back what was stored; displays that come to show the present data and interval. `PROJECT.json` lists each hazard at
its line with the properties that cover it, or why none does yet.

## 2. The modules

| Module | Models |
|---|---|
| `VutuActors` | mailboxes, messages, the two samples of the controller, parameters, frame arithmetic |
| `VutuController` | `VutuController::onMessage`, one action per message (`CtlOpen`, `CtlAnalyze`, ...) |
| `VutuProcessor` | `VutuProcessor::onMessage` (`Proc...`) and `processVector()` (`Vector...`) |
| `VutuView` | `VutuView::onMessage` (`View...`) and what the user does in widgets (`Click`, `Turn`) |
| `VutuApp` | their composition with the user, start-up, fairness, and the properties of the whole |
| `VutuPlayback` | the three things that can make playback read outside its sample, and the inductive invariant without them |
| `Transport` | abstract: what playback promises to whoever presses the play buttons |
| `VutuTransport` | the refinement mapping from `VutuApp` to `Transport` |
| `VutuWidgets` | `VutuApp` with its displays: the drag of the interval, layers, the redraw timer, painting |
| `PartialsData` | `vutuPartials.h` by itself: making, cutting, cleaning, statistics, look-ups, files |
| `VutuAppProofs` | types and fitting data of `VutuApp` |
| `VutuReplicaProofs` | what mailboxes bring, and that the replicas of `VutuApp` come to be current; extends `VutuAppProofs` |
| `VutuPlaybackProofs` | `VutuPlayback`: no read outside a sample; extends `VutuAppProofs` |
| `TransportProofs`, `VutuTransportProofs` | the play buttons, of `Transport` and of the program; the second extends `VutuReplicaProofs` |
| `VutuWidgetsProofs` | `VutuWidgets`: intervals and pictures; extends `VutuReplicaProofs` |
| `PartialsDataProofs` | all the invariants of `PartialsData` |
| `MCVutuData`, `MCVutuPlay`, `MCVutuWidgets`, `MCPartialsData` | values for TLC; the second and third start from a loaded program |

`VutuActors` is extended by controller, processor and view, these by `VutuApp`, and that by `VutuPlayback`,
`VutuTransport` and `VutuWidgets`. `PartialsData` stands alone: partials are data that one actor works on at a time.

Conventions of the models:

- A variable has the name of the member it stands for where there is one; `map` in
  `PROJECT.json` gives the lines of every definition.
- *Messages* are records whose `type` is the address. Mailboxes are sequences, so messages of one
  sender arrive in order. The capacity of an `ml::Actor` queue is not modelled.
- *Parameters*: `analysis_interval`, which the code also resets by itself, and `fundamental`, which an
  import sets, stand for all of them; every other one is stored and broadcast alike. A value is a
  tuple, an interval has its bounds in multiples of `1/Den`. `broadcastParam()` belongs to the external
  `AppController`; from `vutuView.cpp:393` it follows that it marks what it sends to the view with
  `kMsgFromController`.
- *Audio* is left out. A sample is a content name, a length in frames and a rate; partials are an
  object name, whether there are any, what they were made from, and a duration (as a ratio of frames
  and rate). Content and object names are never reused, so that a freed object can be told from the
  one that replaces it.
- *Outcomes* of dialogs, files and Loris are chosen nondeterministically from constants
  (`LoadOutcomes`, `ImportOutcomes`) or in the action: an analysis may find no partials, or lose all of
  them to `cutHighs()`, a synthesis may render nothing.
- *Threads*. With `Preemptive = FALSE` `processVector()` runs between handlers; with `TRUE` it is
  interleaved with them, cut where it has read `playbackState`, loaded a vector, tested for the end and
  stopped, and `togglePlaybackState()` is up to three actions: it sets `playbackState` to "off"
  (`ProcToggle`), to the sample asked for (`ProcToggleSet`), then `playbackSampleIdx` (`ProcToggleStart`); `toggling`
  and `arming` say what it has still to do. Nothing in the code makes `FALSE` hold on a multi-core machine. The runs
  `play` and `preempted` and the theorems about playback and buttons have `TRUE` or any value; `FALSE`, the
  schedule that tests see, is left to the runs about data, replicas, refinement and liveness.
- *Crash*: `alive` becomes `FALSE` and nothing runs any more.
- Mutants (marked in a comment, used by no action) are plausible wrong versions of the definition
  that follows them; each property is violated by at least one.

The abstract `Transport` has four variables: what plays, the requests not yet answered, for each sound the
reports that its button has not yet shown, and what the buttons show. Requests are answered in order, by a
start, a refusal or a stop; a sound may stop by itself; each start and stop is reported to the buttons. The
mapping in `VutuTransport`:

- `playing` is `playbackState`, except that a start counts once `togglePlaybackState()` has told the
  controller (`arming`);
- `requests` are the toggles in the mailboxes of processor, controller and view, in this order, with the
  one being carried out first;
- `reports` are kept per button: what passes through the controller becomes one text message per button
  (`playback_stopped` two), and the view handles them singly;
- `shown` is the property "text" of the buttons.

A request to play the other sound is a `StopOnRequest` in the code that answers nothing by itself: it maps to a
`Stop`, then a `Start`. Each other step of the program maps to a step of `Transport` or to none.

`PartialsData` cuts `calcStats()` at every step of its walk along the starts and ends of partials, because
`std::sort` compares times only and leaves ties in an unspecified order. Floats are naturals in units of the
smallest positive float, 0 among them (the code's ranges are sought from `max()` and `min()`). One parameter,
`hiCut`, stands for the seven that are stored alike. A file is a record with the keys that its format has;
writers and readers name them separately, as in the code ("bw" for the bandwidth), and what is not found is read as
empty or zero. `found` and `written` are history variables: what the
analysis returned, what was saved.

`VutuWidgets` adds to each step of the view what the widgets do with it. That widgets take no values while
`engaged` is external (`ml::Widget`), inferred from `engaged` being set for the length of a drag and the value
being sent once more at its end. A layer's content is what it was painted from: the pointer, or the sample.
A bracket has a fixed width in the window's grid, so that what it takes of the interval depends on the window's
width at the moment of the drag: `Gap` is a function of the size of the window, which `Layout` changes.

Bounds, all of them in guards of the user or of the audio thread: `MaxInputs` (commands and
parameter changes given), `MaxBacklog` (messages still unhandled when the user acts: 0 lets each
command finish first, 99 does not restrict at all), `MaxReports` (playback times that the main thread has
not handled), `MaxFrames` (the index saturates there; only a playback that has run off its sample gets
so far).

## 3. Model checking

An audio vector has 2 frames, an interval bound is a multiple of 1/4, and sources have 7 or 8 frames:
lengths that are and are not multiples of a vector, several vectors long, and an interval <1/4, 3/4>
whose bounds lie inside a vector. `size_t` wraps at 1000, far above any length, as in the program.

| Run | Shows |
|---|---|
| `overlap` | From start-up and from a loaded program (`EitherSpec`): all commands and parameter changes, every outcome, two sample rates, two inputs at any moment of each other's handling (three mailboxes in any order). `ViewPartialsCurrent`: the view's pointer, once its messages are handled, is to the partials that exist. `EnabledCurrent`, `ProcParamsCurrent`, `ViewParamsCurrent`, `ProcSourceCurrent`: the same for buttons, parameters and the resampled copy. Two inputs are enough for two broadcasts to cross, which is all that those properties depend on. `ImplementsTransport`: every step is one of `Transport` or none, also where data is replaced and toggles overlap. |
| `data` | Five inputs in sequence: every order of open, analyze, synthesize, import, export, with dialogs cancelled; the outcomes that break the last two properties (a short file, a rejected one) are left to `short_read` and to the end of this section. `TypeOK`, `DataConsistent`, `PartialsOfSource`, `PartialsNameSource`. |
| `play` | From a loaded program, three overlapping inputs: start, stop or switch playback, drag the interval, replace source or synthesized sample while it plays, the audio thread running within any handler. `PlaySpec` leaves out the three steps that break playback, as the theorems do: a start within a vector (`StartOverlaps`), a sample replaced within a vector (`ReplacedWithin`), playing less than a vector (`PlayedIsLong`). `ReadsInBounds` and its inductive strengthening `PlaybackInv`; `ButtonsTold`, at each moment: what a play button shows, or has been sent last, is whether its sound plays. |
| `live` | Three inputs in sequence with fairness: `PlaybackEnds`, `EventuallySettled`, and `FulfilsTransport`: requests are answered, reports noticed, and what plays ends. |
| `widgets` | From a loaded program, four inputs among pressing the mouse, moving it by -3/4 or 1/2, resizing, "open" and "synthesize", each given when no message is left, but with timers and painting at any time. Two brackets take 2/4 of the small window and 1/4 of the large one; a move may bump the other end and be clamped at once. `GapKept`: no interval is shorter than two brackets of some window. `GapRestored`: one that a smaller window has made too short is two brackets long after the next move. `IntervalsAgree` (the message at the end of a drag repairs what the display missed), `PicturesCurrent`, `EventuallyPainted`. |
| `partials` | Six operations among analyze (one to three partials from four: overlapping, touching, too high, of one breakpoint), save in either format, load (also of files that other programs wrote: empty, with a partial of length zero, with or without a duration), where an analysis counts once for each partial it finds: that is enough to save and load what was found, and with one partial to analyse, save as .ut2, load that, save it as .utu and load again, which is how partials without the name of a source come into a JSON file (`TypeOK`, `ReloadKeeps`). `WalkBounds`: in every order of ties the count returns to zero (the `assert` at `vutuPartials.h:249`), bounds how many sound at once and is reached, ends included, at `maxActiveTime`. `ReloadKeeps` says too that a file of this program comes back with the time of its last breakpoint as its duration. `StatsTrue`, `AnalysisKeeps`; `FramesInterpolate`, which relates `getPartialFrame()` to `getPartialFrameByIndex()`, and `NearestIsNearest` at every time on a grid finer than the breakpoints. |

`LoadedInit`, from which `play` and `live` start and `overlap` may, is reached from `Init` by "open", "analyze"
and "synthesize", each handled to the end; `Frames` is one of the `SourceFrames` (an `ASSUME`).
`CHECK_DEADLOCK FALSE` is said in `overlap` and `import_crash`, where an unreadable file ends the
program.

Fairness. `SF` for controller, view and processor: the timers of the actors fire for ever, and their
handlers become enabled again and again between two vectors (`SF` rather than `WF` since
`HandlerMayRun` is false within each vector). `WF` for the audio thread: the device asks for vector
after vector. Nothing is assumed of the user. The `widgets` run has no preemption and assumes `WF` of
controller, processor, view, the animation of the widgets and the redraw timer, all of them timers of the
library; `WF` is enough as nothing plays there, and disables none of them for long. The end of a drag is not assumed to come:
`EventuallyPainted` holds without it.

### Findings

Each is a run that expects a violation of one property.

1. `import_crash`: `loadVutuPartialsFromFile()` (`vutuPartials.h:712`) uses a null pointer if the file
   cannot be read.
2. `short_read`: a sound file that ends early replaces the source (`vutuController.cpp:224`) but leaves the
   partials and the synthesized sample of the previous one.
3. `never_ends`: `frameEnd - kFloatsPerDSPVector` (`vutuProcessor.cpp:281`) wraps if the interval ends within
   the first vector; playback then runs past the end of the sample and never stops.
4. `synth_tail`: the index has been advanced when it is compared, so the last vector of a sample is
   never played.
5. `preempted`: `togglePlaybackState()` and the end of a playback on the audio thread race; a button
   goes on showing "stop" while nothing plays.

6. `reload`: `sourceDuration` is not written to a file (`vutuPartials.h:387`), although the readers look for it
   and the comment at `vutuPartials.h:48` says that all but the statistics is stored; it becomes the time of the
   last breakpoint.

Also seen, without a statement in the repository to hold against it: a file that libsndfile rejects
still becomes `sourceFileLoaded` (`vutuController.cpp:244`), so that a later analysis names it as the
source; hence the assumption of `PartialsAreNamed`. After an import the processor keeps its
copy of the removed source (`vutuProcessor.cpp:150`) and would play it for a toggle that was already on its way:
`ProcSourceCurrent` speaks of loaded sources only.

## 4. Proofs

`VutuAppProofs`:

- `TypeCorrect`: `Spec => []TypeOK`, by a lemma per action; among other things every message in a mailbox is one
  its actor has a case for, and resampled and synthesized lengths are natural numbers.
- `DataIsConsistent`: `DataConsistent` is inductive given the types. Only the controller changes its
  data (`OthersKeepData`); whatever replaces the partials remakes their Loris form and clears
  the synthesized sample (`FreshData`).
- `PartialsAreOfSource` assumes that no file ends early (finding 2 shows the assumption to be needed).
- `PartialsAreNamed` assumes that no file is rejected. It needs `NameInv`: the name last picked is that of
  the source sample, because the partials get the name of `sourceFileLoaded` but the content of the sample.

`VutuPlaybackProofs`: `PlaybackInvariant` and `NeverReadsOutside`, with the audio thread running within any handler
(for every `Preemptive`). They name what can make a vector be read from outside its sample, and say that nothing else
does: playback started while a vector is processed (`StartOverlaps`: `playbackState` is set before
`playbackSampleIdx`, so that the vector uses or changes the wrong index), a sample replaced within a vector
(`ReplacedWithin`), and less than a vector to play (`~PlayedIsLong`, finding 3). None of them does the code exclude.
`ReadsInBounds` itself promises nothing for the synthesized sample while the message that it has been replaced is on
its way (`Pending("synth")`): the controller resizes and rewrites the sample that the audio thread may be reading, and
nothing in the code prevents that.

`ReadsInBounds` is not inductive: that the vector lies inside the sample depends on the test after the previous vector
(`FrameEndInv`), on where `togglePlaybackState()` starts, which it decides before it sets the index (`ArmedInv`,
`NextVectorInv`), and, for the synthesized sample, on the announcement that the controller sends with every change
(`SynthAnnounced`, `PendingSend`, `PendingHandle`: an announcement is pending until the processor, handling it,
stops playback). `PlaybackInv` is the conjunction; the `play` run checks it too.

`TransportProofs`: `ButtonsAreTold`, for any set of sounds: `Told` is inductive given the types. The last report
on its way, or what is shown if there is none, changes only where `playing` does (`LastAppended`), and not when a report is
noticed (`LastKept`).

`VutuReplicaProofs` is about what the actors know of each other. `Comes(box, kind, good, held)` says that the last
message of a kind in a mailbox is a good one, or that there is none and what the receiver holds is good already; the
lemmas up to `ComesAnyway` say how that fares when messages are added or the first is handled. Each replica property is
a `Comes`, and each is inductive given the types. The work is in `AllTold` (`ControllerTells`, one
lemma per command): whatever data or parameter the controller changes, the messages of the same action announce it, in
an order that leaves the right one last; and in the receivers (`ProcMailSteps`, `ViewTakes`): what is taken from a mailbox
is taken to heart, and nothing else is. `ViewParamsAreCurrent` also follows the user's values on their way
(`UserUnheard`).

`VutuTransportProofs`: `PlayButtonsAreTold`. Between a sound and its button stand two mailboxes, so the invariant
(`ReportComes`) is a `Comes` of the controller's mailbox whose "held" is a `Comes` of the view's: a report that the
controller takes from the first becomes texts in the second (`ReportRelayed`), and the last start or stop in
the first has the last word over both. Besides, the sound that `togglePlaybackState()` is starting must not be stopped
before it is reported (`Armed`). That fails only if playback is started within a vector (`StartOverlaps`), as in
finding 5, and the theorem excludes just that: the audio thread may run within any other handler, and within this
one if it has not begun a vector that is not finished.

`VutuWidgetsProofs` assumes that `Intervals` has all the wide ones (`Wide`: within the window and at least two
brackets of a window of some size long), so that a drag can set them; the run `widgets` has all intervals.

- `IntervalsStayWide`, `WidgetsTypes`: every interval in a message or a copy is wide (`WideInv`). `BumpedIsApart`
  shows that bumping and clamping keep the ends in the window and two brackets apart, for every bracket and move; open and
  import set the whole; and all else only passes on what there is. `Layout` makes brackets wider without moving the
  ends, so that an interval can be shorter than two brackets of the window there is now: hence "a window of some size".
- `IntervalsAreRestored`: the first move afterwards makes it two brackets of the present window long.
- `IntervalsComeToAgree`: the invariant (`AgreeInv`) adds the replica properties and that, while nothing is dragged, the
  display shows the view's value or the view has still to handle one, which it will give to the display. The
  value sent at the end of a drag is such a one, whatever the display has missed.
- `PicturesAreCurrent`: a picture is of what the controller holds, or is dirty, or the view has still to be told. Needs
  that no data changes without an announcement (`AllTold`) and that each pointer the view takes dirties its display.

`PartialsDataProofs`, for every set of partials, every other file and every number of operations:

- `PartialsTypes`, `WalkCountsAll`: the walk has counted the starts less the ends that it has passed, and in time order
  (`StatsInvariant`); so what it counts at a time lies between the partials that sound there and those that touch it.
  When no event is left, it is zero. The walk may take ties in any order.
- `AnalysisKeepsAll`: by the number of partials. `cleanOutliers()` removes elements from a vector; the proof keeps
  an increasing numbering of those that are left.
- `StatisticsAreTrue`: the ranges are smallest and largest values (minima and maxima of finite
  sets). It assumes that no file of another program holds a partial without breakpoints: `calcStats()`
  gives such a one the range of zeros, which is then in no partial.
- `NearestFrameIsNearest`, `FramesInterpolateAll`: the index that the look-up finds is that of the first later breakpoint.
- `ReloadKeepsAll`: a file holds, under its keys, what was noted when it was written (`ReloadInvariant`), until it is
  written again.

The theorems rest on the `ASSUME`s of the modules, which TLC evaluates in each run. They hold for every
`VectorSize`, `SizeMod`, `Den`, rates, lengths, intervals and bounds.

Only model-checked:

- the refinement of `Transport` as a whole, `ImplementsTransport`: its mapping selects messages with `SelectSeq`, of
  which the provers know nothing. What the refinement is for, the buttons, is proved of the program directly;
- the liveness properties (`PlaybackEnds`, `EventuallySettled`, `FulfilsTransport`, `EventuallyPainted`): temporal
  reasoning with fairness and `ENABLED` is out of the prover's reach.

Induction over data is done, where needed, on natural numbers by the least counterexample, stated for
one set at a time; the library's induction theorems, which take an operator, cannot be used.

## 5. Not modelled

- The signal: gain, fades, normalisation, Loris's analysis and synthesis. Samples have lengths and names, no values.
- Drawing: what a picture shows, its time axis, the mark at `maxActiveTime`, the playback marker, hit rectangles.
  Of the displays, when they paint and from what is modelled; hence "partly".
- The loop of `resample()`: how many frames it gets at each turn is libresample's, and the result has the
  length that was set before the loop. `Resample` has that.
- The order of starting and stopping timers, actors and audio in `main()`: what it protects lies within
  madronalib and RtAudio.
- Dialogs and the paths last used; the capacity of message queues.
- `vutuPartialsToBinary()` has no caller in the program; `PartialsData` saves in its format as export does in JSON.
  A file that is no partials file at all is in `VutuController` (`import_crash`).

`PROJECT.json` gives the state of each component.

## 6. Plan

Done: the modules of section 2, and a theorem for each invariant that a passing run checks. What is left:

1. `ImplementsTransport`: the mapping with a selection that can be reasoned about (a recursive function on prefixes of a
   mailbox), then one lemma per action: each step of `VutuApp` is a step of `Transport` or none. `VutuTransportProofs` has
   what is needed of reports; that of requests is new.
2. Action properties of the actors: what a step may never do, such as a toggle that is answered twice.
3. `PlayedIsLong` in terms of durations and intervals that a user can choose, so that `NeverReadsOutside` says at which
   lengths the program is safe.
