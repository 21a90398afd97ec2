# rusty-faker in TLA+

TLA+ models of [rusty-faker](../src/README.md): fake data from a Rust core
behind the Python API of Faker. What is modelled is the state the two languages
share (generators, caches, random streams, copies), the protocol of
`fake.unique`, the Fakers of several locales, and the algorithms of the core
whose boundaries are hard to test. TLC checks every module on small instances;
TLAPS proves the main invariants for instances of every size.

    tlc -workers 2 -config MCFormatterCache_caches.cfg MCFormatterCache
    tlapm FormatterCacheProofs.tla

Contents: [the system](#the-system) ·
[modules](#modules-and-how-they-correspond-to-the-code) ·
[runs](#runs-bounds-and-why-they-are-enough) ·
[fairness](#fairness) · [proofs](#proofs) ·
[only model-checked](#what-is-only-model-checked) · [findings](#findings) ·
[abstractions](#abstractions) · [not modelled](#what-is-not-modelled) ·
[plan](#plan)

## The system

A `Faker` (proxy.py) is what users hold. It fronts one Python `Generator`
(generator.py), or, for several locales, one child `Faker` per locale. A
Generator holds a Rust generator, its *core* (crates/rusty-faker-py/src/lib.rs
around crates/rusty-faker-core), in which formatters are compiled in. Custom
providers are Python objects whose methods are installed on a Generator and
which draw from that Generator's core.

| component | state it keeps | operations | correct when |
|---|---|---|---|
| Generator (`generator.py`) | `_core`, cached core methods (`__dict__`, `_cached`), provider methods, the proxies to tell (`_proxies`); of the class: `_shared_cores`, `_global_seed`, the argument groups | construction, `__getattr__`, `add_provider`, `set_formatter`, `seed_instance`, `Generator.seed`, deepcopy, pickle | no cached method outlives its core; overrides win; a seed determines what follows; copies share nothing |
| Faker, one locale (`proxy.py`) | its generator, cached methods (`__dict__`, `_cached_names`) | construction, `__getattr__`, `_clear_cache`, copies | answers what its generator answers |
| Faker, several locales (`proxy.py`) | children, weights, one cached mapping per formatter | selection of a child, `seed_instance`, `seed_locale`, copies | a seeded stream is moved by its own calls only |
| UniqueProxy (`proxy.py`) | `_seen` (a dict of sets), `_sentinel`, excluded types | wrapped calls, `exclude_types`, `[locale]`, `clear`, copies | no value twice, none lost, every call ends |
| OptionalProxy (`proxy.py`) | none | a chance before the call | draws from a stream the seed governs |
| Custom providers (`providers/__init__.py`) | the generator they draw from; elements | random helpers, `DynamicProvider` | draw where the generator they serve draws |
| Factory, `resolve_locale` (`factory.py`, `config.py`) | none | a Generator with its providers | |
| Argument groups, `Generator.parse` (`generator.py`) | a dict for all generators | `parse`, `set_arguments` | the three scanners of tokens agree |
| Rust generator (`generator.rs`, `lib.rs`) | RNG state; weighting | seeding, cloning, draws, all `&mut self` | seeded means repeatable |
| Data tables (`data.rs`, `build.rs`) | compiled-in tables | validation of each attribute, `pick`, `pick_concat` | every item in proportion to its weight; no pick from a table or groups that passed panics |
| Sampling, random_int, placeholders (`base.rs`) | none across calls | `random_elements` and variants, `words`, `random_int`, `random_number`, `numerify`, `lexify`, `bothify`, `hexify` | distinct picks, Python's ranges, each placeholder replaced once |
| Text (`lorem.rs`, `text.rs`) | none across calls | `text` and the loops it uses | ends, and fits |
| Dates (`date_time.rs`, `lib.rs`) | none across calls; reads the clock | births, periods, between, until, future, past, with a tzinfo or without, bounds read by one clock or by two; relative date strings | right at the ends of months, years, reads and offsets |
| Internet (`internet.rs`) | pools, computed once | IPv4 addresses and networks by kind and class; e-mail, user, domain and host names, URLs | exactly the eligible addresses, uniformly; names that are well formed |
| Templates (`template.rs`, `build.rs`) | none; the call stack | scan and render tokens | as the regular expression of `parse`; rendering ends |
| Person, address, company, phone | none | picks from optional tables, placeholder formats, templates | no name from the table of another gender |
| PyO3 binding (`lib.rs`) | the borrow of the core | every method; conversions run Python code | a call is refused only while another one is inside of Python code |
| Time zones by name (`_tz.py`), pytest plugin, packaging | one session Faker in the plugin | | see [not modelled](#what-is-not-modelled) |

How they interact:

* A name is resolved on the Faker, then on its Generator, then on the core. What
  is found is cached at *both* Python levels as a bound method, which holds the
  object it is bound to. Anything that replaces a core or a method has to find
  every cached method: `Generator._invalidate` does, by calling `_clear_cache` of
  every proxy in the weak set `_proxies`.
* Generators of one (locale, weighting) key share a core until they are seeded;
  `seed_instance` takes one off the shared core, `Faker.seed` reseeds the shared
  cores that exist and leaves its seed for those to come.
* Deep copies go through one `memo`, so what two objects share is shared by
  their copies; pickles keep methods and lose private cores.
* `unique` calls formatters, and a custom formatter may call the Faker back.
* Several reads of the clock, and several draws, make up one call in Rust.
* Some methods run Python code (that of a collection, a date, a zone) before they
  return; most of them hold `&mut self` meanwhile.

What is hard: stale caches at two levels; object identity that decides whether
seeding replaces or reseeds; half-done operations (a provider attribute that
raises, a formatter that raises inside `unique`); re-entrant calls; loops that
must end; boundaries of integers, weights, calendars and address ranges;
templates that call one another. There is no concurrency of the program's own:
one generator is for one thread (generator.rs:10), and its calls are taken one
at a time here, except in `Borrowing`, whose subject is what happens to two
threads, or to code that calls back, all the same.

## Modules and how they correspond to the code

`PROJECT.json` maps each definition to its lines. `X` `->` `Y`: X extends Y.

    FakerApi                 what Fakers promise, without caches
       ^ refined by
    FormatterCache           generator.py, proxy.py with one locale
       ^ MCFormatterCache, FormatterCacheProofs <- ApiProofs
    MultiLocale              proxy.py with several locales
       ^ MCMultiLocale, MultiLocaleProofs
    UniqueValues             UniqueProxy
       ^ MCUniqueValues, UniqueValuesProofs
    Weights                  running totals and the search in them
       ^ Sampling, Tables <- LocaleData, Networks
    RandomInts, LoremText, Calendar, Tokens, Placeholders, Rendering,
    DateStrings, Borrowing
    Draws -> all from Sampling to Borrowing
       ^ MCDraws
    SamplingProofs <- InternetProofs -> Networks, Rendering
    InternetProofs, CalendarProofs <- DrawsProofs -> Draws

**FakerApi** is the abstract specification. A generator has one random stream,
its own or that of its key; a name has one method, the latest; a call runs the
latest method, or one that was superseded without the proxies being told.

**FormatterCache** has an object graph: `core`, `genDict`, `genCached`
(`_cached`), `provMethods`, `registered` (`_proxies`), `proxyDict`,
`cachedNames`, `sharedCores`, `globalSeed`, and for each core its RNG state
`rng` = [seed, draws since]. One action per operation: `NewFaker`, `NewProxy`,
`DropProxy` (garbage collection, which empties the weak set), `Call` (look-up
with both caches filled on the way, then a draw), `SetFormatters` (a
`set_formatter`, or an `add_provider` broken off by an exception),
`AddProvider` (with its `_invalidate`), `SeedInstance`, `GlobalSeed`,
`DeepCopy`, `PickleRoundTrip`. `last` and `superseded` are history. A copy
takes everything reachable from the proxies copied (`Reach`), providers and the
generators they draw from included, through one memo. `Next` is a client that
copies one Faker at a time and adds providers to the generator they draw from;
`NextEntangled` is any client. `ApiSpec` is the refinement of `FakerApi`: a
stream is the RNG of the core, `Shared` when that is the shared one.

**MultiLocale** keeps of each child only the core and the `random.Random` it
holds, and the formatters added to it. `Call` maps the name to the children that
have it (kept for good), selects one with the first child's Random, and draws.
`RefusedSeed` is a seed whose type `seed_to_u64` refuses: `seed_instance` of the
first child has taken its Random off the others by then, and Python 3.10 has
seeded it (later versions refuse before that), and raised with the core as it was.
`due` and `dueChoice` are history: where the streams would be if only the
Faker's own seeds and calls counted. `Next` copies a Faker when its children
hold objects of their own, `NextCopies` at any time.

**UniqueValues** keeps the dict objects (`seen`), which proxies share, and the
stack of calls under way (`frame`): a wrapped formatter may itself call wrappers,
and others may `Clear`, `Derive` (`exclude_types`, `[locale]`), deepcopy or
pickle meanwhile. `Begin`, `FirstDraw`, `Redraw`, `GiveUp` and `FormatterRaises`
are the steps of one call, split where the formatter runs. `given` counts how
often a value came out as new.

**Draws** composes the algorithms of the Rust core. One call is under way at a
time (`Borrowed(kind)`: every other kind of call is at `Rest`, for a call takes
`&mut self`), and each goes from "idle" through its draws to "done" or
"failed", so that the caller's arguments are enumerated and each draw of the RNG
is any outcome it may have.

| module | code | steps |
|---|---|---|
| `Sampling` | base.rs `random_element_indices`, lorem.rs `words` | ask, one draw at a time, finish |
| `Tables` | data.rs `pick`, `pick_concat`; build.rs's validation of weights | ask, pick |
| `LocaleData` | build.rs `emit_locale`, `emit_value`; the gendered picks of person.rs, `join_groups` of company.rs, and the picks from what is no table: languages, HTTP codes, time zones, words by part of speech, postcodes by state | one attribute at a time, then a formatter |
| `RandomInts` | base.rs `random_int` | ask, draw; integers of any width |
| `Placeholders` | base.rs `numerify`, `lexify`, `bothify`, `hexify`, `random_number`; the formats of phone numbers, postcodes (an en_US ZIP too), handles | ask, one character of a pass at a time |
| `LoremText` | lorem.rs `text`, with the lengths of words, sentences, paragraphs | one part at a time |
| `Networks` | internet.rs, pools and IPv4 addresses | ask, draw |
| `Calendar` | date_time.rs and lib.rs: births, periods, relative bounds, zones, the local clock beside UTC | first read of the clock, second, ticks between them, draw |
| `DateStrings` | date_time.rs `parse_date_string`; the regular expression of `_tz.py` | one unit at a time |
| `Tokens` | template.rs `parse`, build.rs `template_expr`, the regular expression of generator.py | one token or brace at a time |
| `Rendering` | template.rs `render`, `write_formatter`; the composite formatters of person.rs, address.rs, company.rs, internet.rs; text.rs `slugify` | one segment at a time, with a stack of formatters |
| `Borrowing` | lib.rs: the methods that run Python code | enter, draw and leave a call, by any thread |

In `Rendering` a formatter is the sequence of what it does to its text: say
characters, write another formatter (`Token`), clear, slugify. `frames` is
the Rust call stack. `Borrowing` has the two kinds of methods: those that take
`&mut self` hold the core throughout, those with a tzinfo take the Python object
and borrow it for the draw only; the first is refused with a RuntimeError
and the second panics while another holds it.

`MC` modules hold the values of constants for TLC; the definitions called
mutants in comments are small plausible errors (a dropped guard, a missing
reset) with which each property was seen to fail.

## Runs, bounds and why they are enough

| run | distinct states | checks |
|---|---|---|
| caches | 36 102 | `TypeOK`, `NoStaleCore`, `ProxyCoherent`, `ApiSpec` |
| copies | 129 405 | `OwnCore`, `IsolationInv`, `FormattersFollowSeed`, `GlobalSeedReachesSharedCores`, `ApiSpec` |
| entangled | 46 280 | `CacheInv` |
| unique | 443 733 | `UniqueTypeOK`, `NoRepeat`, `SentinelStaysInside`, `NothingLost`, `CallsEnd` |
| locales | 486 468 | `MultiTypeOK`, `PromisedStreams`, `MappingSupported` |
| draws | 360 142 | the properties of the twelve modules that `Draws` composes |
| override, dynamic, excluded, copied, endless, longtext | | one counterexample each, see [Findings](#findings) |

**caches**: one generator, two proxies that come and go, two cores (shared and
own), two names (one that a provider overrides and one it does not), two seeds.
Staleness needs one cached method and one operation that misses it; two proxies
tell "some are told" from "all are told". It shows that whatever the order, no
cached method is stale, and that every call is one `FakerApi` allows.

**copies**: two generators, two proxies, three cores, two keys, one name: an
original and its copy, each on a core of its own beside a shared one. It shows
that a private stream has one owner, that providers of a copy draw from the
copy, and that the copy is the generator `FakerApi` promises.

**entangled**: the same for clients that hand one generator's provider to
another and copy several Fakers at once; `CacheInv` is the invariant that is
proved below. `OwnCore` and `FormattersFollowSeed` are *not* promised there
(see dynamic and copied).

**unique**: two proxies (a base one and one derived or copied), three dicts,
two sentinels, one key, two values, three attempts in place of 1000, calls
nested two deep. Two values and three attempts make a call draw duplicates and
then find a new value, or give up; with nesting, the inner call can take the
value between the outer one's test and its note. Keys are independent, so one is
enough. `given` stays bounded because `NoRepeat` holds.

**locales**: two Fakers of two locales that en_US data serves alike (one key, so
that they share a core), one weight zero, one formatter added late. Seeds are
entropy only: what matters is *whose* stream was restarted, and that shows in
the draws since. A refused seed may come at any moment, of either Python version.
Draws are capped at one per stream (`MaxDraws`), after which
no call can go on: deadlock is not checked there.

**draws**: up to 3 items with weights -1 to 2; two tables of two rows; all
random_int arguments of 3 bits (`MaxInt` = 3; the proof is for every width); limits on both sides of the bounds 5, 25 and 100
of `text`, two attempts in place of 10 000; 7-bit addresses with three classes,
private networks in each, and reserved ones at edges, in the middle, next to and
within one another, the relations the real tables have; ten days at the ends of
February (leap and common), of years, of a century and of the calendar, at
midnight and late in the day, days of three seconds (six ticks), ages up to 3,
relative bounds up to 2, up to 2 ticks (a second) between reads, which may cross
midnight; five zones, UTC and four whose clock is set once, on or back, at midnight,
across it, or between two ends of a month; calls for what is between two bounds
without a tzinfo and in each zone, with the local clock two seconds (four ticks) on
either side of UTC, which is more than a read takes and as much as a bound may be off;
about 3 200 texts of
a brace and up to four pieces for the scanners; placeholder texts of up to three
characters, with letters that are placeholders themselves; the templates of
en_US, up to two levels of domain or path, five formatters deep; attributes
of every type that build.rs tells apart (`RawTables`, `RawGroups`, `RawLists`), empty,
empty in part and not, with weights that fit and that do not, and missing ones;
date strings of up to three parts over three units, in any order, with the same
one twice, and with what is no part; two threads that share a generator, calls
nested three deep. Draws in the middle of a period are left out
(`Margin`): the results grow with the draw, so the ends are where they can be
wrong. What each property says:

* `DistinctPicks`, `SampleInv`: as many indices as asked for, no index twice.
* `ZeroWeightLast`: an item of weight zero only once nothing else is left.
* `AsConcatenated`: an item's draws are as many as its weight, over all tables.
* `RandrangeAgrees`: members of Python's range; errors only where it is none.
* `TextFits`, `TextEnds`: no longer than asked for, not empty, and it returns.
* `PoolExact`: each eligible address has exactly one draw.
* `NetworkEligible`: a network drawn holds eligible addresses only.
* `AgeInRange`: the age that was asked for, on any day.
* `WithinPeriod`: the period and side of now that were asked for; an error only in
  the last year, or in a period that starts with the first year or before.
* `FuturePast`: the side of now, or the bounds, that were asked for, wherever the
  reads of the clock fall, each bound where the clock that reads it says. With a
  tzinfo, `date_time_between_dates` takes an absent bound by UTC and a given one by
  the local clock (date_time.rs:329-331, lib.rs:1208-1220): from `"-1h"` to now may
  be from hours before, and is an error where the local clock is far enough ahead.
  The property says so, since nothing in the repository says which clock should
  read a bound in a call with a tzinfo; it does not say that the bounds are a
  caller's.
* `ReplacedOnce`: each placeholder is replaced once, by what it stands for.
* `NamesWellFormed`: labels of host names and addresses are never empty, and
  have no blanks, whatever templates the names came from.
* `NoReentry`: no formatter is called while it is under way itself.
* `RenderingEnds`: every formatter that renders templates returns.
* `PanicsOnlyOnEmpty`: no pick indexes outside a table, group or list that build.rs
  let through, but for three lists that it lets through empty and that are indexed
  unchecked: languages (base.rs:346, 352), assigned HTTP codes (internet.rs:373) and
  countries (date_time.rs:545). The data of en_US have all three.
* `OwnGender`: a gendered name comes from its own table or the combined one.
* `ParsedLikeRegex`: a date string is read as by Python's regular expression.
* `RefusedOnlyWithin`: the core is borrowed only by a method that takes
  `&mut self` and is still running, and no call is refused otherwise.
* `ReadAlike`: the two Rust scanners find what Python's regular expression does.

Symmetry is used over generators, proxies, cores and keys, and over
multi-locale Fakers; these runs check invariants and the refinement (safety),
no liveness. `unique` and `draws` check liveness and use none.

## Fairness

* `UniqueValues!FairSpec`, strong fairness of `Answer(n)`: the formatter that
  the n-th call waits for returns or raises in the end, even if it uses the
  Faker again and again before. This is an assumption about the formatter: a
  compiled-in one is a finite computation, a custom one that never returns hangs
  any caller. Nothing is assumed about *what* it returns. `GiveUp` is in
  `Answer` since the loop then goes on by itself. `CallsEnd` follows from the
  count of attempts alone.
* `Draws!DrawSpec`, weak fairness of `WriteText`: a running call goes on
  running. Nothing is assumed about which words are drawn, so `TextEnds` says
  that no sequence of draws keeps it going. A word list that mixes empty words
  with others ends with probability one only, and is left out.
  Weak fairness of `RenderStep` is the same for a formatter that renders
  templates, with any choice of template: `RenderingEnds` holds because no
  template of en_US leads back to a formatter under way, except through the
  levels asked for.

## Proofs

| theorem | module | says |
|---|---|---|
| `CacheInvariant`, `TypeTheorem` | FormatterCacheProofs | `SpecEntangled => []CacheInv`, and its type invariant |
| `StaleCoreTheorem`, `CoherenceTheorem`, `GlobalSeedTheorem` | | `NoStaleCore`, `ProxyCoherent`, `GlobalSeedReachesSharedCores`, for every client |
| `OwnCoreTheorem`, `IsolationTheorem`, `FollowSeedTheorem` | | `OwnCore`, `IsolationInv`, `FormattersFollowSeed`, for `Spec` |
| `RefinementTheorem` | ApiProofs | `Spec => ApiSpec`: the caches implement FakerApi |
| `UniqueTypeTheorem`, `NoRepeatTheorem`, `SentinelTheorem`, `NothingLostTheorem` | UniqueValuesProofs | `Spec => []` of each |
| `MultiInvariant`, `MultiTypeTheorem`, `PromisedStreamsTheorem`, `MappingTheorem` | MultiLocaleProofs | `Spec => []` of each |
| `SampleInvariant`, `DistinctPicksTheorem`, `ZeroWeightTheorem` | SamplingProofs | `SampleSpec => []` of each |
| `RandrangeTheorem` | | `IntSpec => []RandrangeAgrees`, for integers of any width |
| `NetInvariant`, `PoolTheorem`, `EligibleTheorem` | InternetProofs | `NetSpec => []` of `NetInv`, `PoolExact`, `NetworkEligible`, for addresses of any width and tables of any networks |
| `NamesWellFormedTheorem` | | `RenderSpec => []NamesWellFormed`, for any templates and words of the shapes below, called to any depth |
| `NoReentryTheorem` | | `RenderSpec => []NoReentry`, for any templates that lead from a higher rank to lower ones |
| `AgeTheorem`, `PeriodTheorem`, `FutureTheorem` | CalendarProofs | `DateSpec => []` of `AgeInRange`, `WithinPeriod`, `FuturePast`, for all dates, zones, local clocks and bounds |
| `RefusedOnlyWithinTheorem` | DrawsProofs | `BorrowSpec => []RefusedOnlyWithin`, for any threads and nesting |
| `CompositionTheorem` | | `DrawSpec` implements each of the twelve modules it composes |
| `CoreTheorem`, `CoreNetworksTheorem`, `CoreNamesTheorem`, `CoreDatesTheorem` | | so `DrawSpec` has their properties |
| `ReadAlikeTheorem` | | `DrawSpec => []ReadAlike`, for all texts |
| `ReplacedOnceTheorem` | | `DrawSpec => []ReplacedOnce`, for all texts, letters and formats |
| `ParsedLikeRegexTheorem` | | `DrawSpec => []ParsedLikeRegex`, for all strings and units |
| `TextFitsTheorem`, `OwnGenderTheorem`, `ConcatenatedTheorem`, `NeverPanicTheorem` | | `DrawSpec => []` of `TextFits`, `OwnGender`, `AsConcatenated`, `PanicsOnlyOnEmpty`, for attributes of any type, size and weights |

They hold for every value of the constants that meets the ASSUMEs of the
modules: that core names are names and methods are of providers, that the
placeholders (`None`, `Absent`, `Shared`) are no objects, that sentinels are no
values, that bounds are natural numbers, that of the attributes of a locale only
weighted lists have weights and a plain list has one size (`RawAssumption`),
that texts are made of the classes of characters,
that no unit of a relative date is a digit, that formats, letters and suffixes are
texts (`PlaceholderAssumption`);
that calls are made at times of the calendar, whose last year ends a century as
9999 does, zones are set by whole seconds, and neither they nor the local clock are
a day or more from UTC, as `datetime` and chrono require (`TimeAssumption`); that the
tables of networks are aligned, the private ones apart and each inside of the
class it overlaps (`NetworkAssumption`), and every class has private and public
addresses (`EligibleAssumption`), as in internet.rs:75-102; and that the templates
and words of names are like those of en_US (`NamesAssumption`): a company's template
begins with a name, which begins with a letter or digit and has one after each
hyphen, and what follows a hyphen between two names is a name; a user name's
template has a segment that slugify leaves something of; an e-mail template is a
user name, "@" and one of three domain formatters, a URL's a domain name with a
"/" behind it and at most one label before it; top-level domains and host
prefixes are labels, the fixed domains have one dot. Which templates, how many,
and what else is in them is open, and so are all other formatters: they may call
one another in circles. The reserved
networks may overlap in any way. None bounds a number of objects. Object sets may be
infinite. `TextFitsTheorem` has a hypothesis of its own, `PiecesSound`: words,
sentences and paragraphs have characters and none more for a capital first
letter; the runs `endless` and `longtext` show what happens without it. The one of
`NoReentryTheorem` is a rank of the formatters, by which each has templates of lower
ones only (`Ordered`); TLC evaluates for the templates of en_US that `MCRank` is one.

**CacheInv.** That no proxy is stale is not inductive: `SeedInstance` tells the
*registered* proxies to drop what is in `_cached_names`. So the invariant adds
that a generator knows every proxy in front of it (`RegisteredExactly`), that a
name is in a proxy's dict exactly if it is in `_cached_names` (`ProxyEntry`),
and that `_cached` and `_provider_methods` split the generator's own names by
where the method came from (`GenEntry`), because `_invalidate` drops
`_cached - _provider_methods`. `SharedKeys` (a core is shared under one key, by
generators of it) is what keeps the test "is this the shared core" meaningful,
and `GlobalSeedReachesSharedCores` needs it, and needs shared cores to be live
objects (`SharedObject`), so that the core a seeding creates is none of them. The proof has a lemma per action; those of `DeepCopy` and
`PickleRoundTrip` rest on `ReachLive` (what is copied is alive) and `CopyInv`
(what copying does apart from cores).

**IsolationInv.** `OwnCore` alone is not inductive under deepcopy, whose memo
clones one core for every generator reached; `OwnProviders` makes `Reach` a
single generator (`ReachAlone`), so that a copied core has one holder. This is
where the restriction to `Spec` is needed, and the run `dynamic` shows that it is.

**The refinement** (ApiProofs). The mapping is variable by variable: the stream of
a generator is the RNG of its core, or `Shared` when that is the shared one
(`StreamOf`); the latest method of a name is what the generator's dict, or the
core, has (`LatestOf`); the shared streams are those of the shared cores
(`SharedRngOf`). `LatestByOrigin` turns the look-up through both caches into the
latest method: that is `CacheInv`. `StreamShared` turns "is this the shared core"
into a question about streams: that needs `OwnCore` and `SharedKeys`, for a core
that two generators hold privately would be one stream in the code and two in
FakerApi. There is a lemma per action (`NewFakerMaps` to `PickleMaps`); both ways
of copying go through `CopyMaps`, and `ReachAlone` makes the copy one generator.

**UniqueInv** (UniqueValuesProofs). To `NoRepeat`, `NothingLost` and
`SentinelStaysInside` it adds: proxies on one dict have one sentinel, every set
that exists holds it (so `Generated` and the loop agree that it is taken), and a
set a call under way has taken still exists, whatever `Clear` did to its proxy.

**MultiInv** (MultiLocaleProofs). Three facts about identity make
`PromisedStreams` inductive: a shared core is the one made for its key
(`SharedNamed`), a child is on its shared objects or on ones of its own
(`Objects`), and what was seeded is of its own (`SeededOwn`), so that no step of
another Faker, and no step of a sibling, moves a stream that is due. Deepcopy
breaks `Objects` when children still share, since the memo clones the shared core
once for all of them: `Spec` copies a Faker when its children are apart, and
the run `copied` is the counterexample without that.

**SampleInv.** Without weights the pool stays a permutation and nothing is
picked before it is truncated; with weights an index is either in the pool or
picked. Both loops keep `Injective`; `FinishStep` turns them into
`DistinctPicks`.

**Running totals** (SamplingProofs). `Weights!Cumulative` is a recursive
function, and the library's induction theorems cannot be instantiated by the
provers at hand. What it computes is proved with the least-number principle
instead: a property that fails for some length fails for a least one
(`LeastNumber`), which one unfolding refutes. Totals grow, so the search returns
the item whose share the draw falls into (`BisectPlace`, `BisectDraw`). For
`ZeroWeightLast` the invariant is that an item of weight zero was picked only
when the rest of the pool weighs nothing (`ZeroInv`).

**RandrangeAgrees** (SamplingProofs). The division of Rust rounds towards zero;
the added step makes it a ceiling (`Ceiling`), and a negative step is the positive
one of the mirrored range (`Mirror`). So an offset below the count is a member,
the count is positive exactly when the range has one, and a count that does not
fit 64 bits is the only other refusal. MaxInt is any positive number.

**RefusedOnlyWithin** (DrawsProofs) says itself that the borrower is a call
that is under way and takes `&mut self`. The proof needs the shape of the stacks
(`BorrowTypeOK`) and that returning cuts off the last call only (`WithoutLast`).

**Networks** (InternetProofs). `Tiles(nets, A)` says that a list of networks is
without overlap and has exactly the addresses A; each function of internet.rs is
shown to make tiles of tiles. Two aligned blocks are nested or apart
(`NestedOrApart`), so taking one out of another leaves the other halves on the
way down (`ExcludeRound`, `Halves`), and a fold over the reserved networks leaves
what none of them has (`CutTiles`, `ExcludeNetworksTiles`, `PoolTiles`). Sizes are
powers of two, which are counted here as sets of bits, and a block of a sorted
list is drawn by as many numbers as it has addresses (`DrawsExact`, with
`BisectPlace` of SamplingProofs): so every eligible address has one draw.
A network is drawn by masking such an address: the network of an
eligible block that holds it is inside of that block (`MaskedBlock`). The
recursive functions of the model are unfolded by `Recursion` and `Induction`,
which rest on the least number again, here over sizes of finite sets.

**NamesWellFormed** (InternetProofs) is about a result that many calls wrote into,
so the invariant is about the whole stack (`Stacked`). Each frame is at a place of a
template of its formatter, and the text so far has the form that this place calls for
(`Shape`, with one operator per kind of name: `DomainSoFar` counts the labels and
dots, `NameSoFar` lets a hyphen stand at the end only where a name comes next). The
innermost frame goes on (`Ready`); every other one waits at a place where its
template names the formatter above it (`Waits`), so that what the callee
hands over is written where it was asked for. Four steps carry it: a segment leads
from the form of one place to that of the next (`ShapeSteps`), a finished text is
what callers count on (`TextFinished`, `FinishWrote`, `Wrote`), and a call and a
return keep the stack (`StackCalls`, `StackReturns`). What the string functions do is
proved from the model's definitions of them: `Chosen`, a recursive function, keeps
the members of a set in their order (`ChosenIs`, by `Induction`). Slugify drops what
is neither letter, digit nor hyphen, so a name's first word becomes a label, without
a hyphen at its ends because the word has none there (`WordSlug`); of a user name
something is left, and no more than that is needed before an "@" (`UserSlug`). A host joined
to another by a dot is a host with the sum of the dots and one more (`HostAfterDot`,
over `DotsJoined`). The depth of calls is no part of the argument, so `MaxDepth`
bounds the runs and not the theorem.

**NoReentry** (InternetProofs) follows from the same invariant: a frame waits at a
place of its template that names the frame above it (`Waits`), so ranks fall from
each frame to the next (`RankFalls`), and by `Induction` from any frame to any above
it (`RankApart`). `CallsAre` says that what the code and the templates of a formatter
name is in `Calls`, whatever number of levels or segments is asked for. It is what a
proof that renderings end would rest on.

**Dates** (CalendarProofs). The ordinal of a day grows with year, month and day
(`OrdinalOfDate`, `Lexicographic`), and what `date_from_ordinal` finds is the day
whose ordinal it is (`DateIs`), for leap years of every century (`YearLength`).
With it a birth between the two bounds has the age (`BirthInv`, `AgeBetween`),
the first day of a period and the first of the next enclose the days that have
the same first day (`ThisInv`, `PeriodSpan`), and a bound that is some years,
days or seconds off is no earlier than one that is nearer (`ResolvedGrows`),
however far the clock got between the two reads (`FutureInv` names what holds
after each read: `Started`, `Drawing`, `Answered`, `Failing`). Each bound is taken by
a clock of its own (`BoundReads`), and grows with that clock and with nothing else
(`BoundGrows`), so what is said of a bound never speaks of the other one's clock; and
since no clock is a day from UTC (`WallNear`, `NearDay`), a year out of the calendar
is near its ends whichever clock showed it. A midnight
that the zone's clock shows once (`Shown`) bounds the period at one instant
(`InstantWall`); a period that begins or ends at a midnight which is skipped or
repeated is outside of `WithinPeriod`.

**ReadAlike** (DrawsProofs). A token of the regular expression is a stretch of the
text without another opening in it (`TokenStretch`), and from one opening there is
at most one (`TokensAgree`), since blanks, word characters and braces exclude each
other; so what the scanners find by going past blanks, words and blanks again is
that token, or none (`MatchTokenIs`, `ParseTokenIs`). `TokenInv` says that the
output so far is the text up to `at` with its tokens substituted, and that no
token goes on beyond `at`, nor was one passed that is to be refused. That a token
may begin at the second brace of an opening that begins none (`SkipKeeps`) is why
one brace is skipped and not two.

**ParsedLikeRegex** (DrawsProofs). What the regular expression matches is the best
of all the ways to let its groups take part or not: a group is taken wherever that
leaves a match. `signed_amount` finds the one group that can start at a place
(`SignedAmountGroup`, `NoneSigned`, `GroupUnique`), since a unit is no digit.
`SpanInv` keeps the places where the groups so far ended (`Passed`): where one was
left out, none could start. So the first group in which another match differs is
one that it leaves out (`PassedPreferred`), and there is one best match
(`PreferredUnique`).

**ReplacedOnce** (DrawsProofs). A pass writes one character or none for each that
it reads (`WrittenShape`), so the places where its pieces end say what came from
where (`Copied`, `CopyOne`), and a text with such places is filled in
(`FilledInPlaces`). bothify needs two passes: `Passing` keeps what numerify wrote
while lexify reads it. Digits put in are no "?", and every "?" of the text is kept
by numerify, so the two passes come to one (`TwicePasses`); letters put in, be they
"#" or "?", are not read again. With the passes in the other order this step fails,
and the property too. A number has as many digits as the power of ten above it has
zeros (`DigitsAreOf`).

**DrawsProofs.** A step of `Draws` is a step of one module and leaves the
variables of the others alone: `Draws` implements each of them (`SampleSteps` to
`BorrowSteps`), and `CompositionTheorem` passes the theorems of `SampleSpec`,
`IntSpec`, `BorrowSpec`, `NetSpec`, `RenderSpec` and `DateSpec` on to the whole. Of
the text module it says the safety part, since fairness takes ENABLED. The invariants of the other parts are proved in the
composition: `TextInv` (the parts written fit as long as there is room for more),
`DataInv` (`OwnGender` itself, with the provider one of the schema's), `TableInv` (tables have passed build.rs; `DrawsOf` counts the
draws for an item: `Choice` searches two running totals, one within the other,
and the draws of an item are an interval as long as its weight), `BuiltInv`
(what a field was compiled into is sound, `SoundField`: a table is not empty and has
as many weights as items, not all zero; no group is empty; all other lists are of any
length and without weights; the combined table of names is required. A panic is one of
`PanicsOnlyOnEmpty`'s, which is part of the invariant: with a sound field, a pick
can only go wrong for want of an entry).

## What is only model-checked

* `CallsEnd`, `TextEnds`, `RenderingEnds`: liveness is beyond the prover.
  TLC checks `RenderingEnds` for the templates of en_US, names cut short, up to
  two levels; of all templates that have a rank it is proved that no formatter is
  called within itself (`NoReentryTheorem`).

Every safety property that a passing run checks is also a theorem.

## Findings

Each is a run with a counterexample; `PROJECT.json` quotes the statement that it
contradicts.

* **override** (`OverrideWins`): `set_formatter` tells no proxy, so a Faker that
  has called a name keeps answering with the compiled-in method.
* **dynamic** (`FormattersFollowSeed`): a `DynamicProvider` made without
  `generator=` has a Generator of its own, which `seed_instance` of the Faker it
  was added to does not reach.
* **excluded** (`ExcludedNeverNoted`): after a duplicate, `unique.exclude_types`
  treats a redrawn value of an excluded type as any other.
* **copied** (`PromisedStreams`): children of an unseeded multi-locale Faker share
  a core; deepcopy clones it once, seeding no longer separates the copies, and
  one child moves the other.
* **endless** (`TextEnds`): `text` never returns for a list of empty words; the
  bound on attempts guards the outer loop only.
* **longtext** (`TextFits`): the capital of the first word is put in after the
  characters were counted, and may be two characters (ß).

## Abstractions

* **Random numbers.** A stream is its seed and the draws made since. Within an
  algorithm a draw is any value it can have: properties hold for all outcomes.
  Nothing is said about probabilities beyond counting draws (`AsConcatenated`,
  `PoolExact`).
* **Weights** are integers for doubles. Rounding (a draw at the very end of the
  total, with a chance of about 2^-53) can reach the fall-back to the last item,
  which the model's exact draws reach only when all that is left weighs zero.
* **Integers** are those up to `MaxInt` in place of 64 bits, and intermediate results are exact, as i128 is.
  A range of more than 2^63 members is cut (base.rs:34), in the model too.
* **Values and names** are atoms; `_make_hashable` is what makes two values one.
* **Time**: a day has three seconds, a second two ticks; dates are real dates of the
  Gregorian calendar. The clock goes forward: when the local clock is put back
  in autumn, two reads can be in the wrong order, which is not modelled: the
  local clock keeps its distance from UTC during a call. A zone changes its offset once.
  The docstring of `_tz.py` (lines 4 to 6) still has
  the binding call "the function of the same name here"; lib.rs resolves zones
  itself, and the models follow the code.
* **Addresses** are 7 bits wide, with tables of the same shape. The pools, which
  the code computes once, are recomputed: they are functions of constants.
* **Texts** are lengths in LoremText, and in Tokens sequences of the classes
  opening and closing brace, colon, blank and word character; Rust and Python disagree about
  U+001C to U+001F being blanks, which the classes cannot show. In Rendering a
  character stands for its class, in DateStrings and Placeholders two or three
  digits for ten. `\d` of Python also takes the digits of other scripts.
* **Methods** installed by `set_formatter` are those of providers; a compiled-in
  bound method that is stored under another name is not among them.
* **Attempts**: 3 for 1000 in `unique`, 2 for 10 000 in `text`.

## What is not modelled

* Argument groups, one dict for all generators: plain dict operations, and
  nothing in the repository says whose the groups are. Assignment of
  `Generator.random`, `pytimezone`.
* `time_series`: its generator keeps the core it was given; nothing says
  from which core the points that come after a `seed_instance` should be.
* `Faker.seed` with a seed of a type that is refused: Python 3.10 keeps it as
  the global seed, and Fakers made later raise.
* Methods stored under another name, and their deepcopy, which raises.
* Threads that construct Fakers at once (the look-up and store of `_shared_core`):
  Python calls are atomic here.
* The pytest plugin: all that it does to the session Faker is `seed_instance` and
  `unique.clear`, which FormatterCache, MultiLocale and UniqueValues model.
* Single draws and string work: abbreviations by state, countries,
  `dga`, `image_url`, IPv6, MAC, ports, e-mail with a given domain,
  random letters, date formats, zones by name, parsing of arguments.
* build.rs apart from validation and scanning, stub generation, data extraction:
  not part of the running program.

`PROJECT.json` lists every component with its status and every hazard with the
properties that cover it, or why none does.

## Plan

Done, in this order: FormatterCache with FakerApi and its proofs (the part where
most can go wrong and least shows in a test); UniqueValues and its proofs;
MultiLocale; the algorithms of the core, with Sampling proved; Tokens; time zones,
placeholders, rendering, locale data, date strings and the borrow of the core,
composed in Draws; the refinement of FakerApi, MultiLocale, random_int, running
totals, tables and text proved; then networks, dates, templates, date strings, placeholders
and the names that templates render.

What could come next:

1. Refused global seeds, and methods under other names, in `FormatterCache`.
2. A lazy generator that keeps the core it was given, once it is settled which
   core it should use; likewise argument groups.
3. Liveness for every value of the constants, once a prover takes ENABLED:
   `RenderingEnds` from the ranks of `NoReentryTheorem`, `CallsEnd` from the count of
   attempts.
