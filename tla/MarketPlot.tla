------------------------------ MODULE MarketPlot -----------------------------
(***************************************************************************)
(* The market plot, src/src/plot: the quotes (data.rs), the important      *)
(* moves in them (moves.rs), where everything of the chart goes, in pixels *)
(* (render/layout.rs, render/metrics.rs, render/mod.rs), and demo.rs,      *)
(* which plots ever more of the quotes.  Colours, drawing and the encoding *)
(* of the picture are left out.                                            *)
(*                                                                         *)
(* A price is an integer, in tenths of a cent.  Positions count from 1     *)
(* here and from 0 in the code.  A price times 100 may miss a whole cent   *)
(* by a rounding error: `slop` says by how much floor and ceil then err.   *)
(***************************************************************************)
EXTENDS Integers, Sequences, FiniteSets, SequencesExt

CONSTANTS Responses,  \* what the bank may answer: [day, price] in sequence
          LastN,      \* the quotes to be used: 90
          MinQuotes   \* at least so many: 8

ASSUME PlotAssumption ==
    /\ Responses \subseteq Seq([day : Int, price : Int])
    /\ {LastN, MinQuotes} \subseteq Nat
    /\ MinQuotes >= 3 \* the first picture has three

\* What the chart is made for: a dollar for ten cents to R$ 990,00, so that Digits
\* counts at most three, and fewer quotes than a plot has pixels across.
ASSUME ChartAssumption ==
    /\ \A response \in Responses : \A i \in DOMAIN response :
          100 <= response[i].price /\ response[i].price <= 990000
    /\ LastN <= 1000

VARIABLES quotes, \* the prices, by day; <<>> before they are loaded
          len,    \* how many of them are plotted
          slop,   \* [below, above]
          demo    \* "loading", "plotting", "done" or "failed"

plotVars == <<quotes, len, slop, demo>>

Largest(S) == CHOOSE n \in S : \A m \in S : m <= n
Smallest(S) == CHOOSE n \in S : \A m \in S : n <= m
Round(a, b) == (2 * a + b) \div (2 * b) \* of a / b, for a >= 0
UpTo(a, b) == (a + b - 1) \div b        \* a / b, rounded up
Distance(x) == IF x < 0 THEN -x ELSE x
Digits(n) == IF n < 10 THEN 1 ELSE IF n < 100 THEN 2 ELSE 3

-----------------------------------------------------------------------------
(* data.rs *)

\* The last price of each day, by day, and the last_n of them.
fetch_bcb_usd_brl_quotes(response) ==
    LET days == {response[i].day : i \in DOMAIN response}
        nth_day(n) == CHOOSE day \in days : Cardinality({d \in days : d <= day}) = n
        last(day) == Largest({i \in DOMAIN response : response[i].day = day})
        prices == [n \in 1 .. Cardinality(days) |-> response[last(nth_day(n))].price]
    IN  SubSeq(prices, IF Len(prices) > LastN THEN Len(prices) - LastN + 1 ELSE 1, Len(prices))

synthetic_cents ==
    <<564, 566, 561, 573, 576, 574, 562, 560, 567, 570, 558, 556, 559, 571, 569,
      565, 577, 580, 568, 566, 572, 584, 582, 579, 567, 569, 574, 563, 565, 578>>

synthetic_quotes == [n \in DOMAIN synthetic_cents |-> 10 * synthetic_cents[n]]

-----------------------------------------------------------------------------
(* moves.rs: the runs of rising, or of falling, prices.                    *)

important_delta == 30

Sign(x) == IF x > 0 THEN 1 ELSE IF x < 0 THEN -1 ELSE 0

maybe_push_move(out, start, end, delta) ==
    IF end <= start \/ Distance(delta) < important_delta THEN out
    ELSE Append(out, [start |-> start, end |-> end, delta |-> delta])

\* The run ends at quote i - 1 and the next one begins at `start`.
NextRun(run, i, start, delta) ==
    [out |-> maybe_push_move(run.out, run.start, i - 1, run.delta),
     start |-> start, delta |-> delta, direction |-> Sign(delta)]

\* The step from quote i - 1 to quote i.
TurnsAreLost(run, i, delta) == \* (mutant: a turn starts its run one quote late)
    IF delta # 0 /\ run.direction = 0
    THEN [run EXCEPT !.start = i - 1, !.delta = delta, !.direction = Sign(delta)]
    ELSE IF delta # 0 /\ Sign(delta) = run.direction
    THEN [run EXCEPT !.delta = @ + delta]
    ELSE NextRun(run, i, i, 0)
OneStep(run, i, delta) ==
    IF delta = 0 THEN NextRun(run, i, i, 0)
    ELSE IF run.direction = 0
    THEN [run EXCEPT !.start = i - 1, !.delta = delta, !.direction = Sign(delta)]
    ELSE IF Sign(delta) = run.direction THEN [run EXCEPT !.delta = @ + delta]
    ELSE NextRun(run, i, i - 1, delta)

\* The loop after each of the quotes.
scan(prices) ==
    LET run[i \in 1 .. Len(prices)] ==
            IF i = 1 THEN [out |-> <<>>, start |-> 1, delta |-> 0, direction |-> 0]
            ELSE OneStep(run[i - 1], i, prices[i] - prices[i - 1])
    IN  run

detect_important_moves(prices) ==
    LET last == scan(prices)[Len(prices)]
    IN  IF Len(prices) < 2 THEN <<>>
        ELSE maybe_push_move(last.out, last.start, Len(prices), last.delta)

-----------------------------------------------------------------------------
(* Texts, by their number of characters, and what they occupy: metrics.rs  *)
(* under the typography of Theme::default (62 % of an em wide, 118 % high).*)

measure(chars, font) == [width |-> UpTo(chars * font * 62, 100), height |-> UpTo(font * 118, 100)]
Rotated(box) == [width |-> box.height, height |-> box.width]

format_brl_cent(cents) == 6 + Digits(cents \div 100)
format_delta(delta) == 7 + Digits(Round(Distance(delta), 10) \div 100)

title_font == 32
small_font == 17   \* subtitle_font_px and axis_tick_font_px
label_font == 18   \* axis_label_font_px and movement_label_font_px
DayLabel == Rotated(measure(5, small_font))       \* dd/mm
AxisLabelHeight == measure(4, label_font).height  \* "data", "R$ por US$ 1"

\* Theme::default
Canvas == [width |-> 1280, height |-> 720]
outer == [left |-> 18, right |-> 42, top |-> 32, bottom |-> 18]
gap == [subtitle |-> 4, plot |-> 22, y_label |-> 18, x_label |-> 7, axis_labels |-> 18,
        edge |-> 2, inner |-> 12, movement |-> 4]
max_x_tick_labels == 8
min_x_tick_label_gap == 38
px_range == [min |-> 5, max |-> 22]
padding == 4
x_tick_length == 7
label_offset == 14

-----------------------------------------------------------------------------
(* layout.rs *)

nice_cent_tick(span) ==
    IF span <= 20 THEN 2 ELSE IF span <= 50 THEN 5 ELSE IF span <= 120 THEN 10
    ELSE IF span <= 250 THEN 25 ELSE 50

build_y_tick_cents(low, high) ==
    LET tick == nice_cent_tick(high - low)
        first == UpTo(low, tick) * tick
    IN  {c \in first .. high : (c - first) % tick = 0}

\* The quotes with a tick under them, of n, in a plot this wide.
MissesTheEnd(n, width) == \* (mutant: target steps, not target - 1)
    LET target == Smallest({max_x_tick_labels, n})
    IN  {1 + Round(k * (n - 1), target) : k \in 0 .. (target - 1)}
choose_evenly_spaced_indices(n, width) ==
    LET by_gap == Largest({2, (width \div min_x_tick_label_gap) + 1})
        target == Smallest({max_x_tick_labels, by_gap, n})
    IN  IF n = 1 THEN {1}
        ELSE {1 + Round(k * (n - 1), target - 1) : k \in 0 .. (target - 1)}

x_of_index(i, n, left, width) == left + Round((i - 1) * width, n - 1)
y_of_price(price, low, px, bottom) == bottom - Round((price - 10 * low) * px, 10)
y_of_cents(cents, low, px, bottom) == bottom - (cents - low) * px

px_per_cent(inner, span) ==
    Smallest({px_range.max, Largest({px_range.min, inner \div span})})

PlotAreaTop == outer.top + measure(1, title_font).height + gap.subtitle
               + measure(1, small_font).height + gap.plot
AxisLabelY == Canvas.height - outer.bottom - gap.edge - AxisLabelHeight
PlotAreaBottom == AxisLabelY - gap.axis_labels - DayLabel.height - gap.x_label - x_tick_length
InnerHeight == PlotAreaBottom - PlotAreaTop - 2 * gap.inner

\* build_layout; `ok` is FALSE where it returns an error.
build_layout(prices) ==
    LET lowest == Smallest(ToSet(prices))
        highest == Largest(ToSet(prices))
        low == lowest \div 10 - (IF lowest % 10 = 0 THEN slop.below ELSE 0) - padding
        high == UpTo(highest, 10) + (IF highest % 10 = 0 THEN slop.above ELSE 0) + padding
        tick_cents == build_y_tick_cents(low, high)
        label_width == measure(Largest({format_brl_cent(c) : c \in tick_cents}), small_font).width
        left == outer.left + label_width + gap.y_label
        right == Canvas.width - outer.right
        px == px_per_cent(InnerHeight, high - low)
        plot_height == (high - low) * px
        top == PlotAreaTop + gap.inner + (InnerHeight - plot_height) \div 2
    IN  [ok |-> Len(prices) >= 2 /\ right > left /\ plot_height <= InnerHeight,
         left |-> left, right |-> right, top |-> top, bottom |-> top + plot_height,
         low |-> low, high |-> high, px |-> px, ticks |-> tick_cents,
         labelled |-> choose_evenly_spaced_indices(Len(prices), right - left)]

-----------------------------------------------------------------------------
(* render/mod.rs *)

clamp_i32(v, lo, hi) == IF lo > hi THEN lo ELSE Smallest({Largest({v, lo}), hi})

\* RenderEngine::plan: the points.
PointOf(layout, prices, i) ==
    [x |-> x_of_index(i, Len(prices), layout.left, layout.right - layout.left),
     y |-> y_of_price(prices[i], layout.low, layout.px, layout.bottom)]

\* The place of the label of a move; there is no label_bg, hence no padding.
build_movement_layer(layout, prices, mv) ==
    LET from == PointOf(layout, prices, mv.start)
        to == PointOf(layout, prices, mv.end)
        box == measure(format_delta(mv.delta), label_font)
        mid_y == (from.y + to.y) \div 2
    IN  [x |-> clamp_i32((from.x + to.x) \div 2 - box.width \div 2,
                         layout.left + gap.movement, layout.right - box.width - gap.movement),
         y |-> clamp_i32(IF mv.delta >= 0 THEN mid_y - box.height - label_offset
                         ELSE mid_y + label_offset,
                         layout.top + gap.movement, layout.bottom - box.height - gap.movement),
         box |-> box]

-----------------------------------------------------------------------------
(* demo.rs *)

Plotted == SubSeq(quotes, 1, len)

PlotInit == quotes = <<>> /\ len = 0 /\ slop = [below |-> 0, above |-> 0] /\ demo = "loading"

\* The bank answers; too few quotes, like any failure, mean the synthetic ones.
Load == /\ demo = "loading"
        /\ \/ \E response \in Responses :
                 LET fetched == fetch_bcb_usd_brl_quotes(response)
                 IN  quotes' = IF Len(fetched) < MinQuotes THEN synthetic_quotes ELSE fetched
           \/ quotes' = synthetic_quotes
        /\ slop' \in [below : 0 .. 1, above : 0 .. 1]
        /\ demo' = "plotting" /\ len' = 3

\* One more quote than last time, until they all are plotted or plan fails.
PlotMore == /\ demo = "plotting" /\ build_layout(Plotted).ok
            /\ IF len < Len(quotes) THEN len' = len + 1 /\ UNCHANGED demo
               ELSE demo' = "done" /\ UNCHANGED len
            /\ UNCHANGED <<quotes, slop>>
PlotFails == /\ demo = "plotting" /\ ~build_layout(Plotted).ok
             /\ demo' = "failed" /\ UNCHANGED <<quotes, len, slop>>

PlotNext == Load \/ PlotMore \/ PlotFails
PlotSpec == PlotInit /\ [][PlotNext]_plotVars

-----------------------------------------------------------------------------
(* Properties *)

\* A chart that is drawn, and its parts.
Drawn == demo \in {"plotting", "done"} /\ build_layout(Plotted).ok
Moves == detect_important_moves(Plotted)

\* The prices only rise, or only fall, from quote a to quote b, and no further.
Up(prices, i) == Sign(prices[i + 1] - prices[i])
Monotone(prices, a, b) ==
    Up(prices, a) # 0 /\ \A i \in a .. (b - 1) : Up(prices, i) = Up(prices, a)
Longest(prices, a, b) ==
    /\ a < b /\ Monotone(prices, a, b)
    /\ a = 1 \/ ~Monotone(prices, a - 1, b)
    /\ b = Len(prices) \/ ~Monotone(prices, a, b + 1)
MoveFrom(prices, a, b) == [start |-> a, end |-> b, delta |-> prices[b] - prices[a]]

\* A move is a longest run of prices that only rise or only fall, by three
\* cents or more, and every such run is a move, in their order (moves.rs:18).
MovesAreLongestRuns ==
    demo # "loading" =>
        LET runs == {r \in (1 .. len) \X (1 .. len) :
                        /\ Longest(Plotted, r[1], r[2])
                        /\ Distance(Plotted[r[2]] - Plotted[r[1]]) >= important_delta}
        IN  /\ ToSet(Moves) = {MoveFrom(Plotted, r[1], r[2]) : r \in runs}
            /\ \A k \in 2 .. Len(Moves) : Moves[k - 1].end <= Moves[k].start

\* A move that one picture shows stays in the next one, which has a quote
\* more: it may have grown, by that quote only (demo.rs:124).
ShownMovesStay ==
    demo = "plotting" /\ len < Len(quotes) =>
        LET next == detect_important_moves(SubSeq(quotes, 1, len + 1))
        IN  /\ Len(Moves) <= Len(next)
            /\ \A k \in DOMAIN Moves :
                  \/ next[k] = Moves[k]
                  \/ /\ k = Len(Moves) /\ next[k].start = Moves[k].start
                     /\ Moves[k].end = len /\ next[k].end = len + 1

\* The moves: the longest runs, and the same ones from picture to picture.
MovesInv == MovesAreLongestRuns /\ ShownMovesStay

\* Whatever the prices, the scale, the title, its ticks and their labels find
\* room on the canvas, no label on another, and every quote is drawn inside
\* the plot, from left to right (layout.rs:54).
ChartFits ==
    Drawn =>
        LET at == build_layout(Plotted)
            label == measure(Largest({format_brl_cent(c) : c \in at.ticks}), small_font)
            subtitle == measure(77 + Digits(at.px) + Digits(Len(Moves)), small_font)
            title == measure(26 + Digits(len), title_font)
            y(c) == y_of_cents(c, at.low, at.px, at.bottom)
            x(i) == PointOf(at, Plotted, i).x
        IN  /\ at.left + subtitle.width <= Canvas.width /\ at.left + title.width <= Canvas.width
            /\ at.ticks # {}
            /\ \A c \in at.ticks : at.top <= y(c) /\ y(c) <= at.bottom
            /\ \A c, d \in at.ticks : c < d => y(c) - y(d) >= label.height
            /\ PlotAreaTop - gap.plot <= at.top - label.height \div 2
            /\ \A i, j \in at.labelled : i < j => x(j) - x(i) >= DayLabel.width
            /\ at.bottom + x_tick_length + gap.x_label + DayLabel.height <= AxisLabelY
            /\ \A i \in 1 .. len :
                  LET point == PointOf(at, Plotted, i)
                  IN  /\ at.left <= point.x /\ point.x <= at.right
                      /\ at.top < point.y /\ point.y < at.bottom
                      /\ i < len => point.x < x(i + 1)

\* The first and the last quote have their day under them, with at most eight
\* days in all (layout.rs:475).
EndsAreDated ==
    Drawn => LET labelled == build_layout(Plotted).labelled
             IN  {1, len} \subseteq labelled /\ labelled \subseteq 1 .. len
                 /\ Cardinality(labelled) <= max_x_tick_labels

\* The label of a move is inside the plot, wherever the move is.
MoveLabelsInPlot ==
    Drawn => LET at == build_layout(Plotted)
             IN  \A k \in DOMAIN Moves :
                    LET label == build_movement_layer(at, Plotted, Moves[k])
                    IN  /\ at.left < label.x /\ label.x + label.box.width < at.right
                        /\ at.top < label.y /\ label.y + label.box.height < at.bottom

\* The demonstration stops short only where the prices, with the padding,
\* span more cents than fit with five pixels each (layout.rs:291).
FailsOnlyIfTooWide ==
    demo = "failed" => LET at == build_layout(Plotted)
                       IN  (at.high - at.low) * px_range.min > InnerHeight

\* The chart: room for everything, the ends dated, the labels inside, and an error
\* only where nothing would fit.
ChartInv == ChartFits /\ EndsAreDated /\ MoveLabelsInPlot /\ FailsOnlyIfTooWide
=============================================================================
