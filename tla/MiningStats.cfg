\* Two miners and a dashboard over two minutes, in half minutes.
CONSTANTS
    Miners = {m1, m2}
    Dashboards = {c1}
    Nobody = nobody
    Window = 2
    LastTick = 5
SPECIFICATION StatsSpec
INVARIANTS DashboardBacked
