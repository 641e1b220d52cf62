SPECIFICATION ClockSpec
CONSTANTS
    Starts <- MCStarts
    MaxSeconds = 2
    RTC_FREQUENCY = 3
    Width = 4
    MaxRtcTicks = 20
INVARIANTS TimeRight RoundTrip SecondsByTicks
CHECK_DEADLOCK FALSE
