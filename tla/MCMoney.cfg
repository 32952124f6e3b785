SPECIFICATION MCSpec
CONSTANTS
 None = None
 Fiat = {"USD"}
 MaxDay = 3
 Cutoff = 1
 Holidays = {2}
 STARTUP_REFRESH_ATTEMPTS = 2
VIEW View
INVARIANTS LookupFindsNewest  ListsPartition  ChartAgrees SpendConserved
 
