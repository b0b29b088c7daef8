SPECIFICATION LiveSpec
CONSTANTS
    bot = bot  ann = ann  Ann = Ann  joe = joe
    cats = cats  dogs = dogs
    Nick = {bot, ann, Ann, joe}
    Lower = {bot, ann, joe}
    Fold <- Cases
    Bot = bot
    Channel = {cats, dogs}
    Nothing = Nothing
    MaxEvents = 7
INVARIANTS
    PresentAreHere
    HereIsPresent
    FileNamesLast
PROPERTY LoopsEnd
CHECK_DEADLOCK FALSE
